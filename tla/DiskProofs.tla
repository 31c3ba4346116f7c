----------------------------- MODULE DiskProofs -----------------------------
(***************************************************************************)
(* Theorems about the stage 2 disk driver, for every geometry int 13h can  *)
(* describe and every request inside the disk.  The argument: division     *)
(* facts, then the two conversions round-trip (geometry through the        *)
(* registers of int 13h/08h, LBA through C/H/S and the registers of        *)
(* int 13h/02h), then the inductive invariant TypeOK /\ SuccessMeansData.  *)
(***************************************************************************)
EXTENDS Disk, TLAPS

-----------------------------------------------------------------------------
(* Division. *)

\* Quotient and remainder of naturals, the facts about \div and % used below.
LEMMA DivMod ==
  ASSUME NEW a \in Nat, NEW b \in Nat, b > 0
  PROVE  /\ a \div b \in Nat
         /\ a % b \in 0 .. b - 1
         /\ a = (a \div b) * b + (a % b)
<1>1. a % b \in 0 .. b - 1
  BY SMT
<1>2. a \div b \in Nat
  BY SMT
<1>3. a = b * (a \div b) + (a % b)
  BY SMT
<1>4. a = (a \div b) * b + (a % b)
  BY <1>2, <1>3, SMT
<1>5. QED
  BY <1>1, <1>2, <1>4

\* A number below c * b has a quotient by b below c.
LEMMA DivBound ==
  ASSUME NEW a \in Nat, NEW b \in Nat, NEW c \in Nat, b > 0, a < c * b
  PROVE  a \div b < c
<1>1. a \div b \in Nat /\ a = (a \div b) * b + (a % b) /\ a % b \in Nat
  BY DivMod
<1>2. SUFFICES ASSUME a \div b >= c
               PROVE  FALSE
  BY <1>1
<1>3. (a \div b) * b >= c * b
  BY <1>1, <1>2
<1>4. QED
  BY <1>1, <1>3

-----------------------------------------------------------------------------
(* The two conversions. *)

\* diskGetDriveParams16 recovers from CH, CL and DH the geometry the BIOS put
\* there, for all 1024 cylinders, 256 heads and 63 sectors.
LEMMA GeometryRoundTrip ==
  ASSUME NEW g \in Geometry
  PROVE  LET p == diskGetDriveParams16(BiosDriveParams(g))
         IN  p.cylinders = g.cylinders /\ p.heads = g.heads /\ p.sectors = g.sectors
<1>1. g.cylinders \in 1 .. 1024 /\ g.heads \in 1 .. 256 /\ g.sectors \in 1 .. 63
  BY DEF Geometry
<1>2. PICK c \in 1 .. 1024, h \in 1 .. 256, s \in 1 .. 63 :
        c = g.cylinders /\ h = g.heads /\ s = g.sectors
  BY <1>1
<1> DEFINE cl == 64 * ((c - 1) \div 256) + s
<1>3. (c - 1) \div 256 \in 0 .. 3 /\ c - 1 = 256 * ((c - 1) \div 256) + ((c - 1) % 256)
  BY SMTT(30)
<1>4. cl \div 64 = (c - 1) \div 256 /\ cl % 64 = s
  BY <1>3, SMTT(30)
<1>5. diskGetDriveParams16(BiosDriveParams(g)) =
        [ cylinders |-> ((c - 1) % 256) + 256 * (cl \div 64) + 1,
          heads |-> h - 1 + 1, sectors |-> cl % 64 ]
  BY <1>2, SMTT(30) DEF diskGetDriveParams16, BiosDriveParams, DriveCylinders, Byte
<1> HIDE DEF cl
<1>6. ((c - 1) % 256) + 256 * (cl \div 64) + 1 = c
  BY <1>3, <1>4
<1>7. QED
  BY <1>2, <1>4, <1>5, <1>6

\* Every LBA of the disk is converted to a cylinder, head and sector that CH,
\* CL and DH can hold.
LEMMA ChsInRange ==
  ASSUME NEW g \in Geometry,
         NEW l \in Nat, l < Total(g)
  PROVE  LET chs == DISK_LBA2CHS(g, l)
         IN  /\ chs.cylinder \in 0 .. 1023
             /\ chs.head \in 0 .. 255
             /\ chs.sector \in 1 .. 63
             /\ l = (chs.cylinder * g.heads + chs.head) * g.sectors + chs.sector - 1
<1> DEFINE track == l \div g.sectors
           cyl   == track \div g.heads
           head  == track % g.heads
           sec   == l % g.sectors
           chs   == DISK_LBA2CHS(g, l)
<1>0. g.cylinders \in 1 .. 1024 /\ g.heads \in 1 .. 256 /\ g.sectors \in 1 .. 63
  BY DEF Geometry
<1>1. g.sectors \in Nat /\ g.sectors > 0 /\ g.heads \in Nat /\ g.heads > 0
  BY <1>0
<1>2. track \in Nat /\ sec \in 0 .. g.sectors - 1 /\ l = track * g.sectors + sec
  BY <1>1, DivMod
<1>3. g.cylinders \in Nat /\ g.cylinders * g.heads \in Nat
  <2>1. \A a, b \in Nat : a * b \in Nat
    OBVIOUS
  <2>2. g.cylinders \in Nat
    BY <1>0, SMTT(30)
  <2>3. QED
    BY <1>1, <2>1, <2>2
<1>4. track < g.cylinders * g.heads
  <2>1. l < (g.cylinders * g.heads) * g.sectors
    BY DEF Total
  <2>2. QED
    BY <1>1, <1>3, <2>1, DivBound
<1>5. /\ chs.cylinder = cyl % Word
      /\ chs.head = head % Word
      /\ chs.sector = (sec + 1) % Word
  BY DEF DISK_LBA2CHS
<1> HIDE DEF track, sec, chs
<1>6. cyl \in Nat /\ head \in 0 .. g.heads - 1 /\ track = cyl * g.heads + head
  BY <1>1, <1>2, DivMod
<1>7. cyl < g.cylinders
  BY <1>1, <1>2, <1>3, <1>4, DivBound
<1> HIDE DEF cyl, head
<1>a. cyl \in 0 .. 1023
  BY ONLY <1>0, <1>6, <1>7, SMTT(30)
<1>b. head \in 0 .. 255
  BY ONLY <1>0, <1>6
<1>c. sec + 1 \in 1 .. 63
  BY ONLY <1>0, <1>2
<1>8. chs.cylinder = cyl /\ chs.head = head /\ chs.sector = sec + 1
  <2>1. \A v \in 0 .. 1023 : v % Word = v
    BY DEF Word
  <2>2. head \in 0 .. 1023 /\ sec + 1 \in 0 .. 1023
    BY ONLY <1>b, <1>c
  <2>3. QED
    BY ONLY <1>5, <1>a, <2>1, <2>2, SMTT(30)
<1>9. l = (cyl * g.heads + head) * g.sectors + (sec + 1) - 1
  BY <1>1, <1>2, <1>6
<1>10. QED
  BY <1>8, <1>9, <1>a, <1>b, <1>c DEF chs

\* Packing C/H/S into CH, CL and DH and unpacking it as the BIOS does gives the
\* same LBA, the same drive and the same count.
LEMMA LbaRoundTrip ==
  \A g \in Geometry, l \in Nat, d \in 0 .. 255, n \in 1 .. 128 :
    l < Total(g) =>
      /\ BiosLba(g, ReadRegisters(d, DISK_LBA2CHS(g, l), n)) = l
      /\ ReadRegisters(d, DISK_LBA2CHS(g, l), n).al = n
      /\ ReadRegisters(d, DISK_LBA2CHS(g, l), n).dl = d
<1> SUFFICES ASSUME NEW g \in Geometry,
                    NEW l \in Nat,
                    NEW d \in 0 .. 255, NEW n \in 1 .. 128,
                    l < Total(g)
             PROVE  /\ BiosLba(g, ReadRegisters(d, DISK_LBA2CHS(g, l), n)) = l
                    /\ ReadRegisters(d, DISK_LBA2CHS(g, l), n).al = n
                    /\ ReadRegisters(d, DISK_LBA2CHS(g, l), n).dl = d
  OBVIOUS
<1> DEFINE chs  == DISK_LBA2CHS(g, l)
           regs == ReadRegisters(d, chs, n)
<1>1. /\ chs.cylinder \in 0 .. 1023
      /\ chs.head \in 0 .. 255
      /\ chs.sector \in 1 .. 63
      /\ l = (chs.cylinder * g.heads + chs.head) * g.sectors + chs.sector - 1
  BY ChsInRange
<1> HIDE DEF chs
<1>2. /\ regs.dl = d
      /\ regs.al = n
      /\ regs.dh = chs.head
      /\ regs.ch + Byte * (regs.cl \div 64) = chs.cylinder
      /\ regs.cl % 64 = chs.sector
  <2>1. PICK c \in 0 .. 1023, h \in 0 .. 255, s \in 1 .. 63 :
          c = chs.cylinder /\ h = chs.head /\ s = chs.sector
    BY <1>1
  <2>2. regs = [ dl |-> d, ch |-> c % 256, cl |-> (((c \div 256) * 64) % 256) + (s % 64),
                 dh |-> h % 256, al |-> n % 256 ]
    BY <2>1 DEF ReadRegisters, CylinderHigh, Byte
  <2>3. regs.dl = d /\ regs.al = n /\ regs.dh = h
    BY <2>2
  <2>4. regs.ch + 256 * (regs.cl \div 64) = c
    BY <2>2
  <2>5. regs.cl % 64 = s
    BY <2>2
  <2>6. QED
    BY <2>1, <2>3, <2>4, <2>5 DEF Byte
<1>3. g.heads \in Nat /\ g.sectors \in Nat
  BY DEF Geometry
<1>4. BiosLba(g, regs) = (chs.cylinder * g.heads + chs.head) * g.sectors + chs.sector - 1
  BY <1>1, <1>2, <1>3 DEF BiosLba
<1>5. QED
  BY <1>1, <1>2, <1>4 DEF chs
-----------------------------------------------------------------------------
(* The driver. *)

\* The assumption on the constants, element by element.
LEMMA Ranges ==
  /\ \A g \in Geometries : g \in Geometry
  /\ \A d \in Drives : d \in 0 .. 255
  /\ \A l \in Lbas : l \in Nat
  /\ \A n \in Counts : n \in 1 .. 128
  /\ \A e \in Errors : e \in 1 .. 255
<1>1. \A g \in Geometries : g \in Geometry
  BY ONLY DiskAssumption
<1>2. \A d \in Drives : d \in 0 .. 255
  BY ONLY DiskAssumption
<1>3. \A l \in Lbas : l \in Nat
  BY ONLY DiskAssumption
<1>4. \A n \in Counts : n \in 1 .. 128
  BY ONLY DiskAssumption
<1>5. \A e \in Errors : e \in 1 .. 255
  BY ONLY DiskAssumption
<1>6. QED
  BY ONLY <1>1, <1>2, <1>3, <1>4, <1>5

\* In a state of TypeOK a request is being served only with a DISK struct that
\* describes the drive, so the registers of the attempt address the request.
LEMMA AttemptAddressesRequest ==
  ASSUME TypeOK, pc = "read"
  PROVE  /\ BiosLba(geom, Registers) = lba
         /\ Registers.al = count
         /\ Registers.dl = drive
<1>1. /\ geom \in Geometry /\ drive \in 0 .. 255
      /\ lba \in Nat /\ count \in 1 .. 128 /\ InRange(lba, count)
      /\ disk = [id |-> drive, cylinders |-> geom.cylinders,
                 heads |-> geom.heads, sectors |-> geom.sectors]
  <2>1. /\ geom \in Geometries /\ drive \in Drives
        /\ lba \in Lbas /\ count \in Counts /\ InRange(lba, count)
        /\ disk = [id |-> drive, cylinders |-> geom.cylinders,
                   heads |-> geom.heads, sectors |-> geom.sectors]
    BY SMTT(30) DEF TypeOK
  <2>2. geom \in Geometry
    BY ONLY <2>1, Ranges
  <2>3. drive \in 0 .. 255 /\ lba \in Nat /\ count \in 1 .. 128
    BY ONLY <2>1, Ranges
  <2>4. QED
    BY ONLY <2>1, <2>2, <2>3
<1>2. geom.cylinders \in 1 .. 1024 /\ geom.heads \in 1 .. 256 /\ geom.sectors \in 1 .. 63
  BY <1>1 DEF Geometry
<1>3. /\ disk.id = drive /\ disk.cylinders = geom.cylinders
      /\ disk.heads = geom.heads /\ disk.sectors = geom.sectors
  BY <1>1
<1>4. DISK_LBA2CHS(disk, lba) = DISK_LBA2CHS(geom, lba)
  BY <1>3 DEF DISK_LBA2CHS
<1>5. lba < Total(geom)
  <2>1. \A a, b \in Int : a * b \in Int
    OBVIOUS
  <2>2. geom.cylinders \in Int /\ geom.heads \in Int /\ geom.sectors \in Int
    BY ONLY <1>2
  <2>3. Total(geom) \in Int
    BY <2>1, <2>2 DEF Total
  <2>4. QED
    BY <1>1, <2>3 DEF InRange
<1>6. Registers = ReadRegisters(drive, DISK_LBA2CHS(geom, lba), count)
  BY <1>3, <1>4 DEF Registers
<1>7. /\ BiosLba(geom, ReadRegisters(drive, DISK_LBA2CHS(geom, lba), count)) = lba
      /\ ReadRegisters(drive, DISK_LBA2CHS(geom, lba), count).al = count
      /\ ReadRegisters(drive, DISK_LBA2CHS(geom, lba), count).dl = drive
  <2>1. geom \in Geometry /\ lba \in Nat /\ drive \in 0 .. 255 /\ count \in 1 .. 128
    BY <1>1
  <2>2. QED
    BY ONLY <1>5, <2>1, LbaRoundTrip, Zenon
<1>8. QED
  BY <1>6, <1>7

IInv == TypeOK /\ SuccessMeansData

LEMMA InitIInv == Init => IInv
<1> SUFFICES ASSUME Init
             PROVE  TypeOK /\ SuccessMeansData
  BY DEF IInv
<1>1. TypeOK
  BY DEF Init, TypeOK, Attempts
<1>2. SuccessMeansData
  BY DEF Init, SuccessMeansData
<1>3. QED
  BY <1>1, <1>2

LEMMA NextIInv == IInv /\ [Next]_vars => IInv'
<1> SUFFICES ASSUME IInv, [Next]_vars
             PROVE  IInv'
  OBVIOUS
<1> USE DEF IInv
<1>1. CASE DISK_Init
  <2>1. geom \in Geometry
    BY Ranges DEF TypeOK
  <2>2. pc' = "ready" => disk' = [id |-> drive, cylinders |-> geom.cylinders,
                                  heads |-> geom.heads, sectors |-> geom.sectors]
    BY <1>1, <2>1, GeometryRoundTrip DEF DISK_Init
  <2>3. TypeOK'
    BY <1>1, <2>2 DEF DISK_Init, TypeOK
  <2>4. SuccessMeansData'
    BY <1>1 DEF DISK_Init, SuccessMeansData
  <2>5. QED
    BY <2>3, <2>4
<1>2. CASE \E l \in Lbas, n \in Counts : DISK_ReadSectors(l, n)
  <2>1. PICK l \in Lbas, n \in Counts : DISK_ReadSectors(l, n)
    BY <1>2
  <2>2. TypeOK'
    BY <2>1 DEF DISK_ReadSectors, TypeOK, InRange, Attempts
  <2>3. SuccessMeansData'
    BY <2>1 DEF DISK_ReadSectors, SuccessMeansData
  <2>4. QED
    BY <2>2, <2>3
<1>3. CASE ReadSucceeds
  <2>1. BiosLba(geom, Registers) = lba /\ Registers.al = count
    BY <1>3, AttemptAddressesRequest DEF ReadSucceeds
  <2>2. TypeOK'
    BY <1>3 DEF ReadSucceeds, TypeOK, InRange
  <2>3. SuccessMeansData'
    BY <1>3, <2>1 DEF ReadSucceeds, SuccessMeansData
  <2>4. QED
    BY <2>2, <2>3
<1>4. CASE ReadFails
  <2>1. Registers.dl = drive
    BY <1>4, AttemptAddressesRequest DEF ReadFails
  <2>2. TypeOK'
    BY <1>4, <2>1 DEF ReadFails, TypeOK, InRange
  <2>3. SuccessMeansData'
    BY <1>4 DEF ReadFails, SuccessMeansData
  <2>4. QED
    BY <2>2, <2>3
<1>5. CASE DISK_Reset
  <2>1. TypeOK'
    BY <1>5 DEF DISK_Reset, AfterReset, TypeOK, InRange, Attempts
  <2>2. SuccessMeansData'
    <3>1. result' # 0
      BY <1>5, Ranges DEF DISK_Reset, TypeOK
    <3>2. QED
      BY <3>1 DEF SuccessMeansData
  <2>3. QED
    BY <2>1, <2>2
<1>6. CASE UNCHANGED vars
  BY <1>6 DEF vars, TypeOK, SuccessMeansData, InRange
<1>7. QED
  BY <1>1, <1>2, <1>3, <1>4, <1>5, <1>6 DEF Next

\* The types of the driver's state, for every geometry, drive and request.
THEOREM TypeCorrect == Spec => []TypeOK
<1>1. IInv => TypeOK
  BY DEF IInv
<1>2. QED
  BY InitIInv, NextIInv, <1>1, PTL DEF Spec

\* DISK_ReadSectors returns 0 only with the requested sectors in the buffer, for
\* every geometry, drive and request inside the disk, whatever attempts failed.
THEOREM ReadCorrect == Spec => []SuccessMeansData
<1>1. IInv => SuccessMeansData
  BY DEF IInv
<1>2. QED
  BY InitIInv, NextIInv, <1>1, PTL DEF Spec

-----------------------------------------------------------------------------
(* The reset, and the driver as a block device. *)

\* On the drive diskReset16 passes on, whatever was asked for, a second or third
\* attempt finds the drive reset.
THEOREM ResetsDrive0 == Spec => []Drive0RetryAfterReset
<1>1. Init => Drive0RetryAfterReset
  BY DEF Init, Drive0RetryAfterReset, RetryAfterReset
<1>2. IInv /\ Drive0RetryAfterReset /\ [Next]_vars => Drive0RetryAfterReset'
  <2> SUFFICES ASSUME TypeOK, Drive0RetryAfterReset, [Next]_vars,
                      drive' = ResetDrive, pc' = "read", i' > 0
               PROVE  disk'.id \notin faulted'
    BY DEF IInv, Drive0RetryAfterReset, RetryAfterReset, ResetDrive
  <2>1. CASE DISK_Init
    BY <2>1 DEF DISK_Init
  <2>2. CASE \E l \in Lbas, n \in Counts : DISK_ReadSectors(l, n)
    BY <2>2 DEF DISK_ReadSectors
  <2>3. CASE ReadSucceeds
    BY <2>3 DEF ReadSucceeds
  <2>4. CASE ReadFails
    BY <2>4 DEF ReadFails
  <2>5. CASE DISK_Reset
    <3>1. faulted' = faulted \ {ResetDrive} /\ UNCHANGED <<drive, disk>> /\ pc = "reset"
      BY <2>5 DEF DISK_Reset
    <3>2. disk'.id = drive
      BY <3>1 DEF TypeOK
    <3>3. QED
      BY <3>1, <3>2
  <2>6. CASE UNCHANGED vars
    BY <2>6 DEF vars, Drive0RetryAfterReset, RetryAfterReset
  <2>7. QED
    BY <2>1, <2>2, <2>3, <2>4, <2>5, <2>6 DEF Next
<1>3. QED
  BY <1>1, <1>2, InitIInv, NextIInv, PTL DEF Spec

\* The driver starts as a device that was not opened.
LEMMA InitDevice == Init => Device!Init
  BY DEF Init, Device!Init, Device!Pending, Device!Nothing, Nothing

\* A failed attempt and a reset that is followed by another attempt cannot be seen;
\* every other step is the device's.
LEMMA NextDevice == IInv /\ [Next]_vars => [Device!Next]_(Device!vars)
<1> SUFFICES ASSUME TypeOK, [Next]_vars
             PROVE  Device!Next \/ UNCHANGED Device!vars
  BY DEF IInv
<1>1. CASE DISK_Init
  <2>1. Device!Open
    BY <1>1 DEF DISK_Init, Device!Open
  <2>2. QED
    BY <2>1 DEF Device!Next
<1>2. CASE \E l \in Lbas, n \in Counts : DISK_ReadSectors(l, n)
  <2>1. PICK l \in Lbas, n \in Counts : DISK_ReadSectors(l, n)
    BY <1>2
  <2>2. Device!Request(l, n)
    BY <2>1 DEF DISK_ReadSectors, Device!Request, Device!Pending, Device!Nothing, Nothing
  <2>3. QED
    BY <2>2 DEF Device!Next
<1>3. CASE ReadSucceeds
  <2>1. BiosLba(geom, Registers) = lba /\ Registers.al = count
    BY <1>3, AttemptAddressesRequest DEF ReadSucceeds
  <2>2. dataOut' = Device!Sectors(lba, count)
    BY <1>3, <2>1 DEF ReadSucceeds, Device!Sectors
  <2>3. Device!Answer
    BY <1>3, <2>2 DEF ReadSucceeds, Device!Answer
  <2>4. QED
    BY <2>3 DEF Device!Next
<1>4. CASE ReadFails
  BY <1>4 DEF ReadFails, Device!vars
<1>5. CASE DISK_Reset
  <2>1. pc = "reset" /\ UNCHANGED <<lba, count, dataOut>> /\ pc' \in {"read", "done"}
    BY <1>5 DEF DISK_Reset, AfterReset
  <2>2. CASE pc' = "read"
    BY <2>1, <2>2 DEF Device!vars
  <2>3. CASE pc' = "done"
    <3>1. result' \in Nat \ {0}
      BY <1>5, <2>1, Ranges DEF DISK_Reset, TypeOK
    <3>2. Device!Answer
      BY <2>1, <2>3, <3>1 DEF Device!Answer
    <3>3. QED
      BY <3>2 DEF Device!Next
  <2>4. QED
    BY <2>1, <2>2, <2>3
<1>6. CASE UNCHANGED vars
  BY <1>6 DEF vars, Device!vars
<1>7. QED
  BY <1>1, <1>2, <1>3, <1>4, <1>5, <1>6 DEF Next

\* DISK_ReadSectors with its three attempts and its resets implements the block device
\* fat.c is written for: each request is answered once, with 0 only if the buffer holds
\* the sectors, for every geometry, drive and request.
THEOREM ImplementsBlockDevice == Spec => Device!Spec
<1>1. QED
  BY InitDevice, NextDevice, InitIInv, NextIInv, PTL DEF Spec, Device!Spec
=============================================================================
