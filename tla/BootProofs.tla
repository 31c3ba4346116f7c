----------------------------- MODULE BootProofs -----------------------------
(***************************************************************************)
(* The boot sector, for every drive and geometry, every pattern of failed  *)
(* reads and resets, and key presses at any time.                          *)
(***************************************************************************)
EXTENDS BootSector, TLAPS

Loading == {"init", "main", "read", "reset", "check", "error"}

\* Only a drive that was tried is in error, and none before the first attempt.
DiskOK ==
  /\ RetryAfterReset
  /\ pc \in {"init", "main"} => faulted = {}

\* How far EnableA20 is, and what it has left in the 8042's input buffer.
HandshakeOK ==
  /\ pc \in Loading => step = 1
  /\ pc = "stage2" => step = 7
  /\ step = 1 => input = Empty /\ ~reply
  /\ step = 2 => input = Empty \/ input.is = "Disable"
  /\ step = 3 => input = Empty \/ input.is = "ReadPort"
  /\ step = 4 => input = Empty \/ input.is = "ReadPort"
  /\ step = 5 => input.is = "WritePort" \/ (input = Empty /\ expects)
  /\ step = 6 => \/ input.is = "data" /\ expects /\ input.bits \in {2, 3}
                 \/ input = Empty /\ port \in {2, 3}
  /\ step = 7 => /\ port \in {2, 3}
                 /\ input = Empty \/ input.is = "Enable"

\* Without a stale scan code the output buffer is EnableA20's from Disable to Enable.
CleanOK ==
  ~stale =>
    /\ pc # "resetting"
    /\ port % 2 = 1
    /\ step = 2 => ~reply /\ (input = Empty => ~kbdOn /\ output = Empty)
    /\ step = 3 => /\ ~kbdOn
                   /\ input # Empty \/ reply => output = Empty
                   /\ input # Empty => ~reply
                   /\ output # Empty => output.is = "port" /\ output.bits % 2 = 1
    /\ step = 4 => input = Empty
    /\ step \in 4 .. 6 => ~kbdOn /\ ~reply /\ output = Empty /\ al % 2 = 1
    /\ step = 6 /\ input.is = "data" => input.bits % 2 = 1
    /\ step = 7 => ~reply /\ output.is \in {"none", "key"}

BootInv == TypeOK /\ DiskOK /\ HandshakeOK /\ CleanOK

-----------------------------------------------------------------------------
\* The accesses of EnableA20, in order.
LEMMA ProgramSteps ==
  ASSUME NEW s \in 1 .. Len(A20Program), NEW access, A20Program[s] = access
  PROVE  /\ Len(A20Program) = 7
         /\ access = "Disable" => s = 1
         /\ access = "ReadPort" => s = 2
         /\ access = "in" => s = 3
         /\ access = "WritePort" => s = 4
         /\ access = "out" => s = 5
         /\ access = "Enable" => s = 6
         /\ access = "ret" => s = 7
         /\ access \in Commands => s \in {1, 2, 4, 6}
  BY DEF A20Program, Commands

\* The machine is switched on: nothing tried, nothing written.
LEMMA InitBoot ==
  BootAssumption /\ Init => BootInv
<1> SUFFICES ASSUME BootAssumption, Init
             PROVE  BootInv
  OBVIOUS
<1>1. Len(A20Program) = 7
  BY DEF A20Program
<1>2. TypeOK
  <2>1. Empty \in [is : Commands \cup {"none", "data"}, bits : Bits]
    BY DEF Empty, Bits
  <2>2. Empty \in [is : {"none", "key", "port"}, bits : Bits]
    BY DEF Empty, Bits
  <2>3. port \in Bits /\ al \in Bits /\ keys \in 0 .. MaxKeys
    BY DEF Init, Bits, BootAssumption
  <2>4. Empty.is = "none"
    BY DEF Empty
  <2>5. {expects, reply, kbdOn, stale} \subseteq BOOLEAN
    BY DEF Init
  <2>6. /\ geom \in Geometries /\ drive \in Drives /\ faulted \subseteq Drives
        /\ dl \in Drives \cup {0} /\ di \in 0 .. Attempts /\ ax \in 0 .. 2
        /\ step \in 1 .. 7 /\ pc = "init"
    BY DEF Init, Attempts
  <2>7. input = Empty /\ output = Empty
    BY DEF Init
  <2>8. QED
    BY <1>1, <2>1, <2>2, <2>3, <2>4, <2>5, <2>6, <2>7 DEF TypeOK
<1>3. DiskOK /\ HandshakeOK
  BY DEF Init, DiskOK, RetryAfterReset, HandshakeOK, Loading
<1>4. port % 2 = 1
  <2>1. port = 1 \/ port = 3
    BY DEF Init
  <2>2. QED
    BY <2>1
<1>5. CleanOK
  BY <1>4 DEF Init, CleanOK
<1>6. QED
  BY <1>2, <1>3, <1>5 DEF BootInv

-----------------------------------------------------------------------------
(* Loading stage 2. *)

\* boot_disk_read resets the drive it tries, and tries it again only after that.
LEMMA LoadSteps ==
  ASSUME BootAssumption, BootInv,
         \/ Start \/ Main \/ ReadSucceeds \/ ReadFails \/ ResetSucceeds \/ ResetFails \/ CheckResult
  PROVE  BootInv'
<1> USE DEF BootInv
<1>1. UNCHANGED <<step, al, kbc>> /\ pc \in Loading /\ pc' \in (Loading \cup {"a20"})
  BY DEF Start, Main, ReadSucceeds, ReadFails, ResetSucceeds, ResetFails, CheckResult, kbc, Loading
<1>2. HandshakeOK' /\ CleanOK'
  BY <1>1 DEF HandshakeOK, CleanOK, kbc, Loading
<1>3. /\ step' \in 1 .. Len(A20Program)
      /\ al' \in Bits
      /\ input' \in [is : Commands \cup {"none", "data"}, bits : Bits]
      /\ input'.is = "data" => expects'
      /\ output' \in [is : {"none", "key", "port"}, bits : Bits]
      /\ port' \in Bits
      /\ keys' \in 0 .. MaxKeys
      /\ {expects', reply', kbdOn', stale'} \subseteq BOOLEAN
  BY <1>1 DEF TypeOK, kbc
<1>4. CASE Start
  BY <1>2, <1>3, <1>4 DEF Start, disk, TypeOK, DiskOK, RetryAfterReset
<1>5. CASE Main
  <2>1. /\ pc' = "read" /\ dl' = drive /\ di' = 3 /\ UNCHANGED <<geom, drive, faulted, ax>>
        /\ pc = "main"
    BY <1>5 DEF Main, Attempts
  <2>2. faulted' = {}
    BY <2>1 DEF DiskOK
  <2>3. DiskOK'
    BY <2>1, <2>2 DEF DiskOK, RetryAfterReset
  <2>4. TypeOK'
    BY <1>3, <2>1 DEF TypeOK, Attempts
  <2>5. QED
    BY <1>2, <2>3, <2>4
<1>6. CASE ReadSucceeds
  BY <1>2, <1>3, <1>6 DEF ReadSucceeds, TypeOK, DiskOK, RetryAfterReset
<1>7. CASE ReadFails
  BY <1>2, <1>3, <1>7 DEF ReadFails, TypeOK, DiskOK, RetryAfterReset
<1>8. CASE ResetSucceeds
  <2>1. di - 1 \in 0 .. Attempts /\ (di # 1 => di - 1 > 0)
    BY <1>8 DEF ResetSucceeds, TypeOK, Attempts
  <2>2. faulted' = faulted \ {drive} /\ dl' = drive /\ di' = di - 1 /\ UNCHANGED <<geom, drive>>
    BY <1>8 DEF ResetSucceeds, TypeOK
  <2>3. \/ di = 1 /\ pc' = "check" /\ ax' = 1
        \/ di # 1 /\ pc' = "read" /\ ax' = ax
    BY <1>8 DEF ResetSucceeds
  <2>4. DiskOK'
    BY <2>2, <2>3 DEF DiskOK, RetryAfterReset
  <2>5. ax' \in 0 .. 2 /\ pc' \in {"read", "check"}
    BY <2>3 DEF TypeOK
  <2>6. faulted' \subseteq Drives /\ dl' \in Drives /\ geom' \in Geometries /\ drive' \in Drives
    BY <2>2 DEF TypeOK
  <2>7. /\ di' \in 0 .. Attempts
        /\ pc' \in {"read", "reset"} => di' > 0 /\ dl' = drive'
    BY <2>1, <2>2, <2>3
  <2>8. TypeOK'
    BY <1>3, <2>5, <2>6, <2>7 DEF TypeOK
  <2>9. QED
    BY <1>2, <2>4, <2>8
<1>9. CASE ResetFails
  BY <1>2, <1>3, <1>9 DEF ResetFails, TypeOK, DiskOK, RetryAfterReset
<1>10. CASE CheckResult
  BY <1>2, <1>3, <1>10 DEF CheckResult, disk, TypeOK, DiskOK, RetryAfterReset
<1>11. QED
  BY <1>4, <1>5, <1>6, <1>7, <1>8, <1>9, <1>10

-----------------------------------------------------------------------------
(* The handshake. *)

\* While the disk's variables stand, its part of the invariant does.
LEMMA DiskStands ==
  ASSUME BootInv, UNCHANGED <<geom, drive, disk>>,
         pc' = pc \/ pc' \in {"stage2", "resetting"}
  PROVE  /\ DiskOK'
         /\ geom' \in Geometries
         /\ drive' \in Drives
         /\ faulted' \subseteq Drives
         /\ dl' \in Drives \cup {0}
         /\ di' \in 0 .. Attempts
         /\ pc' \in {"init", "main", "read", "reset", "check", "error", "a20", "stage2",
                     "resetting"}
         /\ pc' \in {"read", "reset"} => di' > 0 /\ dl' = drive'
         /\ ax' \in 0 .. 2
  BY DEF BootInv, TypeOK, DiskOK, RetryAfterReset, disk

\* A command is written once the one before it was taken.
LEMMA CommandSteps ==
  ASSUME BootAssumption, BootInv, WriteCommand
  PROVE  BootInv'
<1> USE DEF BootInv
<1>1. PICK c \in Commands : Now(c) /\ Write(Byte8042(c, 0))
  BY DEF WriteCommand
<1>2. /\ pc = "a20" /\ A20Program[step] = c /\ input = Empty
      /\ input' = [is |-> c, bits |-> 0] /\ step' = step + 1
      /\ UNCHANGED <<geom, drive, pc, disk, al, expects, output, reply, kbdOn, port, keys, stale>>
  BY <1>1 DEF Now, Write, Byte8042
<1>3. /\ Len(A20Program) = 7 /\ step \in {1, 2, 4, 6}
      /\ step = 1 => c = "Disable"
      /\ step = 2 => c = "ReadPort"
      /\ step = 4 => c = "WritePort"
      /\ step = 6 => c = "Enable"
  BY <1>2, ProgramSteps DEF TypeOK, A20Program
<1>4. TypeOK'
  BY <1>2, <1>3, DiskStands DEF TypeOK, Bits, Commands
<1>5. input.is = "none" /\ c \in {"Disable", "ReadPort", "WritePort", "Enable"}
  BY <1>2 DEF Empty, Commands
<1>6. HandshakeOK'
  BY <1>2, <1>3, <1>5 DEF HandshakeOK, Loading
<1>7. CleanOK'
  BY <1>2, <1>3, <1>5 DEF CleanOK, HandshakeOK, Empty
<1>8. QED
  BY <1>2, <1>4, <1>6, <1>7, DiskStands

\* The byte written to the output port has the gate's bit, and the other one as read.
LEMMA DataSteps ==
  ASSUME BootAssumption, BootInv, WriteData
  PROVE  BootInv'
<1> USE DEF BootInv
<1>1. /\ pc = "a20" /\ A20Program[step] = "out" /\ input = Empty
      /\ input' = [is |-> "data", bits |-> OrA20(al)] /\ step' = step + 1
      /\ UNCHANGED <<geom, drive, pc, disk, al, expects, output, reply, kbdOn, port, keys, stale>>
  BY DEF WriteData, Now, Write, Byte8042
<1>2. Len(A20Program) = 7 /\ step = 5
  BY <1>1, ProgramSteps DEF TypeOK
<1>3. OrA20(al) \in {2, 3} /\ (al % 2 = 1 => OrA20(al) % 2 = 1)
  <2>1. al \in {0, 1, 2, 3}
    BY DEF TypeOK, Bits
  <2>2. QED
    BY <2>1 DEF OrA20
<1>4. expects
  BY <1>1, <1>2 DEF HandshakeOK, Empty
<1>5. TypeOK'
  BY <1>1, <1>2, <1>3, <1>4, DiskStands DEF TypeOK, Bits, Commands
<1>6. HandshakeOK'
  BY <1>1, <1>2, <1>3, <1>4 DEF HandshakeOK, Loading
<1>7. CleanOK'
  BY <1>1, <1>2, <1>3 DEF CleanOK
<1>8. QED
  BY <1>1, <1>5, <1>6, <1>7, DiskStands

\* The one read takes the answer, or a stale scan code.
LEMMA AnswerSteps ==
  ASSUME BootAssumption, BootInv, ReadAnswer
  PROVE  BootInv'
<1> USE DEF BootInv
<1>1. /\ pc = "a20" /\ A20Program[step] = "in" /\ output # Empty
      /\ al' = output.bits /\ output' = Empty /\ step' = step + 1
      /\ UNCHANGED <<geom, drive, pc, disk, input, expects, reply, kbdOn, port, keys, stale>>
  BY DEF ReadAnswer, Now
<1>2. Len(A20Program) = 7 /\ step = 3
  BY <1>1, ProgramSteps DEF TypeOK
<1>3. Empty \in [is : {"none", "key", "port"}, bits : Bits]
  BY DEF Empty, Bits
<1>4. TypeOK'
  BY <1>1, <1>2, <1>3, DiskStands DEF TypeOK
<1>5. HandshakeOK'
  BY <1>1, <1>2 DEF HandshakeOK, Loading
<1>6. CleanOK'
  BY <1>1, <1>2 DEF CleanOK
<1>7. QED
  BY <1>1, <1>4, <1>5, <1>6, DiskStands

\* The last wait, and the far jump.
LEMMA EnterSteps ==
  ASSUME BootAssumption, BootInv, EnterStage2
  PROVE  BootInv'
<1> USE DEF BootInv
<1>1. /\ pc = "a20" /\ A20Program[step] = "ret" /\ input = Empty /\ pc' = "stage2"
      /\ UNCHANGED <<geom, drive, disk, step, al, kbc>>
  BY DEF EnterStage2, Now
<1>2. step = 7
  BY <1>1, ProgramSteps DEF TypeOK
<1>3. TypeOK'
  BY <1>1, DiskStands DEF TypeOK, kbc
<1>4. HandshakeOK'
  BY <1>1, <1>2 DEF HandshakeOK, Loading, kbc
<1>5. CleanOK'
  BY <1>1, <1>2 DEF CleanOK, kbc
<1>6. QED
  BY <1>1, <1>3, <1>4, <1>5, DiskStands

-----------------------------------------------------------------------------
(* The 8042 and the keyboard. *)

\* A command takes effect: after Disable a byte in the output buffer is a stale one.
LEMMA TakeCommandSteps ==
  ASSUME BootAssumption, BootInv, TakeCommand
  PROVE  BootInv'
<1> USE DEF BootInv
<1>1. /\ pc # "resetting" /\ input.is \in Commands /\ input' = Empty
      /\ kbdOn' = (input.is = "Enable" \/ (kbdOn /\ input.is # "Disable"))
      /\ stale' = (stale \/ (input.is = "Disable" /\ output # Empty))
      /\ reply' = (reply \/ input.is = "ReadPort")
      /\ expects' = (expects \/ input.is = "WritePort")
      /\ UNCHANGED <<geom, drive, pc, disk, step, al, output, port, keys>>
  BY DEF TakeCommand, Live
<1>2. Empty \in [is : Commands \cup {"none", "data"}, bits : Bits] /\ Empty.is = "none"
  BY DEF Empty, Bits
<1>3. TypeOK'
  BY <1>1, <1>2, DiskStands DEF TypeOK
<1>4. "none" \notin Commands /\ "data" \notin Commands
  BY DEF Commands
<1>5. Len(A20Program) = 7 /\ step \in 1 .. 7
  BY DEF TypeOK, A20Program
<1>6. /\ step \in {2, 3, 4, 5, 7}
      /\ step = 2 => input.is = "Disable"
      /\ step = 3 => input.is = "ReadPort"
      /\ step = 4 => input.is = "ReadPort"
      /\ step = 5 => input.is = "WritePort"
      /\ step = 7 => input.is = "Enable"
  BY <1>1, <1>2, <1>4, <1>5 DEF HandshakeOK
<1>7. HandshakeOK'
  BY <1>1, <1>6, ZenonT(60) DEF HandshakeOK, Loading
<1>8. CleanOK'
  <2>1. step = 2 => ~kbdOn' /\ (~stale' => output' = Empty)
    BY <1>1, <1>6
  <2>2. step = 3 => (kbdOn' <=> kbdOn) /\ reply'
    BY <1>1, <1>6
  <2>3. step \in {4, 5} => (kbdOn' <=> kbdOn)
    BY <1>1, <1>6
  <2>4. step # 3 /\ step # 4 => (reply' <=> reply)
    BY <1>1, <1>6
  <2>5. stale => stale'
    BY <1>1
  <2>6. step = 4 => stale
    BY <1>2, <1>4, <1>1 DEF CleanOK
  <2>7. QED
    BY <1>1, <1>2, <1>6, <2>1, <2>2, <2>3, <2>4, <2>5, <2>6 DEF CleanOK
<1>9. QED
  BY <1>1, <1>3, <1>7, <1>8, DiskStands

\* The output port is written with the gate open, and without a reset unless the byte
\* read was a stale one.
LEMMA TakeDataSteps ==
  ASSUME BootAssumption, BootInv, TakeData
  PROVE  BootInv'
<1> USE DEF BootInv
<1>1. /\ pc # "resetting" /\ input.is = "data" /\ input' = Empty /\ expects' = FALSE
      /\ port' = input.bits
      /\ pc' = IF input.bits % 2 = 0 THEN "resetting" ELSE pc
      /\ UNCHANGED <<geom, drive, disk, step, al, output, reply, kbdOn, keys, stale>>
  BY DEF TakeData, Live
<1>2. Empty \in [is : Commands \cup {"none", "data"}, bits : Bits] /\ Empty.is = "none"
  BY DEF Empty, Bits
<1>3. /\ pc' = pc \/ pc' = "resetting"
      /\ input.bits \in Bits
  BY <1>1 DEF TypeOK
<1>4. TypeOK'
  <2>1. {expects', reply', kbdOn', stale'} \subseteq BOOLEAN
    <3>1. reply \in BOOLEAN /\ kbdOn \in BOOLEAN /\ stale \in BOOLEAN
      BY DEF TypeOK
    <3>2. expects' \in BOOLEAN /\ reply' = reply /\ kbdOn' = kbdOn /\ stale' = stale
      BY <1>1
    <3>3. QED
      BY <3>1, <3>2
  <2>2. port' \in Bits /\ input'.is # "data"
    BY <1>1, <1>2, <1>3
  <2>3. QED
    BY <1>1, <1>2, <1>3, <2>1, <2>2, DiskStands DEF TypeOK
<1>5. step = 6 /\ input.bits \in {2, 3}
  <2>1. step \in 1 .. 7
    BY DEF TypeOK, A20Program
  <2>2. QED
    BY <1>1, <1>2, <2>1 DEF HandshakeOK
<1>6. HandshakeOK'
  BY <1>1, <1>3, <1>5 DEF HandshakeOK, Loading
<1>7. ~stale => input.bits % 2 = 1
  BY <1>1, <1>5 DEF CleanOK
<1>8. CleanOK'
  <2>1. ~stale => pc' # "resetting"
    BY <1>1, <1>3, <1>5, <1>7
  <2>2. QED
    BY <1>1, <1>2, <1>5, <1>7, <2>1 DEF CleanOK
<1>9. QED
  BY <1>1, <1>3, <1>4, <1>6, <1>8, DiskStands

\* The answer to the command D0 is the output port as it stands.
LEMMA ReplySteps ==
  ASSUME BootAssumption, BootInv, Answer
  PROVE  BootInv'
<1> USE DEF BootInv
<1>1. /\ reply /\ output = Empty
      /\ output' = [is |-> "port", bits |-> port] /\ reply' = FALSE
      /\ UNCHANGED <<geom, drive, pc, disk, step, al, input, expects, kbdOn, port, keys, stale>>
  BY DEF Answer, Byte8042
<1>2. TypeOK'
  <2>1. reply' \in BOOLEAN /\ expects' = expects /\ kbdOn' = kbdOn /\ stale' = stale
    BY <1>1
  <2>2. {expects', reply', kbdOn', stale'} \subseteq BOOLEAN
    BY <2>1 DEF TypeOK
  <2>3. output' \in [is : {"none", "key", "port"}, bits : Bits]
    BY <1>1 DEF TypeOK
  <2>4. QED
    BY <1>1, <2>2, <2>3, DiskStands DEF TypeOK
<1>3. HandshakeOK'
  BY <1>1 DEF HandshakeOK, Loading
<1>4. step \in 1 .. 7
  BY DEF TypeOK, A20Program
<1>5. ~stale => step = 3 /\ port % 2 = 1
  BY <1>1, <1>4 DEF CleanOK, HandshakeOK
<1>6. CleanOK'
  BY <1>1, <1>5 DEF CleanOK
<1>7. QED
  BY <1>1, <1>2, <1>3, <1>6, DiskStands

\* Bytes from the keyboard come before Disable is taken and after Enable is.
LEMMA KeySteps ==
  ASSUME BootAssumption, BootInv,
         (\E b \in Bits : SendKey(b)) \/ BiosTakesKey
  PROVE  BootInv'
<1> USE DEF BootInv
<1>1. /\ UNCHANGED <<geom, drive, pc, disk, step, al, input, expects, reply, kbdOn, port, stale>>
      /\ \/ kbdOn /\ keys' = keys + 1 /\ keys < MaxKeys
            /\ \E b \in Bits : output' = [is |-> "key", bits |-> b]
         \/ pc \notin {"a20", "stage2", "resetting"} /\ keys' = keys /\ output' = Empty
  BY DEF SendKey, BiosTakesKey, Byte8042
<1>2. /\ output' \in [is : {"none", "key", "port"}, bits : Bits]
      /\ output'.is \in {"none", "key"}
  BY <1>1 DEF Empty, Bits
<1>3. keys' \in 0 .. MaxKeys
  BY <1>1 DEF TypeOK, BootAssumption
<1>4. TypeOK'
  BY <1>1, <1>2, <1>3, DiskStands DEF TypeOK
<1>5. HandshakeOK'
  BY <1>1 DEF HandshakeOK, Loading
<1>6. pc \notin {"a20", "stage2", "resetting"} => step = 1
  BY DEF TypeOK, HandshakeOK, Loading
<1>7. CleanOK'
  BY <1>1, <1>2, <1>6 DEF CleanOK, HandshakeOK
<1>8. QED
  BY <1>1, <1>4, <1>5, <1>7, DiskStands

-----------------------------------------------------------------------------
(* The theorems. *)

\* The invariant of the boot sector.
THEOREM BootInvariant ==
  Spec => []BootInv
<1>1. Init => BootInv
  BY InitBoot, BootAssumption
<1>2. BootInv /\ [Next]_vars => BootInv'
  <2> SUFFICES ASSUME BootInv, [Next]_vars
               PROVE  BootInv'
    OBVIOUS
  <2>1. CASE UNCHANGED vars
    BY <2>1 DEF vars, disk, kbc, BootInv, TypeOK, DiskOK, RetryAfterReset, HandshakeOK, CleanOK
  <2>2. CASE Next
    BY <2>2, BootAssumption, LoadSteps, CommandSteps, DataSteps, AnswerSteps, EnterSteps,
       TakeCommandSteps, TakeDataSteps, ReplySteps, KeySteps
       DEF Next, Boot, EnableA20, Controller
  <2>3. QED
    BY <2>1, <2>2
<1>3. QED
  BY <1>1, <1>2, PTL DEF Spec

\* Every variable of the boot sector keeps to its type.
THEOREM BootTypeCorrect ==
  Spec => []TypeOK
<1>1. BootInv => TypeOK
  BY DEF BootInv
<1>2. QED
  BY <1>1, BootInvariant, PTL

\* boot_disk_read never tries a drive that was not reset after an error.
THEOREM RetriesAfterReset ==
  Spec => []RetryAfterReset
<1>1. BootInv => RetryAfterReset
  BY DEF BootInv, DiskOK
<1>2. QED
  BY <1>1, BootInvariant, PTL

\* EnableA20 returns only with the gate open.
THEOREM GateOpen ==
  Spec => []A20Open
<1>1. BootInv => A20Open
  <2> SUFFICES ASSUME BootInv, pc = "stage2"
               PROVE  port \div 2 = 1
    BY DEF A20Open
  <2>1. port = 2 \/ port = 3
    BY DEF BootInv, HandshakeOK
  <2>2. QED
    BY <2>1
<1>2. QED
  BY <1>1, BootInvariant, PTL

\* Without a scan code waiting at Disable, the handshake neither resets the machine nor
\* leaves an answer behind.
THEOREM CleanHandshake ==
  Spec => []HandshakeClean
<1>1. BootInv => HandshakeClean
  BY DEF BootInv, HandshakeOK, CleanOK, HandshakeClean
<1>2. QED
  BY <1>1, BootInvariant, PTL

-----------------------------------------------------------------------------
(* boot_disk_read as a block device. *)

\* Nothing is loaded before the first attempt.
FreshMemory == pc \in {"init", "main"} => loaded = Nothing

LEMMA KeepsFresh == FreshMemory /\ [Next]_vars => FreshMemory'
<1> SUFFICES ASSUME FreshMemory, [Next]_vars, pc' \in {"init", "main"}
             PROVE  loaded' = Nothing
  BY DEF FreshMemory
<1>1. CASE Start \/ Main \/ ReadSucceeds \/ ReadFails \/ ResetSucceeds \/ ResetFails \/ CheckResult
  BY <1>1 DEF FreshMemory, Start, Main, ReadSucceeds, ReadFails, ResetSucceeds, ResetFails,
              CheckResult, disk
<1>2. CASE EnableA20
  BY <1>2 DEF FreshMemory, EnableA20, WriteCommand, WriteData, Write, ReadAnswer, EnterStage2, disk
<1>3. CASE Controller \/ (\E b \in Bits : SendKey(b)) \/ BiosTakesKey
  BY <1>3 DEF FreshMemory, Controller, TakeCommand, TakeData, Answer, SendKey, BiosTakesKey, disk
<1>4. CASE UNCHANGED vars
  BY <1>4 DEF FreshMemory, vars, disk
<1>5. QED
  BY <1>1, <1>2, <1>3, <1>4 DEF Next, Boot

\* Sector 1 lies on the first track of every drive: the address boot_lba_to_chs computes
\* from the constants of the image is right whatever the drive's geometry.
LEMMA SectorOne ==
  ASSUME BootAssumption, geom \in Geometries
  PROVE  BiosLba(geom, boot_lba_to_chs(1)) = 1
<1>1. 1 \div bdb_sectors_per_track = 0 /\ 1 % bdb_sectors_per_track = 1
  BY DEF BootAssumption
<1>2. 0 \div bdb_heads = 0 /\ 0 % bdb_heads = 0
  BY DEF BootAssumption
<1>3. CylinderHigh(0) = 0
  BY DEF CylinderHigh, Byte
<1>4. boot_lba_to_chs(1) = [ch |-> 0, cl |-> 2, dh |-> 0]
  BY <1>1, <1>2, <1>3 DEF boot_lba_to_chs, Byte
<1>5. geom.heads \in Nat /\ geom.sectors \in Nat
  BY DEF BootAssumption
<1>6. (0 + 256 * (2 \div 64)) * geom.heads + 0 = 0
  BY <1>5
<1>7. BiosLba(geom, [ch |-> 0, cl |-> 2, dh |-> 0])
        = ((0 + 256 * (2 \div 64)) * geom.heads + 0) * geom.sectors + (2 % 64) - 1
  BY DEF BiosLba, Byte
<1>8. 0 * geom.sectors + (2 % 64) - 1 = 1
  BY <1>5
<1>9. QED
  BY <1>4, <1>6, <1>7, <1>8

\* The boot sector starts as a device that was not opened.
LEMMA InitDevice == Init => Device!Init
  BY DEF Init, Device!Init, Device!Pending, Device!Nothing, Nothing

\* Starting, asking and answering are the device's steps; attempts that fail and are made
\* again, and all that comes after the answer, cannot be seen.
LEMMA NextDevice ==
  ASSUME BootAssumption, BootInv, FreshMemory, [Next]_vars
  PROVE  Device!Next \/ UNCHANGED Device!vars
<1>1. CASE Start
  <2>1. Device!Open
    BY <1>1 DEF Start, disk, Device!Open
  <2>2. QED
    BY <2>1 DEF Device!Next
<1>2. CASE Main
  <2>1. Device!Request(1, StageSectors)
    BY <1>2 DEF Main, Device!Request, Device!Pending, Device!Nothing, Nothing, FreshMemory
  <2>2. QED
    BY <2>1 DEF Device!Next
<1>3. CASE ReadSucceeds
  <2>1. loaded' = Device!Sectors(1, StageSectors)
    BY <1>3, SectorOne DEF ReadSucceeds, Device!Sectors, BootInv, TypeOK
  <2>2. pc = "read" /\ pc' = "check" /\ ax' = 0
    BY <1>3 DEF ReadSucceeds
  <2>3. Device!Answer
    BY <2>1, <2>2 DEF Device!Answer
  <2>4. QED
    BY <2>3 DEF Device!Next
<1>4. CASE ReadFails
  BY <1>4 DEF ReadFails, Device!vars
<1>5. CASE ResetSucceeds \/ ResetFails
  <2>1. /\ pc = "reset" /\ UNCHANGED loaded
        /\ pc' = "read" \/ (pc' = "check" /\ ax' \in {1, 2})
    BY <1>5 DEF ResetSucceeds, ResetFails
  <2>2. CASE pc' = "read"
    BY <2>1, <2>2 DEF Device!vars
  <2>3. CASE pc' = "check"
    <3>1. Device!Answer
      BY <2>1, <2>3 DEF Device!Answer
    <3>2. QED
      BY <3>1 DEF Device!Next
  <2>4. QED
    BY <2>1, <2>2, <2>3
<1>6. CASE CheckResult
  BY <1>6 DEF CheckResult, disk, Device!vars
<1>7. CASE EnableA20
  <2>1. pc = "a20" /\ pc' \in {"a20", "stage2"} /\ UNCHANGED disk
    BY <1>7 DEF EnableA20, WriteCommand, WriteData, Write, ReadAnswer, EnterStage2, Now
  <2>2. QED
    BY <2>1 DEF disk, Device!vars
<1>8. CASE TakeData
  <2>1. pc \notin {"init", "main", "read", "reset"}
    BY <1>8 DEF TakeData, BootInv, HandshakeOK, Loading, Empty
  <2>2. pc' = pc \/ pc' = "resetting"
    BY <1>8 DEF TakeData
  <2>3. UNCHANGED disk
    BY <1>8 DEF TakeData
  <2>4. QED
    BY <2>1, <2>2, <2>3 DEF disk, Device!vars
<1>9. CASE TakeCommand \/ Answer \/ (\E b \in Bits : SendKey(b)) \/ BiosTakesKey \/ UNCHANGED vars
  <2>1. UNCHANGED <<pc, disk>>
    BY <1>9 DEF TakeCommand, Answer, SendKey, BiosTakesKey, vars
  <2>2. QED
    BY <2>1 DEF disk, Device!vars
<1>10. QED
  BY <1>1, <1>2, <1>3, <1>4, <1>5, <1>6, <1>7, <1>8, <1>9 DEF Next, Boot, Controller

\* Whatever the BIOS fails, boot_disk_read is a block device that serves one request: the
\* boot sector looks at its result only with the sectors of stage 2 in memory or an error.
THEOREM ImplementsBlockDevice == Spec => Device!Spec
<1>1. Init => FreshMemory
  BY DEF Init, FreshMemory
<1>2. BootInv /\ FreshMemory /\ [Next]_vars => [Device!Next]_(Device!vars)
  BY NextDevice, BootAssumption
<1>3. QED
  BY <1>1, <1>2, KeepsFresh, InitDevice, BootInvariant, PTL DEF Spec, Device!Spec
=============================================================================
