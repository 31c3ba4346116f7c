---------------------------- MODULE Stage2Proofs ----------------------------
(***************************************************************************)
(* The loader: what MemDetect stores of the memory map, and what the load  *)
(* of the kernel leaves in memory, for every volume, kernel size, sector   *)
(* size and number of failed reads.                                        *)
(***************************************************************************)
EXTENDS Stage2, FatDriverProofs

-----------------------------------------------------------------------------
(* MemDetect. *)

\* Between two calls of the BIOS: what the block, the continuation and the list have
\* to do with each other.
Progress ==
  /\ detecting = "first" => bios = NotAsked /\ block = 0 /\ continuation = 0 /\ memRegions = <<>>
  /\ detecting \in {"loop", "next", "overrun"} => bios \in Bioses
  /\ bios = NotAsked => memRegions = <<>>
  /\ continuation \in {0, block}
  /\ continuation # 0 => continuation < bios.blocks \/ bios.end = "carry"

\* The block at hand follows the last one stored, or a call failed and it is the last one.
Following ==
  /\ detecting = "next" => /\ memRegions # <<>> /\ continuation # 0
                           /\ memRegions[Len(memRegions)] = block
  /\ detecting = "loop" =>
       IF memRegions = <<>> THEN block \in {0, 1}
       ELSE block = memRegions[Len(memRegions)] + 1
              \/ (Failing /\ block = memRegions[Len(memRegions)])

\* Without failures blocks are stored as they are counted, and a continuation of 0 is
\* that of the last one.
Counting ==
  ~Failing =>
    /\ detecting = "loop" => /\ block = Len(memRegions) + 1
                             /\ e820 > 0
                             /\ continuation = 0 => block = bios.blocks
    /\ detecting = "next" => block = Len(memRegions)

DetectInv ==
  DetectTypeOK /\ Progress /\ Following /\ Counting /\ InOrder /\ OverrunOnlyIf /\ AllButLast

\* Values of the local ret.
Answers == {n \in Nat : n <= 2147483647}

LEMMA DetectStarts ==
  ASSUME MemDetectAssumption, DetectInit
  PROVE  DetectInv
<1>1. NotAsked.blocks = 0 /\ NotAsked.end = "zero" /\ NotAsked.fails = FALSE
  BY DEF NotAsked
<1>2. DetectTypeOK
  <2>1. memRegions \in Seq(1 .. bios.blocks) /\ Len(memRegions) = 0
    BY DEF DetectInit
  <2>2. 0 \in 0 .. MAX_E820_REGIONS /\ 0 <= MAX_E820_REGIONS
    BY DEF MemDetectAssumption
  <2>3. e820 \in Answers
    BY SMT DEF DetectInit, Answers
  <2>4. bios \in Bioses \cup {NotAsked} /\ block \in 0 .. bios.blocks /\ continuation \in 0 .. bios.blocks
        /\ detecting = "first" /\ RegionCount = 0
    BY <1>1 DEF DetectInit
  <2>5. QED
    BY <2>1, <2>2, <2>3, <2>4, SMT DEF DetectTypeOK, Answers
<1>3. Progress /\ Following /\ Counting
  BY DEF DetectInit, Progress, Following, Counting
<1>4. InOrder /\ OverrunOnlyIf /\ AllButLast
  BY DEF DetectInit, InOrder, OverrunOnlyIf, AllButLast
<1>5. QED
  BY <1>2, <1>3, <1>4 DEF DetectInv

\* What a call of the BIOS returns: 16 bits of CR0 and 16 of the answer.
LEMMA ReturnedRange ==
  ASSUME MemDetectAssumption, NEW b \in Bioses
  PROVE  /\ Returned(b, Error) \in Answers
         /\ \A size \in BlockSizes : Returned(b, size) \in Answers /\ Returned(b, size) > 0
<1>1. PICK c \in Nat : c = b.cr0 /\ c < 2 ^ 15
  BY DEF MemDetectAssumption, Bioses
<1>2. Returned(b, Error) \in Answers
  BY <1>1, SMT DEF Returned, Error, Answers
<1>3. ASSUME NEW size \in BlockSizes
      PROVE  Returned(b, size) \in Answers /\ Returned(b, size) > 0
  <2>1. PICK v \in 1 .. 24 : v = size
    BY DEF MemDetectAssumption
  <2>2. QED
    BY <1>1, <2>1, SMT DEF Returned, Answers
<1>4. QED
  BY <1>2, <1>3

\* A call that answers gives the next block; one that fails changes nothing.
LEMMA BlockOutcome ==
  ASSUME MemDetectAssumption, NEW b \in Bioses, E820NextBlock(b),
         continuation \in 0 .. b.blocks
  PROVE  /\ e820' \in Answers
         /\ \/ /\ b.fails \/ continuation + 1 > b.blocks
               /\ UNCHANGED <<block, continuation>>
            \/ /\ e820' > 0
               /\ continuation + 1 <= b.blocks /\ block' = continuation + 1
               /\ continuation' = IF continuation + 1 = b.blocks /\ b.end = "zero"
                                  THEN 0 ELSE continuation + 1
<1>1. PICK n \in 1 .. MaxBlocks, c \in 0 .. b.blocks : n = b.blocks /\ c = continuation
  BY DEF Bioses
<1>2. PICK k \in Nat : k = c + 1
  BY <1>1 DEF MemDetectAssumption
<1>3. n \in Nat
  BY DEF MemDetectAssumption
<1>4. CASE CallFails(b)
  <2>1. /\ b.fails \/ k > b.blocks
        /\ e820' = Returned(b, Error) /\ UNCHANGED <<block, continuation>>
    BY <1>1, <1>2, <1>4 DEF CallFails
  <2>2. QED
    BY <1>1, <1>2, <2>1, ReturnedRange
<1>5. CASE ~CallFails(b)
  <2>1. /\ k <= b.blocks
        /\ \E size \in BlockSizes : e820' = Returned(b, size)
        /\ block' = k
        /\ continuation' = IF k = b.blocks /\ b.end = "zero" THEN 0 ELSE k
    BY <1>1, <1>2, <1>5 DEF E820NextBlock
  <2>2. QED
    BY <1>1, <1>2, <2>1, ReturnedRange
<1>6. QED
  BY <1>4, <1>5

\* The parts of the invariant that speak of finished and overrun lists only.
LEMMA ListUnchanged ==
  ASSUME InOrder, UNCHANGED <<bios, memRegions>>
  PROVE  InOrder'
BY DEF InOrder, Failing

LEMMA FirstBlockKeeps ==
  ASSUME MemDetectAssumption, DetectInv, FirstBlock
  PROVE  DetectInv'
<1>1. /\ detecting = "first" /\ detecting' = "loop" /\ memRegions' = memRegions
      /\ RegionCount' = RegionCount
  BY DEF FirstBlock
<1>2. DetectTypeOK /\ block = 0 /\ continuation = 0 /\ memRegions = <<>> /\ RegionCount = 0
  BY <1>1 DEF DetectInv, Progress, DetectTypeOK
<1>3. PICK b \in Bioses : b = bios' /\ E820NextBlock(b)
  BY DEF FirstBlock
<1>4. PICK n \in Nat \ {0} : n = b.blocks /\ b.fails \in BOOLEAN /\ b.end \in {"zero", "carry"}
  BY DEF Bioses, MemDetectAssumption
<1>5. /\ e820' \in Answers
      /\ \/ b.fails /\ block' = 0 /\ continuation' = 0
         \/ /\ e820' > 0 /\ block' = 1
            /\ continuation' = IF 1 = n /\ b.end = "zero" THEN 0 ELSE 1
  <2>1. continuation \in 0 .. b.blocks
    BY <1>2, <1>4
  <2>2. /\ e820' \in Answers
        /\ \/ /\ b.fails \/ continuation + 1 > b.blocks
              /\ UNCHANGED <<block, continuation>>
           \/ /\ e820' > 0
              /\ continuation + 1 <= b.blocks /\ block' = continuation + 1
              /\ continuation' = IF continuation + 1 = b.blocks /\ b.end = "zero"
                                 THEN 0 ELSE continuation + 1
    BY <1>3, <2>1, BlockOutcome
  <2>3. ~(1 > n) /\ continuation + 1 = 1
    BY <1>2, <1>4
  <2>4. QED
    BY <1>2, <1>4, <2>2, <2>3
<1>6. e820' \in Nat /\ e820' <= 2147483647
  BY <1>5, SMT DEF Answers
<1>7. bios' # NotAsked
  BY <1>3, <1>4 DEF NotAsked
<1>8. block' \in 0 .. n /\ continuation' \in 0 .. n
  BY <1>4, <1>5
<1>9. <<>> \in Seq(1 .. n) /\ Len(<<>>) = 0
  OBVIOUS
<1>10. DetectTypeOK'
  BY <1>1, <1>2, <1>3, <1>4, <1>6, <1>7, <1>8, <1>9, SMT DEF DetectTypeOK
<1>11. Progress'
  BY <1>1, <1>2, <1>3, <1>4, <1>5, <1>7 DEF Progress
<1>12. Following'
  BY <1>1, <1>2, <1>5 DEF Following
<1>13. Failing' <=> b.end = "carry" \/ b.fails
  BY <1>3, <1>4 DEF Failing
<1>14. Counting'
  BY <1>1, <1>2, <1>3, <1>4, <1>5, <1>9, <1>13 DEF Counting
<1>15. InOrder' /\ OverrunOnlyIf' /\ AllButLast'
  BY <1>1, <1>2 DEF InOrder, OverrunOnlyIf, AllButLast
<1>16. QED
  BY <1>10, <1>11, <1>12, <1>14, <1>15 DEF DetectInv

LEMMA NextBlockKeeps ==
  ASSUME MemDetectAssumption, DetectInv, NextBlock
  PROVE  DetectInv'
<1>1. /\ detecting = "next" /\ detecting' = "loop" /\ memRegions' = memRegions
      /\ RegionCount' = RegionCount /\ bios' = bios
  BY DEF NextBlock
<1>2. DetectTypeOK /\ Progress /\ Following /\ Counting /\ InOrder
  BY DEF DetectInv
<1>3. PICK b \in Bioses : b = bios /\ E820NextBlock(b)
  BY <1>1, <1>2 DEF NextBlock, Progress
<1>4. PICK n \in Nat \ {0} : n = b.blocks /\ b.fails \in BOOLEAN /\ b.end \in {"zero", "carry"}
  BY DEF Bioses, MemDetectAssumption
<1>5. PICK k \in 1 .. n : k = continuation /\ k = block /\ (k < n \/ b.end = "carry")
  BY <1>1, <1>2, <1>3, <1>4 DEF Progress, Following, DetectTypeOK
<1>6. PICK j \in Nat : j = k + 1
  OBVIOUS
<1>7. /\ e820' \in Answers
      /\ \/ /\ b.fails \/ j > n
            /\ block' = k /\ continuation' = k
         \/ /\ e820' > 0 /\ j <= n /\ block' = j
            /\ continuation' = IF j = n /\ b.end = "zero" THEN 0 ELSE j
  <2>1. continuation \in 0 .. b.blocks
    BY <1>4, <1>5
  <2>2. /\ e820' \in Answers
        /\ \/ /\ b.fails \/ continuation + 1 > b.blocks
              /\ UNCHANGED <<block, continuation>>
           \/ /\ e820' > 0
              /\ continuation + 1 <= b.blocks /\ block' = continuation + 1
              /\ continuation' = IF continuation + 1 = b.blocks /\ b.end = "zero"
                                 THEN 0 ELSE continuation + 1
    BY <1>3, <2>1, BlockOutcome
  <2>3. continuation + 1 = j
    BY <1>5, <1>6
  <2>4. QED
    BY <1>4, <1>5, <2>2, <2>3
<1>8. e820' \in Nat /\ e820' <= 2147483647
  BY <1>7, SMT DEF Answers
<1>9. bios # NotAsked
  BY <1>3, <1>4 DEF NotAsked
<1>10. block' \in 0 .. n /\ continuation' \in 0 .. n
  BY <1>4, <1>5, <1>6, <1>7
<1>11. DetectTypeOK'
  BY <1>1, <1>2, <1>3, <1>4, <1>8, <1>9, <1>10, SMT DEF DetectTypeOK
<1>12. Progress'
  BY <1>1, <1>2, <1>3, <1>4, <1>5, <1>6, <1>7, <1>9 DEF Progress
<1>13. Failing <=> b.end = "carry" \/ b.fails
  BY <1>3, <1>4 DEF Failing
<1>14. ~Failing => j <= n /\ ~b.fails
  BY <1>4, <1>5, <1>6, <1>13
<1>15. Failing' <=> Failing
  BY <1>1 DEF Failing
<1>16. b.fails \/ j > n => Failing
  BY <1>4, <1>5, <1>6, <1>13
<1>17. memRegions # <<>> /\ memRegions[Len(memRegions)] = k
  BY <1>1, <1>2, <1>5 DEF Following
<1>18. Following'
  <2>1. block' = memRegions'[Len(memRegions')] + 1 \/ (Failing' /\ block' = memRegions'[Len(memRegions')])
    BY <1>1, <1>6, <1>7, <1>15, <1>16, <1>17
  <2>2. QED
    BY <1>1, <1>17, <2>1 DEF Following
<1>19. Counting'
  <2>1. ~Failing => block' = Len(memRegions) + 1 /\ e820' > 0 /\ (continuation' = 0 => block' = n)
    BY <1>1, <1>2, <1>5, <1>6, <1>7, <1>14 DEF Counting
  <2>2. QED
    BY <1>1, <1>3, <1>4, <1>15, <2>1 DEF Counting
<1>20. OverrunOnlyIf' /\ AllButLast'
  BY <1>1 DEF OverrunOnlyIf, AllButLast
<1>21. QED
  BY <1>1, <1>2, <1>11, <1>12, <1>18, <1>19, <1>20, ListUnchanged DEF DetectInv

LEMMA StoreKeeps ==
  ASSUME MemDetectAssumption, DetectInv, Store
  PROVE  DetectInv'
<1>1. /\ detecting = "loop" /\ e820 > 0 /\ continuation # 0
      /\ UNCHANGED <<bios, block, continuation, e820, RegionCount>>
  BY DEF Store
<1>2. DetectTypeOK /\ Progress /\ Following /\ Counting /\ InOrder
  BY DEF DetectInv
<1>3. PICK b \in Bioses : b = bios
  BY <1>1, <1>2 DEF Progress
<1>4. PICK n \in Nat \ {0} : n = b.blocks
  BY DEF Bioses, MemDetectAssumption
<1>5. PICK k \in 1 .. n : k = continuation /\ k = block /\ (k < n \/ b.end = "carry")
  BY <1>1, <1>2, <1>3, <1>4 DEF Progress, DetectTypeOK
<1>6. PICK list \in Seq(1 .. n) : list = memRegions
  BY <1>2, <1>3, <1>4 DEF DetectTypeOK
<1>7. PICK l \in Nat : l = Len(list)
  BY LenProperties
<1>8. bios # NotAsked /\ RegionCount = 0
  BY <1>1, <1>2, <1>3, <1>4 DEF NotAsked, DetectTypeOK
<1>9. PICK max \in Nat \ {0} : max = MAX_E820_REGIONS
  BY DEF MemDetectAssumption
<1>10. l <= max
  BY <1>2, <1>6, <1>7, <1>9 DEF DetectTypeOK
<1>11. Failing' <=> Failing
  BY <1>1 DEF Failing
<1>12. e820 \in Nat /\ e820 <= 2147483647
  BY <1>2 DEF DetectTypeOK
<1>13. CASE l = max
  <2>1. detecting' = "overrun" /\ memRegions' = memRegions
    BY <1>6, <1>7, <1>9, <1>13 DEF Store
  <2>2. DetectTypeOK'
    BY <1>1, <1>2, <1>8, <2>1, SMT DEF DetectTypeOK
  <2>3. Progress' /\ Following' /\ Counting'
    BY <1>1, <1>2, <1>8, <2>1 DEF Progress, Following, Counting
  <2>4. ~Failing => n > max + 1
    <3>1. ~Failing => k = max + 1
      BY <1>1, <1>2, <1>5, <1>6, <1>7, <1>13 DEF Counting
    <3>2. ~Failing => k < n
      BY <1>3, <1>5 DEF Failing
    <3>3. QED
      BY <3>1, <3>2
  <2>5. OverrunOnlyIf' /\ AllButLast'
    BY <1>1, <1>3, <1>4, <1>9, <1>11, <2>1, <2>4 DEF OverrunOnlyIf, AllButLast
  <2>6. QED
    BY <1>1, <1>2, <2>1, <2>2, <2>3, <2>5, ListUnchanged DEF DetectInv
<1>14. CASE l # max
  <2>1. PICK list2 : list2 = Append(list, k)
    OBVIOUS
  <2>2. detecting' = "next" /\ memRegions' = list2
    BY <1>5, <1>6, <1>7, <1>9, <1>14, <2>1 DEF Store
  <2>3. /\ list2 \in Seq(1 .. n) /\ Len(list2) = l + 1
        /\ \A i \in 1 .. l : list2[i] = list[i]
        /\ list2[l + 1] = k
    BY <1>6, <1>7, <2>1
  <2>4. DetectTypeOK'
    <3>1. Len(memRegions') <= MAX_E820_REGIONS
      BY <1>7, <1>9, <1>10, <1>14, <2>2, <2>3
    <3>2. QED
      BY <1>1, <1>2, <1>3, <1>4, <1>8, <2>2, <2>3, <3>1, SMT DEF DetectTypeOK
  <2>5. Progress'
    BY <1>1, <1>2, <1>3, <1>8, <2>2 DEF Progress
  <2>6. list2 # <<>>
    BY <1>7, <2>3
  <2>7. Following'
    BY <1>1, <1>5, <2>2, <2>3, <2>6 DEF Following
  <2>8. Counting'
    BY <1>1, <1>2, <1>5, <1>6, <1>7, <1>11, <2>2, <2>3 DEF Counting
  <2>9. InOrder'
    <3>1. DOMAIN list = 1 .. l /\ DOMAIN list2 = 1 .. l + 1
      BY <1>6, <1>7, <2>3
    <3>2. ASSUME NEW i \in 1 .. l
          PROVE  /\ i = 1 => list2[i] = 1
                 /\ i > 1 => list2[i] = list2[i - 1] + 1 \/ (Failing /\ list2[i] = list2[i - 1])
      <4>1. /\ i = 1 => list[i] = 1
            /\ i > 1 => list[i] = list[i - 1] + 1 \/ (Failing /\ list[i] = list[i - 1])
        BY <1>2, <1>6, <3>1 DEF InOrder
      <4>2. i > 1 => i - 1 \in 1 .. l
        OBVIOUS
      <4>3. list2[i] = list[i] /\ (i > 1 => list2[i - 1] = list[i - 1])
        BY <2>3, <4>2
      <4>4. QED
        BY <4>1, <4>3
    <3>3. /\ l = 0 => k = 1
          /\ l > 0 => k = list2[l] + 1 \/ (Failing /\ k = list2[l])
      <4>1. list = <<>> => block \in {0, 1}
        BY <1>1, <1>2, <1>6 DEF Following
      <4>2. l = 0 => list = <<>>
        BY <1>6, <1>7, EmptySeq
      <4>3. l > 0 => list # <<>> /\ list2[l] = list[l]
        BY <1>7, <2>3
      <4>4. list # <<>> => block = list[l] + 1 \/ (Failing /\ block = list[l])
        BY <1>1, <1>2, <1>6, <1>7 DEF Following
      <4>5. QED
        BY <1>5, <4>1, <4>2, <4>3, <4>4
    <3>4. ASSUME NEW i \in 1 .. l + 1
          PROVE  /\ i = 1 => list2[i] = 1
                 /\ i > 1 => list2[i] = list2[i - 1] + 1 \/ (Failing /\ list2[i] = list2[i - 1])
      <4>1. CASE i = l + 1
        <5>1. i - 1 = l /\ (i = 1 => l = 0) /\ (i > 1 => l > 0)
          BY <4>1
        <5>2. QED
          BY <2>3, <3>3, <4>1, <5>1
      <4>2. CASE i # l + 1
        <5>1. i \in 1 .. l
          BY <4>2
        <5>2. QED
          BY <3>2, <5>1
      <4>3. QED
        BY <4>1, <4>2
    <3>5. QED
      BY <1>11, <2>2, <3>1, <3>4 DEF InOrder
  <2>10. OverrunOnlyIf' /\ AllButLast'
    BY <2>2 DEF OverrunOnlyIf, AllButLast
  <2>11. QED
    BY <2>4, <2>5, <2>7, <2>8, <2>9, <2>10 DEF DetectInv
<1>15. QED
  BY <1>13, <1>14

LEMMA FinishKeeps ==
  ASSUME MemDetectAssumption, DetectInv, Finish
  PROVE  DetectInv'
<1>1. /\ detecting = "loop" /\ ~(e820 > 0 /\ continuation # 0) /\ detecting' = "done"
      /\ RegionCount' = Len(memRegions)
      /\ UNCHANGED <<bios, block, continuation, e820, memRegions>>
  BY DEF Finish, frame
<1>2. DetectTypeOK /\ Progress /\ Following /\ Counting /\ InOrder
  BY DEF DetectInv
<1>3. PICK b \in Bioses : b = bios
  BY <1>1, <1>2 DEF Progress
<1>4. PICK n \in Nat \ {0} : n = b.blocks
  BY DEF Bioses, MemDetectAssumption
<1>5. PICK l \in 0 .. MAX_E820_REGIONS : l = Len(memRegions)
  <2>1. Len(memRegions) \in Nat
    BY <1>2, LenProperties DEF DetectTypeOK
  <2>2. Len(memRegions) <= MAX_E820_REGIONS
    BY <1>2 DEF DetectTypeOK
  <2>3. QED
    BY <2>1, <2>2 DEF MemDetectAssumption
<1>6. Failing' <=> Failing
  BY <1>1 DEF Failing
<1>7. DetectTypeOK'
  BY <1>1, <1>2, <1>5, SMT DEF DetectTypeOK
<1>8. Progress' /\ Following' /\ Counting'
  BY <1>1, <1>2 DEF Progress, Following, Counting
<1>9. ~Failing => l = n - 1
  <2>1. ~Failing => block = l + 1 /\ e820 > 0 /\ (continuation = 0 => block = n)
    BY <1>1, <1>2, <1>3, <1>4, <1>5 DEF Counting
  <2>2. l \in Nat
    BY DEF MemDetectAssumption
  <2>3. QED
    BY <1>1, <2>1, <2>2
<1>10. OverrunOnlyIf' /\ AllButLast'
  BY <1>1, <1>3, <1>4, <1>5, <1>6, <1>9 DEF OverrunOnlyIf, AllButLast
<1>11. QED
  BY <1>1, <1>2, <1>7, <1>8, <1>10, ListUnchanged DEF DetectInv

LEMMA FrameLostKeeps ==
  ASSUME MemDetectAssumption, DetectInv, detecting = "done", FrameLost,
         UNCHANGED <<detecting, RegionCount>>
  PROVE  DetectInv'
<1>1. /\ bios' = NotAsked /\ block' = 0 /\ continuation' = 0 /\ e820' = 0
      /\ memRegions' = <<>> /\ detecting' = "done" /\ RegionCount' = RegionCount
  BY DEF FrameLost
<1>2. RegionCount \in 0 .. MAX_E820_REGIONS
  BY DEF DetectInv, DetectTypeOK
<1>3. NotAsked.blocks = 0
  BY DEF NotAsked
<1>4. DetectTypeOK'
  <2>1. memRegions' \in Seq(1 .. bios'.blocks) /\ Len(memRegions') = 0
    BY <1>1
  <2>2. 0 \in 0 .. MAX_E820_REGIONS /\ 0 <= MAX_E820_REGIONS
    BY DEF MemDetectAssumption
  <2>3. e820' \in Nat /\ e820' <= 2147483647
    BY <1>1, SMT
  <2>4. QED
    BY <1>1, <1>2, <1>3, <2>1, <2>2, <2>3, SMT DEF DetectTypeOK
<1>5. Progress' /\ Following' /\ Counting'
  BY <1>1 DEF Progress, Following, Counting
<1>6. InOrder' /\ OverrunOnlyIf' /\ AllButLast'
  BY <1>1 DEF InOrder, OverrunOnlyIf, AllButLast
<1>7. QED
  BY <1>4, <1>5, <1>6 DEF DetectInv

LEMMA DetectKeeps ==
  ASSUME MemDetectAssumption, DetectInv, Detect
  PROVE  DetectInv'
BY FirstBlockKeeps, StoreKeeps, NextBlockKeeps, FinishKeeps DEF Detect

LEMMA DetectStays ==
  ASSUME DetectInv, UNCHANGED detector
  PROVE  DetectInv'
<1>1. UNCHANGED <<bios, block, continuation, e820, memRegions, detecting, RegionCount>>
  BY DEF detector, frame
<1>2. DetectTypeOK' /\ Progress' /\ Following' /\ Counting'
  BY <1>1, SMT DEF DetectInv, DetectTypeOK, Progress, Following, Counting, Failing
<1>3. InOrder' /\ OverrunOnlyIf' /\ AllButLast'
  BY <1>1 DEF DetectInv, InOrder, OverrunOnlyIf, AllButLast, Failing
<1>4. QED
  BY <1>2, <1>3 DEF DetectInv

-----------------------------------------------------------------------------
(* Bytes that differ from the file's. *)

Wrong(s, entry) == {k \in DOMAIN s : s[k] # FileByte(entry, k - 1)}

\* A buffer without its sector may still spoil what is left of the sector.
Owed(f, entry) == IF Right(f, entry) THEN 0 ELSE SECTOR_SIZE - (f.Position % SECTOR_SIZE)

\* Each failed read has spoilt, or may still spoil, one sector.
Damage(s, f, entry, failed) == Cardinality(Wrong(s, entry)) + Owed(f, entry) <= SECTOR_SIZE * failed

LEMMA WrongFinite ==
  ASSUME NEW entry, NEW S, NEW s \in Seq(S)
  PROVE  IsFiniteSet(Wrong(s, entry)) /\ Cardinality(Wrong(s, entry)) \in Nat
<1>1. PICK l \in Nat : l = Len(s)
  BY LenProperties
<1>2. Wrong(s, entry) \subseteq 1 .. l
  BY <1>1 DEF Wrong
<1>3. IsFiniteSet(1 .. l)
  BY FS_Interval
<1>4. QED
  BY <1>2, <1>3, FS_Subset, FS_CardinalityType

\* Behind s, right bytes add no wrong one, and any bytes at most their number.
LEMMA WrongGrows ==
  ASSUME NEW entry, NEW S, NEW s \in Seq(S), NEW t \in Seq(S)
  PROVE  /\ Joined(s, t) \in Seq(S) /\ Len(Joined(s, t)) = Len(s) + Len(t)
         /\ t = FileBytes(entry, Len(s), Len(t)) => Wrong(Joined(s, t), entry) = Wrong(s, entry)
         /\ Cardinality(Wrong(Joined(s, t), entry)) <= Cardinality(Wrong(s, entry)) + Len(t)
<1>1. PICK a \in Nat, b \in Nat : a = Len(s) /\ b = Len(t)
  BY LenProperties
<1>2. PICK u \in Seq(S) : /\ u = Joined(s, t) /\ Len(u) = a + b
                          /\ \A k \in 1 .. a : u[k] = s[k]
                          /\ \A k \in a + 1 .. a + b : u[k] = t[k - a]
  <2>1. s \o t \in Seq(S) /\ Len(s \o t) = a + b
    BY <1>1, ConcatProperties
  <2>2. ASSUME NEW k \in 1 .. a
        PROVE  (s \o t)[k] = s[k]
    <3>1. k \in 1 .. Len(s) + Len(t) /\ k <= Len(s)
      BY <1>1
    <3>2. QED
      BY <3>1, ConcatProperties
  <2>3. ASSUME NEW k \in a + 1 .. a + b
        PROVE  (s \o t)[k] = t[k - a]
    <3>1. k \in 1 .. Len(s) + Len(t) /\ k > Len(s) /\ k <= Len(s) + Len(t)
      BY <1>1
    <3>2. (s \o t)[k] = t[k - Len(s)]
      BY <3>1, ConcatProperties
    <3>3. QED
      BY <1>1, <3>2
  <2>4. QED
    BY <2>1, <2>2, <2>3 DEF Joined
<1>3. DOMAIN u = 1 .. a + b /\ DOMAIN s = 1 .. a /\ DOMAIN t = 1 .. b
  BY <1>1, <1>2
<1>4. ASSUME t = FileBytes(entry, a, b)
      PROVE  Wrong(u, entry) = Wrong(s, entry)
  <2>1. ASSUME NEW k \in a + 1 .. a + b
        PROVE  u[k] = FileByte(entry, k - 1)
    <3>1. k - a \in 1 .. b /\ a + (k - a) - 1 = k - 1
      OBVIOUS
    <3>2. t[k - a] = FileByte(entry, a + (k - a) - 1)
      BY <1>4, <3>1 DEF FileBytes
    <3>3. QED
      BY <1>2, <3>1, <3>2
  <2>2. \A k \in 1 .. a + b : k \in 1 .. a \/ k \in a + 1 .. a + b
    OBVIOUS
  <2>3. \A k \in 1 .. a : k \in 1 .. a + b
    OBVIOUS
  <2>4. QED
    BY <1>2, <1>3, <2>1, <2>2, <2>3 DEF Wrong
<1>5. Cardinality(Wrong(u, entry)) <= Cardinality(Wrong(s, entry)) + b
  <2>1. Wrong(u, entry) \subseteq Wrong(s, entry) \cup (a + 1 .. a + b)
    <3>1. \A k \in 1 .. a + b : k \in 1 .. a \/ k \in a + 1 .. a + b
      OBVIOUS
    <3>2. QED
      BY <1>2, <1>3, <3>1 DEF Wrong
  <2>2. IsFiniteSet(a + 1 .. a + b) /\ Cardinality(a + 1 .. a + b) = b
    <3>1. a + 1 \in Int /\ a + b \in Int
      OBVIOUS
    <3>2. /\ IsFiniteSet(a + 1 .. a + b)
          /\ Cardinality(a + 1 .. a + b) = IF a + 1 > a + b THEN 0 ELSE (a + b) - (a + 1) + 1
      BY <3>1, FS_Interval
    <3>3. QED
      BY <3>2
  <2>3. PICK W : W = Wrong(s, entry)
    OBVIOUS
  <2>4. PICK R : R = a + 1 .. a + b
    OBVIOUS
  <2>5. IsFiniteSet(W) /\ Cardinality(W) \in Nat
    BY <2>3, WrongFinite
  <2>6. IsFiniteSet(R) /\ Cardinality(R) = b
    BY <2>2, <2>4
  <2>7. /\ IsFiniteSet(W \cup R)
        /\ Cardinality(W \cup R) = Cardinality(W) + Cardinality(R) - Cardinality(W \cap R)
    BY <2>5, <2>6, FS_Union
  <2>8. Cardinality(W \cap R) \in Nat
    <3>1. IsFiniteSet(W \cap R)
      BY <2>5, FS_Subset
    <3>2. QED
      BY <3>1, FS_CardinalityType
  <2>9. Cardinality(Wrong(u, entry)) <= Cardinality(W \cup R)
    <3>1. Wrong(u, entry) \subseteq W \cup R
      BY <2>1, <2>3, <2>4
    <3>2. QED
      BY <2>7, <3>1, FS_Subset
  <2>10. Cardinality(Wrong(u, entry)) \in Nat
    BY WrongFinite
  <2>11. QED
    BY <2>3, <2>5, <2>6, <2>7, <2>8, <2>9, <2>10
<1>6. QED
  BY <1>1, <1>2, <1>4, <1>5

\* An iteration of FAT_Read spoils no more than the failed reads account for.
LEMMA DamageGrows ==
  ASSUME FatAssumption, NEW entry, NEW s \in Seq(Int \X Int), NEW f \in FileData,
         NEW g \in FileData, NEW n \in Nat \ {0}, NEW t \in Nat \ {0}, t = Take(f, n),
         g.Position = f.Position + t, Len(s) = f.Position, f.Position < entry.size,
         NEW failed \in Nat, NEW ok \in BOOLEAN, NEW failed2,
         failed2 = failed + (IF ok THEN 0 ELSE 1),
         Right(f, entry) /\ ok => Right(g, entry),
         g.Position % SECTOR_SIZE = 0 /\ ok => Right(g, entry),
         g.Position % SECTOR_SIZE # 0 => ok,
         Damage(s, f, entry, failed)
  PROVE  /\ Joined(s, Bytes(f, n)) \in Seq(Int \X Int)
         /\ Len(Joined(s, Bytes(f, n))) = g.Position
         /\ Damage(Joined(s, Bytes(f, n)), g, entry, failed2)
<1>1. PICK w \in Nat \ {0} : w = SECTOR_SIZE
  BY DEF FatAssumption
<1>2. PICK p \in Nat, p2 \in Nat : p = f.Position /\ p2 = g.Position /\ p2 = p + t
  BY DEF FileData
<1>3. PICK bytes \in Seq(Int \X Int) : bytes = Bytes(f, n) /\ Len(bytes) = t
  <2>1. f.Buffer \in Int
    BY DEF FileData
  <2>2. QED
    BY <1>2, <2>1, BytesTaken
<1>4. PICK u : /\ u = Joined(s, bytes) /\ u \in Seq(Int \X Int) /\ Len(u) = p2
               /\ bytes = FileBytes(entry, p, t) => Wrong(u, entry) = Wrong(s, entry)
               /\ Cardinality(Wrong(u, entry)) <= Cardinality(Wrong(s, entry)) + t
  <2>1. /\ Joined(s, bytes) \in Seq(Int \X Int) /\ Len(Joined(s, bytes)) = Len(s) + Len(bytes)
        /\ bytes = FileBytes(entry, Len(s), Len(bytes)) =>
             Wrong(Joined(s, bytes), entry) = Wrong(s, entry)
        /\ Cardinality(Wrong(Joined(s, bytes), entry)) <= Cardinality(Wrong(s, entry)) + Len(bytes)
    BY WrongGrows
  <2>2. QED
    BY <1>2, <1>3, <2>1
<1>5. PICK c \in Nat, c2 \in Nat : c = Cardinality(Wrong(s, entry)) /\ c2 = Cardinality(Wrong(u, entry))
  BY <1>4, WrongFinite
<1>6. PICK r \in 0 .. w - 1, r2 \in 0 .. w - 1 : r = p % w /\ r2 = p2 % w
  BY DivMod
<1>7. /\ t <= w - r
      /\ r2 = 0 => t = w - r
      /\ r2 # 0 => t < w - r
  BY <1>1, <1>2, <1>6, Taken
<1>8. r2 # 0 => r2 = r + t
  <2>1. SUFFICES ASSUME t < w - r
                 PROVE  p2 % w = r + t
    BY <1>6, <1>7
  <2>2. t < w - (p % w) /\ t \in Nat
    BY <1>6, <2>1
  <2>3. (p + t) % w = (p % w) + t
    BY <2>2, StepInBlock
  <2>4. QED
    BY <1>2, <1>6, <2>3
<1>9. PICK owed \in Nat : /\ owed = Owed(f, entry)
                          /\ Right(f, entry) => owed = 0
                          /\ ~Right(f, entry) => owed = w - r
  BY <1>1, <1>2, <1>6 DEF Owed
<1>10. PICK owed2 \in Nat : /\ owed2 = Owed(g, entry)
                            /\ Right(g, entry) => owed2 = 0
                            /\ owed2 <= w - r2
  <2>1. Owed(g, entry) = IF Right(g, entry) THEN 0 ELSE w - r2
    BY <1>1, <1>2, <1>6 DEF Owed
  <2>2. PICK v \in Nat : v = w - r2
    OBVIOUS
  <2>3. CASE Right(g, entry)
    BY <2>1, <2>2, <2>3
  <2>4. CASE ~Right(g, entry)
    BY <2>1, <2>2, <2>4
  <2>5. QED
    BY <2>3, <2>4
<1>11. PICK old \in Nat, new \in Nat : /\ old = w * failed /\ new = w * failed2
                                       /\ ok => new = old
                                       /\ ~ok => new = old + w
  <2>1. w * failed \in Nat /\ w * (failed + 1) = w * failed + w
    OBVIOUS
  <2>2. PICK old \in Nat : old = w * failed
    BY <2>1
  <2>3. CASE ok
    BY <2>2, <2>3
  <2>4. CASE ~ok
    <3>1. failed2 = failed + 1
      BY <2>4
    <3>2. QED
      BY <2>1, <2>2, <2>4, <3>1
  <2>5. QED
    BY <2>3, <2>4
<1>12. (ok => new = old) /\ (~ok => new = old + w)
  BY <1>11
<1>13. c + owed <= old
  BY <1>1, <1>5, <1>9, <1>11 DEF Damage
<1>14. CASE Right(f, entry)
  <2>1. c2 = c
    <3>1. bytes = FileBytes(entry, p, t)
      BY <1>2, <1>3, <1>14, BytesRight
    <3>2. QED
      BY <1>4, <1>5, <3>1
  <2>2. c2 + owed2 <= new
    <3>1. CASE ok
      BY <1>9, <1>10, <1>12, <1>13, <1>14, <2>1, <3>1
    <3>2. CASE ~ok
      BY <1>9, <1>10, <1>12, <1>13, <1>14, <2>1, <3>2
    <3>3. QED
      BY <3>1, <3>2
  <2>3. QED
    BY <1>1, <1>2, <1>3, <1>4, <1>5, <1>10, <1>11, <2>2 DEF Damage
<1>15. CASE ~Right(f, entry)
  <2>1. c2 <= c + t /\ c + (w - r) <= old
    BY <1>4, <1>5, <1>9, <1>13, <1>15
  <2>2. c2 + owed2 <= new
    <3>1. CASE r2 # 0
      <4>1. ok
        BY <1>1, <1>2, <1>6, <3>1
      <4>2. r2 = r + t
        BY <1>8, <3>1
      <4>3. owed2 <= w - (r + t)
        BY <1>10, <4>2
      <4>4. c2 + owed2 <= (c + t) + (w - (r + t))
        BY <2>1, <4>3, SMTT(30)
      <4>5. (c + t) + (w - (r + t)) = c + (w - r)
        OBVIOUS
      <4>6. QED
        BY <1>12, <2>1, <4>1, <4>4, <4>5
    <3>2. CASE r2 = 0 /\ ok
      <4>1. Right(g, entry)
        BY <1>1, <1>2, <1>6, <3>2
      <4>2. QED
        BY <1>7, <1>10, <1>12, <2>1, <3>2, <4>1
    <3>3. CASE r2 = 0 /\ ~ok
      BY <1>7, <1>10, <1>12, <2>1, <3>3
    <3>4. QED
      BY <3>1, <3>2, <3>3
  <2>3. QED
    BY <1>1, <1>2, <1>3, <1>4, <1>5, <1>10, <1>11, <2>2 DEF Damage
<1>16. QED
  BY <1>14, <1>15

-----------------------------------------------------------------------------
(* The progress bar. *)

\* n is q times w, and r.
Divided(n, w, q, r) == n = (w * q) + r

LEMMA Quotient ==
  ASSUME NEW w \in Nat \ {0}, NEW n \in Nat, NEW q \in Nat, NEW r \in 0 .. w - 1,
         Divided(n, w, q, r)
  PROVE  n \div w = q /\ n % w = r
<1>1. n = (w * q) + r
  BY DEF Divided
<1>2. QED
  BY <1>1, DivUnique

\* A file's last sector is its chain's last exactly when it fills its last cluster.
LEMMA ChainEnds ==
  ASSUME FatAssumption, VolumeAssumption, ImageAssumption, vol \in Volumes,
         NEW entry \in Listed(vol), ~entry.dir, NEW f \in FileData, Tracks(f, entry),
         f.Position < entry.size, NEW q \in Nat, q = f.Position \div SECTOR_SIZE,
         entry.size = SECTOR_SIZE * (q + 1),
         NEW moved \in FileData, moved.CurrentCluster = f.CurrentCluster,
         moved.CurrentSectorInCluster = f.CurrentSectorInCluster, NEW g, g = Advance(moved)
  PROVE  EndOfChain(g.CurrentCluster) <=>
           entry.size % (vol.sectorsPerCluster * SECTOR_SIZE) = 0
<1>1. PICK w \in Nat \ {0} : w = SECTOR_SIZE
  BY DEF FatAssumption
<1>2. PICK c \in Nat \ {0} : c = vol.sectorsPerCluster
  BY ChainFacts
<1>3. PICK chain \in Seq(Nat) : chain = Chain(entry)
  BY ChainFacts
<1>4. PICK size \in Nat : size = entry.size /\ size = w * (q + 1)
  BY <1>1, ChainFacts
<1>5. PICK l \in Nat : l = Len(chain)
  <2>1. Len(chain) \in Nat
    BY LenProperties
  <2>2. QED
    BY <2>1
<1>6. PICK cs \in Nat \ {0} : cs = c * w
  <2>1. c * w \in Nat \ {0}
    OBVIOUS
  <2>2. QED
    BY <2>1
<1>7. PICK p \in Nat : p = f.Position /\ p < size /\ q = p \div w
  BY <1>1, <1>4 DEF FileData
<1>8. PICK d \in Nat, r \in 0 .. c - 1 : d = q \div c /\ r = q % c /\ q = (c * d) + r
  <2>1. q \div c \in Nat /\ q % c \in 0 .. c - 1 /\ q = (c * (q \div c)) + (q % c)
    BY DivMod
  <2>2. QED
    BY <2>1
<1>9. d + 1 \in 1 .. l
  <2>1. p < l * c * w
    <3>1. size <= l * c * w
      BY <1>1, <1>2, <1>3, <1>4, <1>5, ChainFacts
    <3>2. l * c * w \in Nat
      OBVIOUS
    <3>3. QED
      BY <1>7, <3>1, <3>2
  <2>2. QED
    BY <1>7, <1>8, <2>1, InChain
<1>10. PICK k \in 1 .. l : k = d + 1
  BY <1>9
<1>11. moved.CurrentCluster = chain[k] /\ moved.CurrentSectorInCluster = r
  BY <1>1, <1>2, <1>3, <1>4, <1>7, <1>8, <1>10 DEF Tracks
<1>12. /\ ~EndOfChain(chain[k])
       /\ k = l => EndOfChain(FAT_NextCluster(vol.table, chain[k]))
  BY <1>3, <1>5, ChainFacts
<1>13. CASE r + 1 >= c
  <2>1. size = cs * k
    <3>1. q + 1 = c * k
      <4>1. r = c - 1
        BY <1>13
      <4>2. PICK cd \in Nat : cd = c * d
        OBVIOUS
      <4>3. c * k = cd + c
        <5>1. c * (d + 1) = c * d + c
          OBVIOUS
        <5>2. QED
          BY <1>10, <4>2, <5>1
      <4>4. q = cd + r
        BY <1>8, <4>2
      <4>5. PICK ck \in Nat : ck = c * k /\ ck = cd + c
        BY <4>3
      <4>6. q + 1 = ck
        BY <4>1, <4>4, <4>5
      <4>7. QED
        BY <4>5, <4>6
    <3>2. w * (c * k) = (c * w) * k
      OBVIOUS
    <3>3. QED
      BY <1>4, <1>6, <3>1, <3>2
  <2>2. size % cs = 0
    <3>1. PICK z \in 0 .. cs - 1 : z = 0
      OBVIOUS
    <3>2. k \in Nat /\ Divided(size, cs, k, z)
      BY <2>1, <3>1 DEF Divided
    <3>3. size \div cs = k /\ size % cs = z
      BY <3>2, Quotient
    <3>4. QED
      BY <3>1, <3>3
  <2>3. g.CurrentCluster = FAT_NextCluster(vol.table, chain[k])
    BY <1>2, <1>11, <1>13 DEF Advance, FileData
  <2>4. k = l
    <3>1. l * cs < size + cs
      BY <1>1, <1>2, <1>3, <1>4, <1>5, <1>6 DEF ImageAssumption, Chain
    <3>2. ~(l >= k + 1)
      <4>1. SUFFICES ASSUME l >= k + 1
                     PROVE  FALSE
        OBVIOUS
      <4>2. PICK e \in Nat : l = k + 1 + e
        BY <4>1
      <4>3. l * cs = (cs * k) + cs + (cs * e) /\ cs * e >= 0
        BY <4>2
      <4>4. QED
        BY <2>1, <3>1, <4>3
    <3>3. QED
      BY <3>2
  <2>5. QED
    BY <1>1, <1>2, <1>4, <1>6, <1>12, <2>2, <2>3, <2>4
<1>14. CASE r + 1 < c
  <2>1. g.CurrentCluster = chain[k]
    <3>1. ~(r + 1 >= c)
      BY <1>14
    <3>2. g = [moved EXCEPT !.CurrentSectorInCluster = @ + 1]
      BY <1>2, <1>11, <3>1 DEF Advance
    <3>3. QED
      BY <1>11, <3>2 DEF FileData
  <2>2. PICK b \in Nat : b = w * (r + 1) /\ b > 0 /\ b < cs
    <3>1. w * (r + 1) \in Nat /\ w * (r + 1) > 0
      OBVIOUS
    <3>2. PICK e \in Nat \ {0} : c = r + 1 + e
      BY <1>14
    <3>3. c * w = w * (r + 1) + w * e /\ w * e > 0
      BY <3>2
    <3>4. QED
      BY <1>6, <3>1, <3>3
  <2>3. size = (cs * d) + b
    <3>1. w * ((c * d) + r + 1) = ((c * w) * d) + w * (r + 1)
      OBVIOUS
    <3>2. q + 1 = (c * d) + r + 1
      BY <1>8
    <3>3. QED
      BY <1>4, <1>6, <2>2, <3>1, <3>2
  <2>4. size % cs = b
    <3>1. b \in 0 .. cs - 1
      BY <2>2
    <3>2. Divided(size, cs, d, b)
      BY <2>3 DEF Divided
    <3>3. size \div cs = d /\ size % cs = b
      BY <3>1, <3>2, Quotient
    <3>4. QED
      BY <3>3
  <2>5. QED
    BY <1>1, <1>2, <1>4, <1>6, <1>12, <2>1, <2>2, <2>4
<1>15. r + 1 >= c \/ r + 1 < c
  OBVIOUS
<1>16. QED
  BY <1>13, <1>14, <1>15

\* What is asked for last: a remainder of the file.
LEMMA TailLength ==
  ASSUME NEW l \in Nat \ {0}, NEW from \in Nat, from % l = 0, NEW size \in Nat, NEW r \in Nat,
         from < size, r = size - from, r <= l
  PROVE  ((size - 1) % l) + 1 = r
<1>1. PICK b \in Nat : b = from \div l
  BY DivMod
<1>2. from = l * b
  <2>1. from = (l * (from \div l)) + (from % l)
    BY DivMod
  <2>2. QED
    BY <1>1, <2>1
<1>3. PICK s \in Nat, z \in 0 .. l - 1 : s = size - 1 /\ z = r - 1
  OBVIOUS
<1>4. Divided(s, l, b, z)
  BY <1>2, <1>3 DEF Divided
<1>5. s % l = z
  BY <1>4, Quotient
<1>6. QED
  BY <1>3, <1>5

LEMMA MultipleOf ==
  ASSUME NEW w \in Nat \ {0}, NEW l \in Nat \ {0}, l % w = 0, NEW n \in Nat, n % l = 0
  PROVE  n % w = 0
<1>1. PICK a \in Nat : a = l \div w /\ l = w * a
  <2>1. l \div w \in Nat /\ l = (w * (l \div w)) + (l % w)
    BY DivMod
  <2>2. QED
    BY <2>1
<1>2. PICK b \in Nat : b = n \div l /\ n = l * b
  <2>1. n \div l \in Nat /\ n = (l * (n \div l)) + (n % l)
    BY DivMod
  <2>2. QED
    BY <2>1
<1>3. PICK ab \in Nat : ab = a * b
  OBVIOUS
<1>4. n = w * ab
  <2>1. (w * a) * b = w * (a * b)
    OBVIOUS
  <2>2. QED
    BY <1>1, <1>2, <1>3, <2>1
<1>5. PICK z \in 0 .. w - 1 : z = 0
  OBVIOUS
<1>6. Divided(n, w, ab, z)
  BY <1>4, <1>5 DEF Divided
<1>7. n % w = z
  BY <1>6, Quotient
<1>8. QED
  BY <1>5, <1>7

\* Offsets in a sector are counted from the beginning of any sector.
LEMMA FromSector ==
  ASSUME NEW w \in Nat \ {0}, NEW from \in Nat, from % w = 0, NEW d \in Nat, NEW p \in Nat,
         p = from + d
  PROVE  /\ d < w => p % w = d
         /\ p % w = d % w
<1>1. PICK a \in Nat : a = from \div w /\ from = w * a
  <2>1. from \div w \in Nat /\ from = (w * (from \div w)) + (from % w)
    BY DivMod
  <2>2. QED
    BY <2>1
<1>2. PICK b \in Nat, r \in 0 .. w - 1 : b = d \div w /\ r = d % w /\ d = w * b + r
  <2>1. d \div w \in Nat /\ d % w \in 0 .. w - 1 /\ d = (w * (d \div w)) + (d % w)
    BY DivMod
  <2>2. QED
    BY <2>1
<1>3. PICK ab \in Nat : ab = a + b
  OBVIOUS
<1>4. Divided(p, w, ab, r)
  <2>1. PICK wa \in Nat, wb \in Nat : wa = w * a /\ wb = w * b
    OBVIOUS
  <2>2. w * (a + b) = wa + wb
    BY <2>1
  <2>3. p = (wa + wb) + r
    BY <1>1, <1>2, <2>1
  <2>4. QED
    BY <1>3, <2>2, <2>3 DEF Divided
<1>5. p % w = r
  BY <1>4, Quotient
<1>6. d < w => d = r
  <2>1. ASSUME d < w
        PROVE  d = r
    <3>1. PICK z \in Nat : z = 0
      OBVIOUS
    <3>2. Divided(d, w, z, d) /\ d \in 0 .. w - 1
      BY <2>1, <3>1 DEF Divided
    <3>3. d % w = d
      BY <3>2, Quotient
    <3>4. QED
      BY <1>2, <3>3
  <2>2. QED
    BY <2>1
<1>7. QED
  BY <1>2, <1>5, <1>6

\* A call for r bytes, those of a load buffer or what the file has left, that has delivered
\* done of them with the divisor at m, and delivers t more.
Moving(w, l, from, size, r, done, n, t, p, p2, m) ==
  /\ from % l = 0 /\ from < size
  /\ r = IF l < size - from THEN l ELSE size - from
  /\ n + done = r /\ p = from + done /\ p2 = p + t
  /\ p2 % w = 0 => t = w - (p % w)
  /\ p2 % w # 0 => t < w - (p % w)
  /\ done < w => m = 0
  /\ done >= w => m # 0 /\ r >= 2 * w

\* The divisor of the progress bar: 0 in the first sector, then never, unless what the call
\* asks for ends in its second sector.
Moved(w, size, from, r, done, n, t, p2, m) ==
  /\ p2 % w # 0 => /\ done + t < w => m = 0
                   /\ done + t >= w => m # 0 /\ r >= 2 * w
  /\ p2 % w = 0 => /\ done + t >= w
                   /\ n = t => r = w \/ r >= 2 * w
                   /\ m = 0 /\ (n - t) \div w # 0 => r >= 2 * w
                   /\ m # 0 => r >= 2 * w
                   /\ m = 0 /\ (n - t) \div w = 0 => /\ w <= r /\ r < 2 * w
                                                     /\ n = t => r = w
                                                     /\ n # t => r # w
  /\ r < 2 * w => r = size - from
  /\ p2 = size => n = t /\ r = size - from

LEMMA BarMoves ==
  ASSUME NEW w \in Nat \ {0}, NEW l \in Nat, l % w = 0, l >= 2 * w,
         NEW from \in Nat, NEW size \in Nat, NEW r \in Nat, NEW done \in Nat,
         NEW n \in Nat \ {0}, NEW t \in 1 .. n, NEW p \in Nat, NEW p2 \in Nat, NEW m \in Nat,
         Moving(w, l, from, size, r, done, n, t, p, p2, m)
  PROVE  Moved(w, size, from, r, done, n, t, p2, m)
<1>0. /\ from % l = 0 /\ from < size
      /\ r = IF l < size - from THEN l ELSE size - from
      /\ n + done = r /\ p = from + done /\ p2 = p + t
      /\ p2 % w = 0 => t = w - (p % w)
      /\ p2 % w # 0 => t < w - (p % w)
      /\ done < w => m = 0
      /\ done >= w => m # 0 /\ r >= 2 * w
  BY DEF Moving
<1>1. l \in Nat \ {0} /\ from % l = 0
  BY <1>0
<1>2. from % w = 0
  BY <1>1, MultipleOf
<1>3. done < w => p % w = done
  BY <1>0, <1>2, FromSector
<1>4. PICK u \in Nat : u = n - t
  OBVIOUS
<1>5. /\ u \div w = 0 => u < w
      /\ u \div w # 0 => u >= w
  <2>1. PICK q \in Nat, z \in 0 .. w - 1 : q = u \div w /\ u = (w * q) + z
    <3>1. u \div w \in Nat /\ u % w \in 0 .. w - 1 /\ u = (w * (u \div w)) + (u % w)
      BY DivMod
    <3>2. QED
      BY <3>1
  <2>2. CASE q = 0
    BY <2>1, <2>2
  <2>3. CASE q # 0
    <3>1. PICK e \in Nat : q = e + 1
      BY <2>3
    <3>2. PICK we \in Nat : we = w * e
      OBVIOUS
    <3>3. w * (e + 1) = we + w
      BY <3>2
    <3>4. u >= w
      BY <2>1, <3>1, <3>3
    <3>5. QED
      BY <2>1, <2>3, <3>4
  <2>4. QED
    BY <2>2, <2>3
<1>6. PICK x \in Nat : x = p % w
  BY DivMod
<1>7. PICK x2 \in Nat : x2 = p2 % w
  BY DivMod
<1>8. PICK d \in Nat : d = u \div w
  BY DivMod
<1>9. /\ x2 = 0 => t = w - x
      /\ x2 # 0 => t < w - x
      /\ done < w => x = done
      /\ d = 0 => u < w
      /\ d # 0 => u >= w
  BY <1>0, <1>3, <1>5, <1>6, <1>7, <1>8
<1>10. /\ x2 # 0 => /\ done + t < w => m = 0
                    /\ done + t >= w => m # 0 /\ r >= 2 * w
       /\ x2 = 0 => /\ done + t >= w
                    /\ n = t => r = w \/ r >= 2 * w
                    /\ m = 0 /\ d # 0 => r >= 2 * w
                    /\ m # 0 => r >= 2 * w
                    /\ m = 0 /\ d = 0 => /\ w <= r /\ r < 2 * w
                                         /\ n = t => r = w
                                         /\ n # t => r # w
  <2>1. CASE done < w
    BY <1>0, <1>4, <1>9, <2>1
  <2>2. CASE done >= w
    BY <1>0, <1>4, <1>9, <2>2
  <2>3. QED
    BY <2>1, <2>2
<1>11. /\ r < 2 * w => r = size - from
       /\ p2 = size => n = t /\ r = size - from
  BY <1>0
<1>12. QED
  BY <1>4, <1>7, <1>8, <1>10, <1>11 DEF Moved

\* An iteration of FAT_Read whose disk read does not fail.
LEMMA BarOutcome ==
  ASSUME FatAssumption, VolumeAssumption, ImageAssumption, DriverOK, ReadLoop,
         failures' = failures, NEW t, t = Take(fd[io.h], io.n),
         NEW p2, p2 = fd[io.h].Position + t
  PROVE  LET full == p2 = io.entry.size
                       /\ io.entry.size % (vol.sectorsPerCluster * SECTOR_SIZE) = 0
         IN  /\ p2 % SECTOR_SIZE # 0 => op' = "read" /\ io'.maxSector = io.maxSector
             /\ p2 % SECTOR_SIZE = 0 /\ full => op' = "idle"
             /\ p2 % SECTOR_SIZE = 0 /\ ~full =>
                  /\ io'.maxSector = IF io.maxSector = 0 THEN (io.n - t) \div SECTOR_SIZE
                                     ELSE io.maxSector
                  /\ op' = IF io'.maxSector = 0 THEN "fault" ELSE "read"
<1>1. DriverTypes /\ RootOK /\ op = "read" /\ Reading /\ io.n > 0
  BY DEF DriverOK, InCall, ReadLoop
<1>2. PICK tr \in Transfers : tr = io
  BY <1>1 DEF Reading
<1>3. PICK h \in Handles, e \in Listed(vol), from \in Nat, want \in Nat, n \in Nat, m \in Nat,
           out \in Seq(Int \X Int), clean \in BOOLEAN :
        /\ h = io.h /\ e = io.entry /\ from = io.from /\ want = io.want /\ n = io.n
        /\ m = io.maxSector /\ out = io.out /\ clean = io.clean
  BY <1>2 DEF Transfers
<1>4. PICK f \in FileData : f = fd[h]
  BY <1>1 DEF DriverTypes
<1>5. PICK p \in Nat : p = f.Position
  BY DEF FileData
<1>6. PICK size \in Nat : size = e.size
  BY <1>1, ChainFacts DEF DriverTypes
<1>7. t = Take(f, n) /\ t \in 1 .. n
  BY <1>1, <1>3, <1>4, <1>5, Taken
<1>8. PICK u \in Nat : u = n - t
  BY <1>7
<1>9. n <= size - p
  <2>1. PICK done \in Nat : done = Len(out)
    BY LenProperties
  <2>2. from + done = p /\ n + done = Wanted(io)
    BY <1>1, <1>3, <1>4, <1>5, <2>1 DEF Reading
  <2>3. Wanted(io) = IF want < size - from THEN want ELSE size - from
    BY <1>3, <1>6 DEF Wanted
  <2>4. QED
    BY <2>2, <2>3
<1>10. PICK it \in Iterate(h, n, m) :
         /\ io' = [io EXCEPT !.n = @ - Take(f, @),
                             !.out = @ \o Bytes(f, n),
                             !.maxSector = it.max,
                             !.clean = @ /\ it.ok]
         /\ op' = CASE it.status = "more" -> "read"
                    [] it.status = "break" -> "idle"
                    [] it.status = "fault" -> "fault"
         /\ Counted(it.ok)
  BY <1>3, <1>4 DEF ReadLoop
<1>11. io'.maxSector = it.max
  BY <1>2, <1>10 DEF Transfers
<1>12. PICK w \in Nat \ {0} : w = SECTOR_SIZE
  BY DEF FatAssumption
<1>13. PICK moved : moved = [f EXCEPT !.Position = @ + Take(f, n)]
  OBVIOUS
<1>14. PICK q2 \in Nat : q2 = p2 /\ q2 = p + t
  BY <1>3, <1>4, <1>5, <1>7
<1>15. /\ moved \in FileData /\ moved.Position = q2
       /\ moved.CurrentCluster = f.CurrentCluster
       /\ moved.CurrentSectorInCluster = f.CurrentSectorInCluster
  BY <1>5, <1>7, <1>13, <1>14 DEF FileData
<1>16. h # Root
  BY DEF Handles, Root
<1>17. CASE q2 % w # 0
  <2>1. it = [f |-> moved, max |-> m, status |-> "more", ok |-> TRUE]
    BY <1>4, <1>12, <1>13, <1>15, <1>17 DEF Iterate
  <2>2. op' = "read" /\ io'.maxSector = io.maxSector
    BY <1>3, <1>10, <1>11, <2>1
  <2>3. QED
    BY <1>12, <1>14, <1>17, <2>2
<1>18. q2 % w = 0 => q2 = p + (w - (p % w))
  <2>1. n \in Nat \ {0} /\ f.Position \in Nat
    BY <1>1, <1>3, <1>5
  <2>2. (f.Position + Take(f, n)) % SECTOR_SIZE = 0 =>
          Take(f, n) = SECTOR_SIZE - (f.Position % SECTOR_SIZE)
    BY <2>1, Taken
  <2>3. q2 % w = 0 => t = w - (p % w)
    BY <1>5, <1>7, <1>12, <1>14, <2>2
  <2>4. QED
    BY <1>14, <2>3
<1>19. CASE q2 % w = 0
  <2>1. it \in NextFileSector(moved, u, m)
    BY <1>4, <1>7, <1>8, <1>12, <1>13, <1>15, <1>16, <1>19 DEF Iterate
  <2>2. PICK g : g = Advance(moved)
    OBVIOUS
  <2>3. PICK max : max = IF m = 0 THEN u \div w ELSE m
    OBVIOUS
  <2>4. it.ok
    <3>1. failures \in Nat
      BY <1>1 DEF DriverTypes, FatAssumption
    <3>2. QED
      BY <1>10, <3>1 DEF Counted
  <2>5. /\ EndOfChain(g.CurrentCluster) => it.status = "break"
        /\ ~EndOfChain(g.CurrentCluster) => it.max = max
                                           /\ it.status = IF max = 0 THEN "fault" ELSE "more"
    <3>1. CASE EndOfChain(g.CurrentCluster)
      BY <2>1, <2>2, <3>1 DEF NextFileSector
    <3>2. CASE ~EndOfChain(g.CurrentCluster)
      <4>1. PICK r :
              it = [f |-> [g EXCEPT !.Buffer = r.buf], max |-> max, ok |-> r.ok,
                    status |-> IF ~r.ok THEN "break" ELSE IF max = 0 THEN "fault" ELSE "more"]
        BY <1>12, <2>1, <2>2, <2>3, <3>2 DEF NextFileSector
      <4>2. it.ok = r.ok
        BY <4>1
      <4>3. QED
        BY <2>4, <3>2, <4>1, <4>2
    <3>3. QED
      BY <3>1, <3>2
  <2>6. Tracks(f, e) /\ p < size
    BY <1>1, <1>3, <1>4, <1>7, <1>9 DEF Reading
  <2>7. EndOfChain(g.CurrentCluster) => q2 = size
    <3>1. q2 = p + (w - (p % w))
      BY <1>18, <1>19
    <3>2. moved.Position = SectorEnd(f.Position)
      BY <1>5, <1>12, <1>15, <3>1 DEF SectorEnd
    <3>3. moved.Position <= e.size
      BY <1>6, <1>7, <1>9, <1>14, <1>15
    <3>4. moved.IsDirectory = f.IsDirectory /\ moved.Size = f.Size
      BY <1>13 DEF FileData
    <3>5. EndOfChain(g.CurrentCluster) => moved.Position = e.size
      BY <1>1, <1>15, <2>2, <2>6, <3>2, <3>3, <3>4, AdvanceTracks DEF DriverTypes
    <3>6. QED
      BY <1>6, <1>15, <3>5
  <2>8. q2 = size => (EndOfChain(g.CurrentCluster)
                        <=> size % (vol.sectorsPerCluster * SECTOR_SIZE) = 0)
    <3>1. SUFFICES ASSUME q2 = size
                   PROVE  EndOfChain(g.CurrentCluster)
                            <=> size % (vol.sectorsPerCluster * SECTOR_SIZE) = 0
      OBVIOUS
    <3>2. PICK q \in Nat : q = p \div w
      BY DivMod
    <3>3. q2 = w * (q + 1)
      <4>1. q2 = p + (w - (p % w))
        BY <1>18, <1>19
      <4>2. PICK r \in 0 .. w - 1 : r = p % w /\ p = (w * q) + r
        <5>1. p % w \in 0 .. w - 1 /\ p = (w * (p \div w)) + (p % w)
          BY DivMod
        <5>2. QED
          BY <3>2, <5>1
      <4>3. PICK wq \in Nat : wq = w * q
        OBVIOUS
      <4>4. w * (q + 1) = wq + w
        BY <4>3
      <4>5. QED
        BY <4>1, <4>2, <4>3, <4>4
    <3>4. ~e.dir
      BY <1>1, <1>3 DEF Reading
    <3>5. e.size = SECTOR_SIZE * (q + 1) /\ q = f.Position \div SECTOR_SIZE
      BY <1>5, <1>6, <1>12, <3>1, <3>2, <3>3
    <3>6. f.Position < e.size /\ vol \in Volumes
      BY <1>1, <1>5, <1>6, <2>6 DEF DriverTypes
    <3>7. EndOfChain(g.CurrentCluster)
            <=> e.size % (vol.sectorsPerCluster * SECTOR_SIZE) = 0
      BY <1>15, <2>2, <2>6, <3>4, <3>5, <3>6, ChainEnds
    <3>8. QED
      BY <1>6, <3>7
  <2>9. CASE EndOfChain(g.CurrentCluster)
    <3>1. op' = "idle" /\ q2 = size /\ size % (vol.sectorsPerCluster * SECTOR_SIZE) = 0
      BY <1>10, <2>5, <2>7, <2>8, <2>9
    <3>2. QED
      BY <1>3, <1>6, <1>12, <1>14, <1>19, <3>1
  <2>10. CASE ~EndOfChain(g.CurrentCluster)
    <3>1. ~(q2 = size /\ size % (vol.sectorsPerCluster * SECTOR_SIZE) = 0)
      BY <2>8, <2>10
    <3>2. io'.maxSector = max /\ it.status = IF max = 0 THEN "fault" ELSE "more"
      BY <1>11, <2>5, <2>10
    <3>3. op' = IF max = 0 THEN "fault" ELSE "read"
      BY <1>10, <3>2
    <3>4. max = IF io.maxSector = 0 THEN (io.n - t) \div SECTOR_SIZE ELSE io.maxSector
      BY <1>3, <1>8, <1>12, <2>3
    <3>5. QED
      BY <1>3, <1>6, <1>12, <1>14, <1>19, <3>1, <3>2, <3>3, <3>4
  <2>11. QED
    BY <2>9, <2>10
<1>20. QED
  BY <1>17, <1>19

-----------------------------------------------------------------------------
(* cmain. *)

\* Where the driver is, and what has been done, at each place of cmain.
Places ==
  /\ pc \in {"disk", "fat", "memory", "open", "opening", "load", "chunk", "close", "halt", "kernel"}
  /\ kernelfd \in Handles \cup {NULL}
  /\ pc = "disk" => op = "off"
  /\ pc = "fat" => op \in {"off", "table", "root"}
  /\ pc \in {"memory", "open", "load", "close", "kernel"} => op = "idle"
  /\ pc = "opening" => op \in {"find", "entry"}
  /\ pc = "chunk" => op \in {"read", "fault", "wild"}
  /\ pc = "halt" => op \in {"off", "failed"}
  /\ pc \in {"chunk", "close", "kernel"} /\ op # "wild" => kernelfd # NULL
  /\ pc = "open" => detecting = "done"
  /\ pc = "load" /\ kernelfd = NULL => ~io.clean
  /\ mem \in Seq(Int \X Int)
  /\ pc \in {"disk", "fat", "memory", "open", "opening"} => mem = <<>>

\* The search for the kernel stays in the root directory.
Seeking ==
  pc = "opening" =>
    /\ path = Kernel /\ ~io.clean
    /\ op = "find" => current = Root /\ fatName \in KernelNames
    /\ op = "entry" => ~target.dir

\* The open handle is the kernel's.
AtKernel ==
  pc \in {"load", "chunk", "close"} /\ kernelfd # NULL =>
    /\ kernelEntry \in Listed(vol)
    /\ ~kernelEntry.dir
    /\ Tracks(fd[kernelfd], kernelEntry)
    /\ kernelfd \notin tainted => Right(fd[kernelfd], kernelEntry)

\* Without failures a call begins at a load buffer's boundary, or behind the file's last byte.
Aligned(from, entry) ==
  /\ from % MEMORY_LOAD_SIZE = 0 \/ from = entry.size
  /\ from = entry.size => ~ShortTail(entry)

\* Between two calls of FAT_Read: memory holds what was read, the damage in it bounded by
\* the failures so far, those included whose damage is still to come.
Between ==
  pc \in {"load", "close"} /\ kernelfd # NULL =>
    /\ Len(mem) = fd[kernelfd].Position
    /\ Damage(mem, fd[kernelfd], kernelEntry, failures)
    /\ failures = 0 => Aligned(Len(mem), kernelEntry)
    /\ pc = "close" => Len(mem) = kernelEntry.size

\* The divisor is set behind the first sector, in a call that ends no sooner than with
\* its second.
BarOK ==
  /\ Len(io.out) < SECTOR_SIZE => io.maxSector = 0
  /\ Len(io.out) >= SECTOR_SIZE => io.maxSector # 0 /\ Wanted(io) >= 2 * SECTOR_SIZE

\* In a call of FAT_Read for the kernel.
InChunk ==
  pc = "chunk" =>
    /\ op = "read" =>
         /\ io.h = kernelfd /\ io.entry = kernelEntry /\ io.want = MEMORY_LOAD_SIZE
         /\ Len(mem) = io.from
         /\ Damage(Joined(mem, io.out), fd[kernelfd], kernelEntry, failures)
         /\ failures = 0 => Aligned(io.from, kernelEntry) /\ BarOK
    /\ op = "fault" /\ failures = 0 => ShortTail(kernelEntry)

\* FAT_Read has returned nothing more.
Loaded ==
  pc = "kernel" =>
    /\ Len(mem) = kernelEntry.size
    /\ Cardinality(Wrong(mem, kernelEntry)) <= SECTOR_SIZE * failures
    /\ failures = 0 => ~ShortTail(kernelEntry)

LoaderInv ==
  DriverOK /\ DetectInv /\ Places /\ Seeking /\ AtKernel /\ Between /\ InChunk /\ Loaded

\* Nor does what is defined by the volume.
LEMMA DamageKept ==
  ASSUME vol' = vol
  PROVE  /\ \A s, e : Wrong(s, e)' = Wrong(s, e)
         /\ \A s, f, e, n : Damage(s, f, e, n)' <=> Damage(s, f, e, n)
         /\ \A e : ShortTail(e)' <=> ShortTail(e)
         /\ \A n, e : Aligned(n, e)' <=> Aligned(n, e)
BY DEF Damage, Owed, Wrong, Right, FileByte, FirstDataLba, DataStart, ShortTail, Aligned

LEMMA LoaderStarts ==
  ASSUME Init
  PROVE  LoaderInv
<1>1. DriverOK
  BY FatAssumption, InitiallyOK DEF Init
<1>2. DetectInv
  BY MemDetectAssumption, DetectStarts DEF Init
<1>3. op = "off" /\ pc = "disk" /\ kernelfd = NULL /\ mem = <<>>
  BY DEF Init, DriverInit
<1>4. <<>> \in Seq(Int \X Int)
  OBVIOUS
<1>5. Places
  BY <1>3, <1>4 DEF Places
<1>6. Seeking /\ AtKernel /\ Between /\ InChunk /\ Loaded
  BY <1>3 DEF Seeking, AtKernel, Between, InChunk, Loaded
<1>7. QED
  BY <1>1, <1>2, <1>5, <1>6 DEF LoaderInv

\* Before the kernel is opened only the driver and MemDetect have anything to keep.
LEMMA EarlySteps ==
  ASSUME LoaderInv, pc \in {"disk", "fat", "memory"},
         pc' \in {"fat", "memory", "open", "halt"},
         UNCHANGED <<kernelfd, kernelEntry, mem>>,
         pc' = "fat" => op' \in {"off", "table", "root"},
         pc' \in {"memory", "open"} => op' = "idle",
         pc' = "halt" => op' \in {"off", "failed"},
         pc' = "open" => detecting' = "done",
         DriverOK', DetectInv'
  PROVE  LoaderInv'
<1>1. Places'
  BY DEF LoaderInv, Places
<1>2. Seeking' /\ AtKernel' /\ Between' /\ InChunk' /\ Loaded'
  BY DEF Seeking, AtKernel, Between, InChunk, Loaded
<1>3. QED
  BY <1>1, <1>2 DEF LoaderInv

LEMMA OpenDiskKeeps ==
  ASSUME LoaderInv, OpenDisk
  PROVE  LoaderInv'
<1>1. /\ pc = "disk" /\ pc' \in {"fat", "halt"} /\ UNCHANGED <<kernelfd, kernelEntry, mem>>
      /\ UNCHANGED driver /\ UNCHANGED detector
  BY DEF OpenDisk
<1>2. DriverOK' /\ DetectInv'
  BY <1>1, DriverStays, DetectStays DEF LoaderInv
<1>3. op' = "off"
  BY <1>1 DEF LoaderInv, Places, driver
<1>4. QED
  BY <1>1, <1>2, <1>3, EarlySteps

LEMMA OpenVolumeKeeps ==
  ASSUME LoaderInv, OpenVolume
  PROVE  LoaderInv'
<1>1. /\ pc = "fat" /\ FAT_Initialize /\ UNCHANGED <<kernelfd, kernelEntry, mem>>
      /\ UNCHANGED detector
      /\ pc' = CASE op' = "failed" -> "halt" [] op' = "idle" -> "memory" [] OTHER -> "fat"
  BY DEF OpenVolume
<1>2. DriverOK' /\ op' \in {"table", "root", "idle", "failed"}
  BY <1>1, FatAssumption, VolumeAssumption, InitializeKeeps DEF LoaderInv
<1>3. DetectInv'
  BY <1>1, DetectStays DEF LoaderInv
<1>4. /\ op' = "failed" => pc' = "halt"
      /\ op' = "idle" => pc' = "memory"
      /\ op' \in {"table", "root"} => pc' = "fat"
  BY <1>1
<1>5. QED
  BY <1>1, <1>2, <1>3, <1>4, EarlySteps

LEMMA DetectMemoryKeeps ==
  ASSUME LoaderInv, DetectMemory
  PROVE  LoaderInv'
<1>1. /\ pc = "memory" /\ Detect /\ UNCHANGED <<kernelfd, kernelEntry, mem>>
      /\ UNCHANGED driver
      /\ pc' = IF detecting' = "done" THEN "open" ELSE "memory"
  BY DEF DetectMemory
<1>2. DriverOK' /\ DetectInv'
  BY <1>1, DriverStays, DetectKeeps, MemDetectAssumption DEF LoaderInv
<1>3. op' = "idle"
  BY <1>1 DEF LoaderInv, Places, driver
<1>4. QED
  BY <1>1, <1>2, <1>3, EarlySteps

LEMMA CallOpenKeeps ==
  ASSUME LoaderInv, CallOpen
  PROVE  LoaderInv'
<1>1. /\ pc = "open" /\ pc' = "opening" /\ FAT_Open(Kernel) /\ FrameLost
      /\ UNCHANGED <<kernelfd, kernelEntry, mem, detecting, RegionCount>>
  BY DEF CallOpen
<1>2. DriverOK /\ DetectInv /\ Places
  BY DEF LoaderInv
<1>3. Kernel \in Seq(Seq(STRING)) /\ Kernel # <<>> /\ Len(Kernel) = 1
  <2>1. Kernel \in Seq(Seq(STRING)) /\ Len(Kernel) = 1
    BY Stage2Assumption DEF Stage2Assumption
  <2>2. Len(<<>>) = 0
    OBVIOUS
  <2>3. QED
    BY <2>1, <2>2
<1>4. DriverOK'
  BY <1>1, <1>2, <1>3, FatAssumption, NameAssumption, OpenKeeps
<1>5. DetectInv'
  BY <1>1, <1>2, MemDetectAssumption, FrameLostKeeps DEF Places
<1>6. /\ op' = "find" /\ current' = Root /\ path' = Kernel /\ io' = NoRead
      /\ NextName(NoName, Kernel[1], Len(Kernel) = 1)
  BY <1>1 DEF FAT_Open
<1>7. fatName' \in KernelNames
  BY <1>6 DEF NextName, KernelNames
<1>8. ~io'.clean
  BY <1>6 DEF NoRead
<1>9. Places'
  BY <1>1, <1>2, <1>6 DEF Places
<1>10. Seeking'
  BY <1>6, <1>7, <1>8 DEF Seeking
<1>11. AtKernel' /\ Between' /\ InChunk' /\ Loaded'
  BY <1>1 DEF AtKernel, Between, InChunk, Loaded
<1>12. QED
  BY <1>4, <1>5, <1>9, <1>10, <1>11 DEF LoaderInv

LEMMA SearchKeeps ==
  ASSUME LoaderInv, Opening, FAT_FindFile
  PROVE  LoaderInv'
<1>1. /\ pc = "opening" /\ UNCHANGED mem /\ UNCHANGED detector
      /\ op' = "idle" => pc' = "load" /\ kernelfd' = ret' /\ kernelEntry' = target'
      /\ op' # "idle" => UNCHANGED <<pc, kernelfd, kernelEntry>>
  BY DEF Opening
<1>2. DriverOK /\ DetectInv /\ Places /\ Seeking /\ op = "find"
  BY DEF LoaderInv, FAT_FindFile
<1>3. DriverOK' /\ DetectInv'
  BY <1>1, <1>2, FatAssumption, VolumeAssumption, FindKeeps, DetectStays
<1>4. /\ path = Kernel /\ current = Root /\ fatName \in KernelNames /\ ~io.clean
      /\ UNCHANGED <<vol, path, current, io>>
  BY <1>1, <1>2 DEF Seeking, FAT_FindFile
<1>5. PICK f \in FileData :
           /\ f.Opened = fd[current].Opened
           /\ current = Root => f.IsDirectory = TRUE /\ (f.Size = 0 \/ f.Position <= f.Size)
           /\ current = Root => f.Size = fd[Root].Size /\ f.FirstCluster = fd[Root].FirstCluster
           /\ current # Root => TracksDir(f, target)
           /\ \/ /\ op' \in {"idle", "entry"}
                 /\ fd' = [fd EXCEPT ![current] = AfterClose(current, f)]
                 /\ op' = "entry" => /\ target' \in Listed(vol) /\ target'.name = fatName
                                     /\ Len(path) = 1 \/ target'.dir
                 /\ op' = "idle" => ret' = NULL
                 /\ ret' \in {ret, NULL}
              \/ /\ op' = "find"
                 /\ fd' = [fd EXCEPT ![current] = f]
                 /\ UNCHANGED <<target, ret, names>>
              \/ /\ op' = "fault" /\ current # Root
                 /\ UNCHANGED <<fd, ret>>
           /\ failures' \in 0 .. MaxFailures
           /\ tainted' \in {tainted, tainted \cup {current}}
  BY <1>2, FatAssumption, VolumeAssumption, FindOutcome
<1>6. /\ op' \in {"idle", "entry", "find"}
      /\ op' = "entry" => target' \in Listed(vol) /\ target'.name = fatName
      /\ op' = "idle" => ret' = NULL
      /\ op' = "find" => fatName' = fatName
  BY <1>4, <1>5 DEF names
<1>7. op' = "entry" => ~target'.dir
  <2>1. vol \in Volumes
    BY <1>2 DEF DriverOK, DriverTypes
  <2>2. ASSUME NEW e \in Listed(vol), e.name = fatName
        PROVE  ~e.dir
    BY <1>4, <2>1, <2>2, ImageAssumption DEF ImageAssumption
  <2>3. QED
    BY <1>6, <2>2
<1>8. CASE op' = "idle"
  <2>1. pc' = "load" /\ kernelfd' = NULL /\ mem' = mem
    BY <1>1, <1>6, <1>8
  <2>2. Places'
    BY <1>1, <1>2, <1>4, <1>8, <2>1 DEF Places
  <2>3. Seeking' /\ AtKernel' /\ Between' /\ InChunk' /\ Loaded'
    BY <2>1 DEF Seeking, AtKernel, Between, InChunk, Loaded
  <2>4. QED
    BY <1>3, <2>2, <2>3 DEF LoaderInv
<1>9. CASE op' \in {"entry", "find"}
  <2>1. pc' = "opening" /\ kernelfd' = kernelfd /\ mem' = mem
    BY <1>1, <1>9
  <2>2. Places'
    BY <1>1, <1>2, <1>9, <2>1 DEF Places
  <2>3. Seeking'
    BY <1>4, <1>6, <1>7 DEF Seeking
  <2>4. AtKernel' /\ Between' /\ InChunk' /\ Loaded'
    BY <2>1 DEF AtKernel, Between, InChunk, Loaded
  <2>5. QED
    BY <1>3, <2>2, <2>3, <2>4 DEF LoaderInv
<1>10. QED
  BY <1>6, <1>8, <1>9

\* Where a file has just been opened nothing is wrong yet.
LEMMA Untouched ==
  ASSUME FatAssumption, Stage2Assumption, NEW f, NEW entry, Right(f, entry), NEW n \in Nat
  PROVE  Damage(<<>>, f, entry, n) /\ Aligned(0, entry)
<1>1. PICK w \in Nat \ {0}, l \in Nat \ {0} : w = SECTOR_SIZE /\ l = MEMORY_LOAD_SIZE
  BY DEF FatAssumption, Stage2Assumption
<1>2. Wrong(<<>>, entry) = {}
  BY DEF Wrong
<1>3. Cardinality(Wrong(<<>>, entry)) = 0
  BY <1>2, FS_EmptySet
<1>4. w * n \in Nat
  OBVIOUS
<1>5. Damage(<<>>, f, entry, n)
  BY <1>1, <1>3, <1>4 DEF Damage, Owed
<1>6. PICK z \in 0 .. l - 1 : z = 0
  OBVIOUS
<1>7. z % l = z
  <2>1. Divided(z, l, z, z) /\ z \in Nat
    BY <1>6 DEF Divided
  <2>2. QED
    BY <2>1, Quotient
<1>8. 0 = entry.size => ~ShortTail(entry)
  BY DEF ShortTail
<1>9. QED
  BY <1>1, <1>5, <1>6, <1>7, <1>8 DEF Aligned

LEMMA OpenedKeeps ==
  ASSUME LoaderInv, Opening, FAT_OpenEntry
  PROVE  LoaderInv'
<1>1. /\ pc = "opening" /\ UNCHANGED mem /\ UNCHANGED detector
      /\ op' = "idle" => pc' = "load" /\ kernelfd' = ret' /\ kernelEntry' = target'
  BY DEF Opening
<1>2. DriverOK /\ DetectInv /\ Places /\ Seeking /\ op = "entry"
  BY DEF LoaderInv, FAT_OpenEntry
<1>3. DriverOK' /\ DetectInv'
  BY <1>1, <1>2, FatAssumption, VolumeAssumption, NameAssumption, EntryKeeps, DetectStays
<1>4. /\ path = Kernel /\ ~target.dir /\ ~io.clean /\ target \in Listed(vol) /\ mem = <<>>
      /\ UNCHANGED <<vol, target, io>>
  BY <1>1, <1>2 DEF Seeking, FAT_OpenEntry, DriverOK, InCall, Found, Places
<1>5. Len(path) = 1
  BY <1>4, Stage2Assumption DEF Stage2Assumption
<1>6. ASSUME NEW h, OpenReturns(h)
      PROVE  /\ op' = "idle" /\ pc' = "load" /\ kernelfd' = h /\ kernelEntry' = target
             /\ mem' = <<>>
  BY <1>1, <1>4, <1>5, <1>6 DEF OpenReturns
<1>7. CASE OpenReturns(NULL)
  <2>1. /\ op' = "idle" /\ pc' = "load" /\ kernelfd' = NULL
        /\ mem' = <<>>
    BY <1>6, <1>7
  <2>2. Places'
    BY <1>1, <1>2, <1>4, <2>1 DEF Places
  <2>3. Seeking' /\ AtKernel' /\ Between' /\ InChunk' /\ Loaded'
    BY <2>1 DEF Seeking, AtKernel, Between, InChunk, Loaded
  <2>4. QED
    BY <1>3, <2>2, <2>3 DEF LoaderInv
<1>8. ASSUME NEW h \in Handles, NEW f \in FileData, fd' = [fd EXCEPT ![h] = f],
             f.Position = 0, tainted' = tainted \ {h}, OpenReturns(h),
             Tracks(f, target), Right(f, target)
      PROVE  LoaderInv'
  <2>1. /\ op' = "idle" /\ pc' = "load" /\ kernelfd' = h /\ kernelEntry' = target
        /\ mem' = <<>>
    BY <1>6, <1>8
  <2>2. fd'[h] = f
    BY <1>2, <1>8 DEF DriverOK, DriverTypes
  <2>3. failures' \in Nat
    BY <1>3, FatAssumption DEF DriverOK, DriverTypes, FatAssumption
  <2>4. Damage(<<>>, f, target, failures') /\ Aligned(0, target)
    BY <1>8, <2>3, FatAssumption, Stage2Assumption, Untouched
  <2>5. Places'
    BY <1>1, <1>2, <1>4, <2>1 DEF Places
  <2>6. AtKernel'
    <3>1. Tracks(fd'[kernelfd'], kernelEntry') /\ Right(fd'[kernelfd'], kernelEntry')
      BY <1>8, <2>1, <2>2
    <3>2. Tracks(fd[kernelfd], kernelEntry)' /\ Right(fd[kernelfd], kernelEntry)'
      BY <1>4, <3>1, VolumeKept
    <3>3. kernelEntry' \in Listed(vol') /\ ~kernelEntry'.dir
      BY <1>4, <2>1
    <3>4. QED
      BY <3>2, <3>3 DEF AtKernel
  <2>7. Between'
    <3>1. Len(mem') = fd'[kernelfd'].Position /\ Len(mem') = 0
      BY <1>8, <2>1, <2>2
    <3>2. /\ Damage(mem', fd'[kernelfd'], kernelEntry', failures')
          /\ Aligned(Len(mem'), kernelEntry')
      BY <2>1, <2>2, <2>4, <3>1
    <3>3. Damage(mem, fd[kernelfd], kernelEntry, failures)' /\ Aligned(Len(mem), kernelEntry)'
      BY <1>4, <3>2, DamageKept
    <3>4. QED
      BY <2>1, <3>1, <3>3 DEF Between
  <2>8. Seeking' /\ InChunk' /\ Loaded'
    BY <2>1 DEF Seeking, InChunk, Loaded
  <2>9. QED
    BY <1>3, <2>5, <2>6, <2>7, <2>8 DEF LoaderInv
<1>9. QED
  BY <1>2, <1>4, <1>7, <1>8, FatAssumption, VolumeAssumption, EntryOutcome

LEMMA CallReadKeeps ==
  ASSUME LoaderInv, CallRead
  PROVE  LoaderInv'
<1>1. /\ pc = "load" /\ pc' = "chunk" /\ kernelfd # NULL
      /\ FAT_Read(kernelfd, kernelEntry, MEMORY_LOAD_SIZE)
      /\ UNCHANGED <<kernelfd, kernelEntry, mem>> /\ UNCHANGED detector
  BY DEF CallRead
<1>2. DriverOK /\ DetectInv /\ Places /\ AtKernel /\ Between
  BY DEF LoaderInv
<1>3. PICK h \in Handles, e \in Listed(vol) : h = kernelfd /\ e = kernelEntry
  BY <1>1, <1>2 DEF Places, AtKernel
<1>4. ~e.dir /\ Tracks(fd[h], e) /\ (h \notin tainted => Right(fd[h], e))
  BY <1>1, <1>2, <1>3 DEF AtKernel
<1>5. FAT_Read(h, e, MEMORY_LOAD_SIZE) /\ MEMORY_LOAD_SIZE \in Nat
  BY <1>1, <1>3, Stage2Assumption DEF Stage2Assumption
<1>6. DriverOK'
  BY <1>2, <1>4, <1>5, FatAssumption, VolumeAssumption, ReadKeeps
<1>7. DetectInv'
  BY <1>1, <1>2, DetectStays
<1>8. /\ op' = "read" /\ io'.h = h /\ io'.entry = e /\ io'.from = fd[h].Position
      /\ io'.want = MEMORY_LOAD_SIZE /\ io'.maxSector = 0 /\ io'.out = <<>>
      /\ UNCHANGED <<vol, fd, failures, tainted>>
  BY <1>5 DEF FAT_Read
<1>9. Places'
  BY <1>1, <1>2, <1>8 DEF Places
<1>10. AtKernel'
  <2>1. Tracks(fd[kernelfd], kernelEntry)' /\ (h \notin tainted => Right(fd[kernelfd], kernelEntry)')
    <3>1. Tracks(fd'[kernelfd'], kernelEntry')
          /\ (h \notin tainted => Right(fd'[kernelfd'], kernelEntry'))
      BY <1>1, <1>3, <1>4, <1>8
    <3>2. QED
      BY <1>8, <3>1, VolumeKept
  <2>2. QED
    BY <1>1, <1>3, <1>4, <1>8, <2>1 DEF AtKernel
<1>11. Seeking' /\ Between' /\ Loaded'
  BY <1>1 DEF Seeking, Between, Loaded
<1>12. InChunk'
  <2>1. /\ Len(mem) = fd[h].Position
        /\ Damage(mem, fd[h], e, failures)
        /\ failures = 0 => Aligned(Len(mem), e)
    BY <1>1, <1>2, <1>3 DEF Between
  <2>2. Joined(mem, <<>>) = mem
    BY <1>2, ConcatEmptySeq DEF Joined, Places
  <2>3. /\ Damage(Joined(mem, io.out), fd[kernelfd], kernelEntry, failures)'
        /\ failures' = 0 => Aligned(io.from, kernelEntry)'
    <3>1. /\ Damage(Joined(mem', io'.out), fd'[kernelfd'], kernelEntry', failures')
          /\ failures' = 0 => Aligned(io'.from, kernelEntry')
      BY <1>1, <1>3, <1>8, <2>1, <2>2
    <3>2. Joined(mem, io.out)' = Joined(mem', io'.out)
      BY DEF Joined
    <3>3. QED
      BY <1>8, <3>1, <3>2, DamageKept
  <2>4. BarOK'
    <3>1. Len(io'.out) = 0 /\ SECTOR_SIZE \in Nat \ {0}
      BY <1>8, FatAssumption DEF FatAssumption
    <3>2. QED
      BY <1>8, <3>1 DEF BarOK
  <2>5. QED
    BY <1>1, <1>3, <1>8, <2>1, <2>3, <2>4 DEF InChunk
<1>13. QED
  BY <1>6, <1>7, <1>9, <1>10, <1>11, <1>12 DEF LoaderInv

LEMMA ThroughNullKeeps ==
  ASSUME LoaderInv, ReadThroughNull
  PROVE  LoaderInv'
<1>1. /\ pc = "load" /\ kernelfd = NULL /\ op' = "wild" /\ pc' = "chunk"
      /\ UNCHANGED <<vol, dataSectionLba, fd, path, current, names, target, ret, io, failures,
                     tainted, kernelfd, kernelEntry, mem>>
      /\ UNCHANGED detector
  BY DEF ReadThroughNull
<1>2. DriverOK /\ DetectInv /\ Places /\ ~io.clean
  BY <1>1 DEF LoaderInv, Places
<1>3. DriverOK'
  <2>1. FirstDataLba' = FirstDataLba
    BY <1>1, VolumeKept
  <2>2. DriverTypes' /\ RootOK'
    BY <1>1, <1>2, <2>1 DEF DriverOK, DriverTypes, RootOK, Active
  <2>3. InCall' /\ Delivered'
    BY <1>1, <1>2 DEF InCall, Delivered
  <2>4. QED
    BY <2>2, <2>3 DEF DriverOK
<1>4. DetectInv'
  BY <1>1, <1>2, DetectStays
<1>5. Places'
  BY <1>1, <1>2 DEF Places
<1>6. Seeking' /\ AtKernel' /\ Between' /\ InChunk' /\ Loaded'
  BY <1>1 DEF Seeking, AtKernel, Between, InChunk, Loaded
<1>7. QED
  BY <1>3, <1>4, <1>5, <1>6 DEF LoaderInv

\* The last call asks for what is left behind a load buffer's boundary.
LEMMA TailOf ==
  ASSUME FatAssumption, Stage2Assumption, NEW entry, entry.size \in Nat,
         NEW from \in Nat, from % MEMORY_LOAD_SIZE = 0, from < entry.size,
         NEW r \in Nat, r = entry.size - from, r <= MEMORY_LOAD_SIZE
  PROVE  ShortTail(entry) <=>
           \/ SECTOR_SIZE < r /\ r < 2 * SECTOR_SIZE
           \/ r = SECTOR_SIZE /\ entry.size % (vol.sectorsPerCluster * SECTOR_SIZE) # 0
<1>1. PICK w \in Nat \ {0}, l \in Nat \ {0} : w = SECTOR_SIZE /\ l = MEMORY_LOAD_SIZE
  BY DEF FatAssumption, Stage2Assumption
<1>2. PICK size \in Nat : size = entry.size
  OBVIOUS
<1>3. ((size - 1) % l) + 1 = r
  BY <1>1, <1>2, TailLength
<1>4. ((entry.size - 1) % MEMORY_LOAD_SIZE) + 1 = r
  BY <1>1, <1>2, <1>3
<1>5. entry.size > 0
  OBVIOUS
<1>6. QED
  BY <1>4, <1>5 DEF ShortTail

\* The progress bar in an iteration for the kernel, before which and in which nothing failed.
LEMMA BarStep ==
  ASSUME DriverOK, ReadLoop, BarOK, Aligned(io.from, io.entry), failures' = failures,
         io.want = MEMORY_LOAD_SIZE,
         NEW t \in Nat \ {0}, t = Take(fd[io.h], io.n), t <= io.n,
         NEW done \in Nat, done = Len(io.out), Len(io'.out) = done + t,
         UNCHANGED <<io.entry, io.from, io.want>>
  PROVE  /\ op' = "read" => BarOK'
         /\ op' = "fault" => ShortTail(io.entry)
         /\ op' = "idle" => fd[io.h].Position + t = io.entry.size /\ ~ShortTail(io.entry)
<1>1. DriverTypes /\ Reading /\ io.n > 0
  BY DEF DriverOK, InCall, ReadLoop
<1>2. PICK h \in Handles, e \in Listed(vol), from \in Nat, want \in Nat, n \in Nat \ {0}, m \in Nat :
        /\ h = io.h /\ e = io.entry /\ from = io.from /\ want = io.want /\ n = io.n
        /\ m = io.maxSector
  BY <1>1 DEF Reading, Transfers
<1>3. PICK p \in Nat : p = fd[h].Position
  BY <1>1 DEF DriverTypes, FileData
<1>4. PICK size \in Nat : size = e.size
  BY <1>1, ChainFacts, VolumeAssumption DEF DriverTypes
<1>5. PICK w \in Nat \ {0}, l \in Nat :
        w = SECTOR_SIZE /\ l = MEMORY_LOAD_SIZE /\ l % w = 0 /\ l >= 2 * w
  BY FatAssumption, Stage2Assumption DEF FatAssumption, Stage2Assumption
<1>6. PICK r : r = Wanted(io) /\ r = IF l < size - from THEN l ELSE size - from
  BY <1>2, <1>4, <1>5 DEF Wanted
<1>7. n + done = r /\ p = from + done
  BY <1>1, <1>2, <1>3, <1>6 DEF Reading
<1>8. r \in Nat /\ from < size /\ r <= l /\ r <= size - from
  BY <1>6, <1>7
<1>9. from % l = 0
  BY <1>2, <1>4, <1>5, <1>8 DEF Aligned
<1>10. PICK p2 \in Nat : p2 = p + t
  OBVIOUS
<1>11. t \in 1 .. n
  BY <1>2
<1>12. /\ p2 % w = 0 => t = w - (p % w)
       /\ p2 % w # 0 => t < w - (p % w)
  <2>1. fd[h].Position \in Nat /\ n \in Nat \ {0}
    BY <1>3
  <2>2. /\ (fd[h].Position + Take(fd[h], n)) % SECTOR_SIZE = 0 =>
             Take(fd[h], n) = SECTOR_SIZE - (fd[h].Position % SECTOR_SIZE)
        /\ (fd[h].Position + Take(fd[h], n)) % SECTOR_SIZE # 0 =>
             Take(fd[h], n) < SECTOR_SIZE - (fd[h].Position % SECTOR_SIZE)
    BY <2>1, FatAssumption, Taken
  <2>3. Take(fd[h], n) = t
    BY <1>2
  <2>4. QED
    BY <1>3, <1>5, <1>10, <2>2, <2>3
<1>13. /\ done < w => m = 0
       /\ done >= w => m # 0 /\ r >= 2 * w
  BY <1>2, <1>5, <1>6 DEF BarOK
<1>14. Moved(w, size, from, r, done, n, t, p2, m)
  <2>1. Moving(w, l, from, size, r, done, n, t, p, p2, m)
    BY <1>6, <1>7, <1>8, <1>9, <1>10, <1>12, <1>13 DEF Moving
  <2>2. QED
    BY <1>5, <1>8, <1>11, <2>1, BarMoves, ZenonT(60)
<1>15. PICK full : full <=> p2 = size /\ size % (vol.sectorsPerCluster * w) = 0
  OBVIOUS
<1>16. /\ p2 % w # 0 => op' = "read" /\ io'.maxSector = m
       /\ p2 % w = 0 /\ full => op' = "idle"
       /\ p2 % w = 0 /\ ~full => /\ io'.maxSector = IF m = 0 THEN (n - t) \div w ELSE m
                                 /\ op' = IF io'.maxSector = 0 THEN "fault" ELSE "read"
  <2>1. t = Take(fd[io.h], io.n) /\ p2 = fd[io.h].Position + t
    BY <1>2, <1>3, <1>10
  <2>2. LET all == p2 = io.entry.size
                     /\ io.entry.size % (vol.sectorsPerCluster * SECTOR_SIZE) = 0
        IN  /\ p2 % SECTOR_SIZE # 0 => op' = "read" /\ io'.maxSector = io.maxSector
            /\ p2 % SECTOR_SIZE = 0 /\ all => op' = "idle"
            /\ p2 % SECTOR_SIZE = 0 /\ ~all =>
                 /\ io'.maxSector = IF io.maxSector = 0 THEN (io.n - t) \div SECTOR_SIZE
                                    ELSE io.maxSector
                 /\ op' = IF io'.maxSector = 0 THEN "fault" ELSE "read"
    BY <2>1, FatAssumption, VolumeAssumption, ImageAssumption, BarOutcome
  <2>3. QED
    BY <1>2, <1>4, <1>5, <1>15, <2>2
<1>17. r = size - from => (ShortTail(e) <=>
                             \/ w < r /\ r < 2 * w
                             \/ r = w /\ size % (vol.sectorsPerCluster * w) # 0)
  <2>1. SUFFICES ASSUME r = size - from
                 PROVE  ShortTail(e) <=> \/ w < r /\ r < 2 * w
                                         \/ r = w /\ size % (vol.sectorsPerCluster * w) # 0
    OBVIOUS
  <2>2. /\ e.size \in Nat /\ from % MEMORY_LOAD_SIZE = 0 /\ from < e.size /\ r \in Nat
        /\ r = e.size - from /\ r <= MEMORY_LOAD_SIZE
    BY <1>4, <1>5, <1>8, <1>9, <2>1
  <2>3. ShortTail(e) <=>
           \/ SECTOR_SIZE < r /\ r < 2 * SECTOR_SIZE
           \/ r = SECTOR_SIZE /\ e.size % (vol.sectorsPerCluster * SECTOR_SIZE) # 0
    BY <2>2, FatAssumption, Stage2Assumption, TailOf
  <2>4. QED
    BY <1>4, <1>5, <2>3
<1>18. p2 = size => n = t /\ r = size - from
  BY <1>14 DEF Moved
<1>19. PICK m2 : m2 = io'.maxSector
  OBVIOUS
<1>20. op' = "read" => BarOK'
  <2>1. Wanted(io)' = r
    BY <1>6 DEF Wanted
  <2>2. op' = "read" => /\ done + t < w => m2 = 0
                        /\ done + t >= w => m2 # 0 /\ r >= 2 * w
    <3>1. CASE p2 % w # 0
      BY <1>14, <1>16, <1>19, <3>1 DEF Moved
    <3>2. CASE p2 % w = 0 /\ full
      BY <1>16, <3>2
    <3>3. CASE p2 % w = 0 /\ ~full
      <4>1. op' = "read" => m2 # 0
        BY <1>16, <1>19, <3>3
      <4>2. m2 # 0 => r >= 2 * w
        BY <1>14, <1>16, <1>19, <3>3 DEF Moved
      <4>3. done + t >= w
        BY <1>14, <3>3 DEF Moved
      <4>4. QED
        BY <1>5, <4>1, <4>2, <4>3
    <3>4. QED
      BY <3>1, <3>2, <3>3
  <2>3. QED
    BY <1>5, <1>19, <2>1, <2>2 DEF BarOK
<1>21. op' = "fault" => ShortTail(e)
  <2>1. SUFFICES ASSUME op' = "fault"
                 PROVE  ShortTail(e)
    OBVIOUS
  <2>2. p2 % w = 0 /\ ~full /\ m = 0 /\ (n - t) \div w = 0
    BY <1>16, <2>1
  <2>3. w <= r /\ r < 2 * w /\ (n = t => r = w) /\ (n # t => r # w) /\ r = size - from
    BY <1>14, <2>2 DEF Moved
  <2>4. CASE r = w
    <3>1. p2 = size
      <4>1. n = t /\ size = from + r
        BY <2>3, <2>4
      <4>2. QED
        BY <1>7, <1>10, <4>1
    <3>2. size % (vol.sectorsPerCluster * w) # 0
      BY <1>15, <2>2, <3>1
    <3>3. QED
      BY <1>17, <2>3, <2>4, <3>2
  <2>5. CASE r # w
    BY <1>8, <1>17, <2>3, <2>5
  <2>6. QED
    BY <2>4, <2>5
<1>22. op' = "idle" => p2 = size /\ ~ShortTail(e)
  <2>1. SUFFICES ASSUME op' = "idle"
                 PROVE  p2 = size /\ ~ShortTail(e)
    OBVIOUS
  <2>2. p2 % w = 0 /\ full
    BY <1>16, <2>1
  <2>3. p2 = size /\ size % (vol.sectorsPerCluster * w) = 0
    BY <1>15, <2>2
  <2>4. n = t /\ r = size - from
    BY <1>18, <2>3
  <2>5. r = w \/ r >= 2 * w
    BY <1>14, <2>2, <2>4 DEF Moved
  <2>6. QED
    BY <1>8, <1>17, <2>3, <2>4, <2>5
<1>23. QED
  BY <1>2, <1>3, <1>4, <1>10, <1>20, <1>21, <1>22

LEMMA JoinedThrice ==
  ASSUME NEW S, NEW s \in Seq(S), NEW t \in Seq(S), NEW u \in Seq(S)
  PROVE  Joined(Joined(s, t), u) = Joined(s, Joined(t, u))
BY ConcatAssociative DEF Joined

\* An iteration of a call for the kernel.
LEMMA IterationKeeps ==
  ASSUME LoaderInv, Chunk, ReadLoop
  PROVE  LoaderInv'
<1>1. /\ pc = "chunk" /\ op = "read" /\ vol' = vol
      /\ UNCHANGED <<kernelfd, kernelEntry>> /\ UNCHANGED detector
      /\ op' # "idle" => UNCHANGED <<pc, mem>>
      /\ op' = "idle" => /\ mem' = Joined(mem, io'.out)
                         /\ pc' = IF io'.out = <<>> THEN "close" ELSE "load"
  BY DEF Chunk, ReadLoop, Joined
<1>2. DriverOK /\ DriverTypes /\ DetectInv /\ Places /\ AtKernel /\ InChunk /\ Reading
  BY <1>1 DEF LoaderInv, DriverOK, InCall
<1>3. DriverOK' /\ DetectInv'
  BY <1>1, <1>2, FatAssumption, VolumeAssumption, LoopKeeps, DetectStays
<1>4. PICK f \in FileData, t \in Nat \ {0}, ok \in BOOLEAN :
           /\ fd' = [fd EXCEPT ![io.h] = f]
           /\ f.Opened = fd[io.h].Opened
           /\ Tracks(f, io.entry)
           /\ failures' \in 0 .. MaxFailures
           /\ failures' = failures + (IF ok THEN 0 ELSE 1)
           /\ tainted' = IF ok THEN tainted ELSE tainted \cup {io.h}
           /\ Right(fd[io.h], io.entry) /\ ok => Right(f, io.entry)
           /\ f.Position % SECTOR_SIZE = 0 /\ ok => Right(f, io.entry)
           /\ f.Position % SECTOR_SIZE # 0 => ok
           /\ op' \in {"read", "idle", "fault"}
           /\ op' = "idle" /\ ok => f.Position = io.entry.size
           /\ t = Take(fd[io.h], io.n) /\ t <= io.n
           /\ f.Position = fd[io.h].Position + t
           /\ io' \in Transfers
           /\ io'.h = io.h /\ io'.entry = io.entry /\ io'.from = io.from /\ io'.want = io.want
           /\ io'.n = io.n - t
           /\ io'.out = io.out \o Bytes(fd[io.h], io.n)
           /\ io'.clean = (io.clean /\ ok)
  BY <1>1, <1>2, FatAssumption, VolumeAssumption, LoopOutcome
<1>5. PICK h \in Handles, e \in Listed(vol), from \in Nat, want \in Nat, n \in Nat \ {0},
           out \in Seq(Int \X Int) :
        /\ h = io.h /\ e = io.entry /\ from = io.from /\ want = io.want /\ n = io.n /\ out = io.out
        /\ h = kernelfd /\ e = kernelEntry
  BY <1>1, <1>2, <1>4 DEF Reading, Transfers, InChunk
<1>6. /\ want = MEMORY_LOAD_SIZE /\ Len(mem) = from
      /\ Damage(Joined(mem, out), fd[h], e, failures)
      /\ failures = 0 => Aligned(from, e) /\ BarOK
  BY <1>1, <1>2, <1>5 DEF InChunk
<1>7. PICK mem0 \in Seq(Int \X Int) : mem0 = mem
  BY <1>2 DEF Places
<1>8. PICK done \in Nat : done = Len(out)
  BY LenProperties
<1>9. PICK s \in Seq(Int \X Int) : s = Joined(mem0, out) /\ Len(s) = Len(mem0) + Len(out)
  BY WrongGrows
<1>10. PICK f0 \in FileData : f0 = fd[h]
  BY <1>2 DEF DriverTypes
<1>11. PICK size \in Nat : size = e.size
  BY <1>2, VolumeAssumption, ChainFacts DEF DriverTypes
<1>12. PICK p \in Nat : p = f0.Position /\ p = from + done
  BY <1>2, <1>5, <1>8, <1>10 DEF Reading, FileData
<1>13. Len(s) = f0.Position
  BY <1>6, <1>7, <1>8, <1>9, <1>12
<1>14. p < size
  <2>1. n + done = Wanted(io)
    BY <1>2, <1>5, <1>8 DEF Reading
  <2>2. Wanted(io) = IF want < size - from THEN want ELSE size - from
    BY <1>5, <1>11 DEF Wanted
  <2>3. QED
    BY <1>12, <2>1, <2>2
<1>15. PICK bytes \in Seq(Int \X Int) : bytes = Bytes(f0, n) /\ Len(bytes) = t
  <2>1. f0.Position \in Nat /\ f0.Buffer \in Int
    BY DEF FileData
  <2>2. t = Take(f0, n)
    BY <1>4, <1>5, <1>10
  <2>3. QED
    BY <2>1, <2>2, FatAssumption, BytesTaken
<1>16. /\ Joined(s, bytes) \in Seq(Int \X Int)
       /\ Len(Joined(s, bytes)) = f.Position
       /\ Damage(Joined(s, bytes), f, e, failures')
  <2>1. /\ t = Take(f0, n) /\ f.Position = f0.Position + t /\ f0.Position < e.size
        /\ Right(f0, e) /\ ok => Right(f, e)
        /\ f.Position % SECTOR_SIZE = 0 /\ ok => Right(f, e)
        /\ f.Position % SECTOR_SIZE # 0 => ok
        /\ Damage(s, f0, e, failures)
    BY <1>4, <1>5, <1>6, <1>7, <1>9, <1>10, <1>11, <1>12, <1>14
  <2>2. failures \in Nat
    BY <1>2, FatAssumption DEF DriverTypes, FatAssumption
  <2>3. PICK failed2 : failed2 = failures' /\ failed2 = failures + (IF ok THEN 0 ELSE 1)
    BY <1>4
  <2>4. /\ Joined(s, Bytes(f0, n)) \in Seq(Int \X Int)
        /\ Len(Joined(s, Bytes(f0, n))) = f.Position
        /\ Damage(Joined(s, Bytes(f0, n)), f, e, failed2)
    BY <1>13, <2>1, <2>2, <2>3, FatAssumption, DamageGrows
  <2>5. QED
    BY <1>15, <2>3, <2>4
<1>17. io'.out = Joined(out, bytes) /\ Len(io'.out) = done + t /\ io'.out # <<>>
  <2>1. io'.out = Joined(out, bytes)
    BY <1>4, <1>5, <1>10, <1>15 DEF Joined
  <2>2. Len(Joined(out, bytes)) = Len(out) + Len(bytes)
    BY WrongGrows
  <2>3. QED
    BY <1>8, <1>15, <2>1, <2>2
<1>18. Joined(mem, io'.out) = Joined(s, bytes)
  <2>1. Joined(Joined(mem0, out), bytes) = Joined(mem0, Joined(out, bytes))
    BY JoinedThrice
  <2>2. QED
    BY <1>7, <1>9, <1>17, <2>1
<1>19. fd'[h] = f
  BY <1>2, <1>4, <1>5 DEF DriverTypes
<1>20. AtKernel'
  <2>1. h # NULL /\ ~e.dir /\ (h \notin tainted => Right(f0, e))
    BY <1>1, <1>2, <1>5, <1>10, FatAssumption, NotHandles DEF AtKernel
  <2>2. h \notin tainted' => Right(f, e)
    BY <1>4, <1>5, <1>10, <2>1
  <2>3. Tracks(fd'[kernelfd'], kernelEntry') /\ (h \notin tainted' => Right(fd'[kernelfd'], kernelEntry'))
    BY <1>1, <1>4, <1>5, <1>19, <2>2
  <2>4. Tracks(fd[kernelfd], kernelEntry)' /\ (h \notin tainted' => Right(fd[kernelfd], kernelEntry)')
    BY <1>1, <2>3, VolumeKept
  <2>5. QED
    BY <1>1, <1>5, <2>1, <2>4 DEF AtKernel
<1>21. failures' = 0 => /\ failures = 0
                        /\ op' = "read" => BarOK'
                        /\ op' = "fault" => ShortTail(e)
                        /\ op' = "idle" => f.Position = size /\ ~ShortTail(e)
  <2>1. SUFFICES ASSUME failures' = 0
                 PROVE  /\ failures = 0
                        /\ op' = "read" => BarOK'
                        /\ op' = "fault" => ShortTail(e)
                        /\ op' = "idle" => f.Position = size /\ ~ShortTail(e)
    OBVIOUS
  <2>2. failures = 0 /\ failures' = failures
    <3>1. failures \in Nat
      BY <1>2, FatAssumption DEF DriverTypes, FatAssumption
    <3>2. QED
      BY <1>4, <2>1, <3>1
  <2>3. /\ BarOK /\ Aligned(io.from, io.entry) /\ io.want = MEMORY_LOAD_SIZE
        /\ UNCHANGED <<io.entry, io.from, io.want>>
        /\ done = Len(io.out) /\ Len(io'.out) = done + t
    BY <1>4, <1>5, <1>6, <1>8, <1>17, <2>2
  <2>4. /\ op' = "read" => BarOK'
        /\ op' = "fault" => ShortTail(io.entry)
        /\ op' = "idle" => fd[io.h].Position + t = io.entry.size /\ ~ShortTail(io.entry)
    BY <1>2, <1>4, <2>2, <2>3, BarStep
  <2>5. QED
    BY <1>4, <1>5, <1>11, <2>2, <2>4
<1>22. CASE op' = "read"
  <2>1. pc' = "chunk" /\ mem' = mem
    BY <1>1, <1>22
  <2>2. Places'
    BY <1>1, <1>2, <1>22, <2>1 DEF Places
  <2>3. InChunk'
    <3>1. /\ Damage(Joined(mem', io'.out), fd'[kernelfd'], kernelEntry', failures')
          /\ failures' = 0 => Aligned(io'.from, kernelEntry')
      BY <1>1, <1>4, <1>5, <1>6, <1>16, <1>18, <1>19, <1>21, <2>1
    <3>2. Joined(mem, io.out)' = Joined(mem', io'.out)
      BY DEF Joined
    <3>3. /\ Damage(Joined(mem, io.out), fd[kernelfd], kernelEntry, failures)'
          /\ failures' = 0 => Aligned(io.from, kernelEntry)'
      BY <1>1, <3>1, <3>2, DamageKept
    <3>4. /\ io'.h = kernelfd' /\ io'.entry = kernelEntry' /\ io'.want = MEMORY_LOAD_SIZE
          /\ Len(mem') = io'.from
      BY <1>1, <1>4, <1>5, <1>6, <2>1
    <3>5. QED
      BY <1>21, <1>22, <3>3, <3>4 DEF InChunk
  <2>4. Seeking' /\ Between' /\ Loaded'
    BY <2>1 DEF Seeking, Between, Loaded
  <2>5. QED
    BY <1>3, <1>20, <2>2, <2>3, <2>4 DEF LoaderInv
<1>23. CASE op' = "fault"
  <2>1. pc' = "chunk" /\ mem' = mem
    BY <1>1, <1>23
  <2>2. Places'
    BY <1>1, <1>2, <1>23, <2>1 DEF Places
  <2>3. failures' = 0 => ShortTail(kernelEntry)'
    BY <1>1, <1>5, <1>21, <1>23, DamageKept
  <2>4. InChunk'
    BY <1>23, <2>3 DEF InChunk
  <2>5. Seeking' /\ Between' /\ Loaded'
    BY <2>1 DEF Seeking, Between, Loaded
  <2>6. QED
    BY <1>3, <1>20, <2>2, <2>4, <2>5 DEF LoaderInv
<1>24. CASE op' = "idle"
  <2>1. pc' = "load" /\ mem' = Joined(s, bytes) /\ mem' \in Seq(Int \X Int)
    BY <1>1, <1>16, <1>17, <1>18, <1>24
  <2>2. kernelfd' # NULL
    BY <1>1, <1>5, FatAssumption, NotHandles
  <2>3. Places'
    BY <1>1, <1>2, <1>24, <2>1, <2>2 DEF Places
  <2>4. Between'
    <3>1. Len(mem') = fd'[kernelfd']. Position
      BY <1>1, <1>5, <1>16, <1>19, <2>1
    <3>2. Damage(mem', fd'[kernelfd'], kernelEntry', failures')
      BY <1>1, <1>5, <1>16, <1>19, <2>1
    <3>3. failures' = 0 => Aligned(Len(mem'), kernelEntry')
      <4>1. failures' = 0 => Len(mem') = e.size /\ ~ShortTail(e)
        BY <1>11, <1>16, <1>21, <1>24, <2>1
      <4>2. QED
        BY <1>1, <1>5, <4>1 DEF Aligned
    <3>4. /\ Damage(mem, fd[kernelfd], kernelEntry, failures)'
          /\ failures' = 0 => Aligned(Len(mem), kernelEntry)'
      BY <1>1, <3>2, <3>3, DamageKept
    <3>5. QED
      BY <2>1, <3>1, <3>4 DEF Between
  <2>5. Seeking' /\ InChunk' /\ Loaded'
    BY <2>1 DEF Seeking, InChunk, Loaded
  <2>6. QED
    BY <1>3, <1>20, <2>3, <2>4, <2>5 DEF LoaderInv
<1>25. QED
  BY <1>4, <1>22, <1>23, <1>24

LEMMA NextMultiple ==
  ASSUME NEW l \in Nat \ {0}, NEW n \in Nat, n % l = 0
  PROVE  (n + l) % l = 0
<1>1. PICK q \in Nat : q = n \div l /\ n = l * q
  <2>1. n \div l \in Nat /\ n = (l * (n \div l)) + (n % l)
    BY DivMod
  <2>2. QED
    BY <2>1
<1>2. PICK p \in Nat, k \in Nat, z \in 0 .. l - 1 : p = n + l /\ k = q + 1 /\ z = 0
  OBVIOUS
<1>3. Divided(p, l, k, z)
  <2>1. PICK lq \in Nat : lq = l * q
    OBVIOUS
  <2>2. l * (q + 1) = lq + l
    BY <2>1
  <2>3. p = (l * k) + z
    BY <1>1, <1>2, <2>1, <2>2
  <2>4. QED
    BY <2>3 DEF Divided
<1>4. p % l = z
  BY <1>3, Quotient
<1>5. QED
  BY <1>2, <1>4

\* A call for the kernel returns with what it asked for, or with the file's rest.
LEMMA ReturnsKeeps ==
  ASSUME LoaderInv, Chunk, ReadReturns
  PROVE  LoaderInv'
<1>1. /\ pc = "chunk" /\ op = "read" /\ op' = "idle" /\ io.n = 0
      /\ UNCHANGED <<vol, fd, io, failures, tainted, kernelfd, kernelEntry>> /\ UNCHANGED detector
      /\ mem' = Joined(mem, io'.out)
      /\ pc' = IF io'.out = <<>> THEN "close" ELSE "load"
  BY DEF Chunk, ReadReturns, Joined
<1>2. DriverOK /\ DriverTypes /\ DetectInv /\ Places /\ AtKernel /\ InChunk /\ Reading
  BY <1>1 DEF LoaderInv, DriverOK, InCall
<1>3. DriverOK' /\ DetectInv'
  BY <1>1, <1>2, FatAssumption, VolumeAssumption, ReturnKeeps, DetectStays
<1>4. PICK h \in Handles, e \in Listed(vol), from \in Nat, want \in Nat, m \in Nat,
           out \in Seq(Int \X Int) :
        /\ h = io.h /\ e = io.entry /\ from = io.from /\ want = io.want /\ m = io.maxSector
        /\ out = io.out /\ h = kernelfd /\ e = kernelEntry
  BY <1>1, <1>2 DEF Reading, Transfers, InChunk
<1>5. /\ want = MEMORY_LOAD_SIZE /\ Len(mem) = from
      /\ Damage(Joined(mem, out), fd[h], e, failures)
      /\ failures = 0 => Aligned(from, e) /\ BarOK
  BY <1>1, <1>2, <1>4 DEF InChunk
<1>6. PICK mem0 \in Seq(Int \X Int) : mem0 = mem
  BY <1>2 DEF Places
<1>7. PICK done \in Nat : done = Len(out)
  BY LenProperties
<1>8. PICK s \in Seq(Int \X Int) : s = Joined(mem0, out) /\ Len(s) = Len(mem0) + Len(out)
  BY WrongGrows
<1>9. PICK size \in Nat : size = e.size
  BY <1>2, VolumeAssumption, ChainFacts DEF DriverTypes
<1>10. PICK p \in Nat : p = fd[h].Position /\ p = from + done /\ p <= size
  <2>1. PICK f \in FileData : f = fd[h]
    BY <1>2 DEF DriverTypes
  <2>2. fd[h].Position \in Nat
    BY <2>1 DEF FileData
  <2>3. fd[h].Position = from + done /\ fd[h].Position <= size
    BY <1>2, <1>4, <1>7, <1>9 DEF Reading, Tracks
  <2>4. QED
    BY <2>2, <2>3
<1>11. PICK w \in Nat \ {0}, l \in Nat \ {0} :
         w = SECTOR_SIZE /\ l = MEMORY_LOAD_SIZE /\ l % w = 0 /\ l >= 2 * w
  BY FatAssumption, Stage2Assumption DEF FatAssumption, Stage2Assumption
<1>12. Wanted(io) = (IF l < size - from THEN l ELSE size - from) /\ done = Wanted(io)
  <2>1. Wanted(io) = IF l < size - from THEN l ELSE size - from
    BY <1>4, <1>5, <1>9, <1>11 DEF Wanted
  <2>2. 0 + done = Wanted(io)
    BY <1>1, <1>2, <1>4, <1>7 DEF Reading
  <2>3. QED
    BY <2>1, <2>2
<1>13. mem' = s /\ Len(s) = p
  BY <1>1, <1>4, <1>5, <1>6, <1>7, <1>8, <1>10
<1>14. io'.out = <<>> => p = size
  <2>1. io'.out = <<>> => done = 0
    BY <1>1, <1>4, <1>7
  <2>2. done = 0 => from = size
    BY <1>10, <1>11, <1>12
  <2>3. QED
    BY <1>10, <2>1, <2>2
<1>15. failures = 0 => Aligned(p, e)
  <2>1. SUFFICES ASSUME failures = 0
                 PROVE  Aligned(p, e)
    OBVIOUS
  <2>2. /\ from % l = 0 \/ from = size
        /\ from = size => ~ShortTail(e)
        /\ done < w => m = 0
        /\ done >= w => m # 0 /\ done >= 2 * w
    BY <1>4, <1>5, <1>7, <1>9, <1>11, <1>12, <2>1 DEF Aligned, BarOK
  <2>3. CASE from = size
    <3>1. p = size
      BY <1>10, <2>3
    <3>2. QED
      BY <1>9, <2>2, <2>3, <3>1 DEF Aligned
  <2>4. CASE from # size
    <3>1. from % l = 0 /\ from < size /\ done <= l
      BY <1>10, <1>12, <2>2, <2>4
    <3>2. p # size => p % l = 0
      <4>1. SUFFICES ASSUME p # size
                     PROVE  p % l = 0
        OBVIOUS
      <4>2. done = l
        BY <1>10, <1>12, <4>1
      <4>3. (from + l) % l = 0
        BY <3>1, NextMultiple
      <4>4. p = from + l
        BY <1>10, <4>2
      <4>5. QED
        BY <4>3, <4>4
    <3>3. p = size => ~ShortTail(e)
      <4>1. SUFFICES ASSUME p = size
                     PROVE  ~ShortTail(e)
        OBVIOUS
      <4>2. /\ e.size \in Nat /\ from % MEMORY_LOAD_SIZE = 0 /\ from < e.size
            /\ done = e.size - from /\ done <= MEMORY_LOAD_SIZE
        BY <1>9, <1>10, <1>11, <3>1, <4>1
      <4>3. ShortTail(e) <=>
               \/ SECTOR_SIZE < done /\ done < 2 * SECTOR_SIZE
               \/ done = SECTOR_SIZE /\ e.size % (vol.sectorsPerCluster * SECTOR_SIZE) # 0
        BY <4>2, FatAssumption, Stage2Assumption, TailOf
      <4>4. ~(w < done /\ done < 2 * w) /\ done # w
        BY <1>11, <2>2
      <4>5. QED
        BY <1>11, <4>3, <4>4
    <3>4. QED
      BY <1>9, <1>11, <3>2, <3>3 DEF Aligned
  <2>5. QED
    BY <2>3, <2>4
<1>16. pc' \in {"load", "close"} /\ kernelfd' # NULL
  BY <1>1, <1>4, FatAssumption, NotHandles
<1>17. Places'
  BY <1>1, <1>2, <1>13, <1>16 DEF Places
<1>18. AtKernel'
  <2>1. h # NULL /\ ~e.dir /\ Tracks(fd[h], e) /\ (h \notin tainted => Right(fd[h], e))
    BY <1>1, <1>2, <1>4, FatAssumption, NotHandles DEF AtKernel
  <2>2. Tracks(fd'[kernelfd'], kernelEntry') /\ (h \notin tainted => Right(fd'[kernelfd'], kernelEntry'))
    BY <1>1, <1>4, <2>1
  <2>3. Tracks(fd[kernelfd], kernelEntry)' /\ (h \notin tainted => Right(fd[kernelfd], kernelEntry)')
    BY <1>1, <2>2, VolumeKept
  <2>4. QED
    BY <1>1, <1>4, <2>1, <2>3 DEF AtKernel
<1>19. Between'
  <2>1. Len(mem') = fd'[kernelfd'].Position
    BY <1>1, <1>4, <1>10, <1>13
  <2>2. Damage(mem', fd'[kernelfd'], kernelEntry', failures')
    BY <1>1, <1>4, <1>5, <1>6, <1>8, <1>13
  <2>3. failures' = 0 => Aligned(Len(mem'), kernelEntry')
    BY <1>1, <1>4, <1>13, <1>15
  <2>4. /\ Damage(mem, fd[kernelfd], kernelEntry, failures)'
        /\ failures' = 0 => Aligned(Len(mem), kernelEntry)'
    BY <1>1, <2>2, <2>3, DamageKept
  <2>5. pc' = "close" => Len(mem') = kernelEntry'.size
    BY <1>1, <1>4, <1>9, <1>13, <1>14
  <2>6. QED
    BY <2>1, <2>4, <2>5 DEF Between
<1>20. Seeking' /\ InChunk' /\ Loaded'
  BY <1>16 DEF Seeking, InChunk, Loaded
<1>21. QED
  BY <1>3, <1>17, <1>18, <1>19, <1>20 DEF LoaderInv

LEMMA ChunkKeeps ==
  ASSUME LoaderInv, Chunk
  PROVE  LoaderInv'
BY IterationKeeps, ReturnsKeeps DEF Chunk

LEMMA StartKernelKeeps ==
  ASSUME LoaderInv, StartKernel
  PROVE  LoaderInv'
<1>1. /\ pc = "close" /\ pc' = "kernel" /\ FAT_Close(kernelfd)
      /\ UNCHANGED <<kernelfd, kernelEntry, mem>> /\ UNCHANGED detector
  BY DEF StartKernel
<1>2. DriverOK /\ DetectInv /\ Places /\ AtKernel /\ Between
  BY DEF LoaderInv
<1>3. PICK h \in Handles : h = kernelfd
  BY <1>1, <1>2 DEF Places
<1>4. h # NULL
  BY FatAssumption, NotHandles
<1>5. FAT_Close(h)
  BY <1>1, <1>3
<1>6. DriverOK' /\ DetectInv'
  BY <1>1, <1>2, <1>5, FatAssumption, CloseKeeps, DetectStays
<1>7. /\ op = "idle" /\ op' = "idle" /\ UNCHANGED <<vol, failures>>
  BY <1>5 DEF FAT_Close
<1>8. Places'
  BY <1>1, <1>2, <1>3, <1>4, <1>7 DEF Places
<1>9. /\ Len(mem) = kernelEntry.size
      /\ Damage(mem, fd[h], kernelEntry, failures)
      /\ failures = 0 => ~ShortTail(kernelEntry)
  BY <1>1, <1>2, <1>3, <1>4 DEF Between, Aligned
<1>10. Cardinality(Wrong(mem, kernelEntry)) <= SECTOR_SIZE * failures
  <2>1. PICK f \in FileData : f = fd[h]
    BY <1>2 DEF DriverOK, DriverTypes
  <2>2. PICK w \in Nat \ {0}, p \in Nat : w = SECTOR_SIZE /\ p = f.Position
    BY FatAssumption DEF FatAssumption, FileData
  <2>3. PICK r \in 0 .. w - 1 : r = p % w
    BY DivMod
  <2>4. PICK c \in Nat : c = Cardinality(Wrong(mem, kernelEntry))
    BY <1>2, WrongFinite DEF Places
  <2>5. PICK k \in Nat : k = SECTOR_SIZE * failures
    <3>1. failures \in Nat
      BY <1>2, FatAssumption DEF DriverOK, DriverTypes, FatAssumption
    <3>2. w * failures \in Nat
      BY <3>1
    <3>3. QED
      BY <2>2, <3>2
  <2>6. PICK owed \in Nat : owed = Owed(f, kernelEntry)
    <3>1. CASE Right(f, kernelEntry)
      BY <3>1 DEF Owed
    <3>2. CASE ~Right(f, kernelEntry)
      <4>1. w - r \in Nat
        BY <2>3
      <4>2. Owed(f, kernelEntry) = w - r
        BY <2>2, <2>3, <3>2 DEF Owed
      <4>3. QED
        BY <4>1, <4>2
    <3>3. QED
      BY <3>1, <3>2
  <2>7. c + owed <= k
    BY <1>9, <2>1, <2>4, <2>5, <2>6 DEF Damage
  <2>8. QED
    BY <2>4, <2>5, <2>7
<1>11. Loaded'
  <2>1. /\ Len(mem') = kernelEntry'.size
        /\ Cardinality(Wrong(mem', kernelEntry')) <= SECTOR_SIZE * failures'
        /\ failures' = 0 => ~ShortTail(kernelEntry')
    BY <1>1, <1>7, <1>9, <1>10
  <2>2. Wrong(mem, kernelEntry)' = Wrong(mem', kernelEntry')
        /\ (ShortTail(kernelEntry)' <=> ShortTail(kernelEntry'))
    BY <1>7, DamageKept
  <2>3. QED
    BY <2>1, <2>2 DEF Loaded
<1>12. Seeking' /\ AtKernel' /\ Between' /\ InChunk'
  BY <1>1 DEF Seeking, AtKernel, Between, InChunk
<1>13. QED
  BY <1>6, <1>8, <1>11, <1>12 DEF LoaderInv

\* Nothing happens to what nothing changes.
LEMMA LoaderStutter ==
  ASSUME LoaderInv, UNCHANGED vars
  PROVE  LoaderInv'
<1>1. UNCHANGED driver /\ UNCHANGED detector
  BY DEF vars
<1>2. UNCHANGED <<vol, fd, op, path, current, fatName, target, io, failures, tainted,
                  pc, kernelfd, kernelEntry, mem, detecting>>
  BY DEF vars, driver, names, loader, detector
<1>3. DriverOK' /\ DetectInv'
  BY <1>1, DriverStays, DetectStays DEF LoaderInv
<1>4. Places' /\ Seeking'
  BY <1>2 DEF LoaderInv, Places, Seeking
<1>5. AtKernel'
  <2>1. /\ Tracks(fd[kernelfd], kernelEntry)' <=> Tracks(fd[kernelfd], kernelEntry)
        /\ Right(fd[kernelfd], kernelEntry)' <=> Right(fd[kernelfd], kernelEntry)
    <3>1. /\ Tracks(fd'[kernelfd'], kernelEntry') <=> Tracks(fd[kernelfd], kernelEntry)
          /\ Right(fd'[kernelfd'], kernelEntry') <=> Right(fd[kernelfd], kernelEntry)
      BY <1>2
    <3>2. QED
      BY <1>2, <3>1, VolumeKept
  <2>2. QED
    BY <1>2, <2>1 DEF LoaderInv, AtKernel
<1>6. Between'
  <2>1. /\ Damage(mem, fd[kernelfd], kernelEntry, failures)'
             <=> Damage(mem, fd[kernelfd], kernelEntry, failures)
        /\ Aligned(Len(mem), kernelEntry)' <=> Aligned(Len(mem), kernelEntry)
    <3>1. /\ Damage(mem', fd'[kernelfd'], kernelEntry', failures')
               <=> Damage(mem, fd[kernelfd], kernelEntry, failures)
          /\ Aligned(Len(mem'), kernelEntry') <=> Aligned(Len(mem), kernelEntry)
      BY <1>2
    <3>2. QED
      BY <1>2, <3>1, DamageKept
  <2>2. QED
    BY <1>2, <2>1 DEF LoaderInv, Between
<1>7. InChunk'
  <2>1. /\ Damage(Joined(mem, io.out), fd[kernelfd], kernelEntry, failures)'
             <=> Damage(Joined(mem, io.out), fd[kernelfd], kernelEntry, failures)
        /\ Aligned(io.from, kernelEntry)' <=> Aligned(io.from, kernelEntry)
    <3>1. /\ Damage(Joined(mem', io'.out), fd'[kernelfd'], kernelEntry', failures')
               <=> Damage(Joined(mem, io.out), fd[kernelfd], kernelEntry, failures)
          /\ Aligned(io'.from, kernelEntry') <=> Aligned(io.from, kernelEntry)
      BY <1>2
    <3>2. Joined(mem, io.out)' = Joined(mem', io'.out)
      BY DEF Joined
    <3>3. QED
      BY <1>2, <3>1, <3>2, DamageKept
  <2>2. ShortTail(kernelEntry)' <=> ShortTail(kernelEntry)
    <3>1. ShortTail(kernelEntry') <=> ShortTail(kernelEntry)
      BY <1>2
    <3>2. QED
      BY <1>2, <3>1, DamageKept
  <2>3. BarOK' <=> BarOK
    BY <1>2 DEF BarOK, Wanted
  <2>4. QED
    BY <1>2, <2>1, <2>2, <2>3 DEF LoaderInv, InChunk
<1>8. Loaded'
  <2>1. Wrong(mem, kernelEntry)' = Wrong(mem, kernelEntry)
        /\ (ShortTail(kernelEntry)' <=> ShortTail(kernelEntry))
    <3>1. Wrong(mem', kernelEntry') = Wrong(mem, kernelEntry)
          /\ (ShortTail(kernelEntry') <=> ShortTail(kernelEntry))
      BY <1>2
    <3>2. QED
      BY <1>2, <3>1, DamageKept
  <2>2. QED
    BY <1>2, <2>1 DEF LoaderInv, Loaded
<1>9. QED
  BY <1>3, <1>4, <1>5, <1>6, <1>7, <1>8 DEF LoaderInv

LEMMA LoaderNext ==
  ASSUME LoaderInv, [Next]_vars
  PROVE  LoaderInv'
<1>1. CASE OpenDisk
  BY <1>1, OpenDiskKeeps
<1>2. CASE OpenVolume
  BY <1>2, OpenVolumeKeeps
<1>3. CASE DetectMemory
  BY <1>3, DetectMemoryKeeps
<1>4. CASE CallOpen
  BY <1>4, CallOpenKeeps
<1>5. CASE Opening
  BY <1>5, SearchKeeps, OpenedKeeps DEF Opening
<1>6. CASE CallRead
  BY <1>6, CallReadKeeps
<1>7. CASE ReadThroughNull
  BY <1>7, ThroughNullKeeps
<1>8. CASE Chunk
  BY <1>8, ChunkKeeps
<1>9. CASE StartKernel
  BY <1>9, StartKernelKeeps
<1>10. CASE UNCHANGED vars
  BY <1>10, LoaderStutter
<1>11. QED
  BY <1>1, <1>2, <1>3, <1>4, <1>5, <1>6, <1>7, <1>8, <1>9, <1>10 DEF Next

LEMMA LoaderInvariant == Spec => []LoaderInv
<1>1. Init => LoaderInv
  BY LoaderStarts
<1>2. LoaderInv /\ [Next]_vars => LoaderInv'
  BY LoaderNext
<1>3. QED
  BY <1>1, <1>2, PTL DEF Spec

-----------------------------------------------------------------------------
(* What the run checks, for every value of the constants. *)

\* cmain and the driver agree on where they are; MemDetect never counts more blocks than
\* its array holds.
THEOREM TypeCorrect == Spec => []TypeOK
<1>1. LoaderInv => TypeOK
  BY DEF LoaderInv, DetectInv, Places, TypeOK
<1>2. QED
  BY <1>1, LoaderInvariant, PTL

\* MemDetect stores the BIOS's blocks in order, without a gap, and repeats one only behind
\* a call that failed.
THEOREM StoredInOrder == Spec => []InOrder
<1>1. LoaderInv => InOrder
  BY DEF LoaderInv, DetectInv
<1>2. QED
  BY <1>1, LoaderInvariant, PTL

\* MemDetect writes behind its array only for a list too long for it, or when a call failed.
THEOREM OverrunsOnlyIf == Spec => []OverrunOnlyIf
<1>1. LoaderInv => OverrunOnlyIf
  BY DEF LoaderInv, DetectInv
<1>2. QED
  BY <1>1, LoaderInvariant, PTL

\* MemDetect, asking a BIOS that ends with a continuation of 0, misses the last block only.
THEOREM StoresAllButLast == Spec => []AllButLast
<1>1. LoaderInv => AllButLast
  BY DEF LoaderInv, DetectInv
<1>2. QED
  BY <1>1, LoaderInvariant, PTL

\* Between cmain's Truth and the bytes that Wrong compares with there is no difference.
LEMMA WrongBytes ==
  ASSUME LoaderInv, pc = "kernel"
  PROVE  /\ mem \in Seq(Int \X Int) /\ kernelEntry.size \in Nat
         /\ Len(mem) = kernelEntry.size
         /\ Truth \in [1 .. kernelEntry.size -> {FileByte(kernelEntry, k) : k \in Nat}]
         /\ {k \in DOMAIN mem : mem[k] # Truth[k]} = Wrong(mem, kernelEntry)
<1>1. mem \in Seq(Int \X Int) /\ Len(mem) = kernelEntry.size
  BY DEF LoaderInv, Places, Loaded
<1>2. PICK size \in Nat : size = kernelEntry.size /\ DOMAIN mem = 1 .. size
  BY <1>1, LenProperties
<1>3. Truth = [k \in 1 .. size |-> FileByte(kernelEntry, 0 + k - 1)]
  BY <1>2 DEF Truth, FileBytes
<1>4. ASSUME NEW k \in 1 .. size
      PROVE  Truth[k] = FileByte(kernelEntry, k - 1) /\ k - 1 \in Nat
  <2>1. 0 + k - 1 = k - 1 /\ k - 1 \in Nat
    OBVIOUS
  <2>2. QED
    BY <1>3, <2>1
<1>5. {k \in DOMAIN mem : mem[k] # Truth[k]} = Wrong(mem, kernelEntry)
  BY <1>2, <1>4 DEF Wrong
<1>6. Truth \in [1 .. size -> {FileByte(kernelEntry, k) : k \in Nat}]
  <2>1. DOMAIN Truth = 1 .. size /\ Truth = [k \in 1 .. size |-> Truth[k]]
    BY <1>3
  <2>2. \A k \in 1 .. size : Truth[k] \in {FileByte(kernelEntry, j) : j \in Nat}
    BY <1>4
  <2>3. QED
    BY <2>1, <2>2
<1>7. QED
  BY <1>1, <1>2, <1>5, <1>6

\* Where no read failed the kernel is entered with exactly its file in memory.
THEOREM ImageCorrect == Spec => []LoadedImageCorrect
<1>1. LoaderInv => LoadedImageCorrect
  <2> SUFFICES ASSUME LoaderInv, pc = "kernel", failures = 0
               PROVE  mem = Truth
    BY DEF LoadedImageCorrect
  <2>1. PICK size \in Nat : size = kernelEntry.size
    BY WrongBytes
  <2>2. mem \in Seq(Int \X Int) /\ Len(mem) = size
    BY <2>1, WrongBytes
  <2>3. DOMAIN mem = 1 .. size /\ DOMAIN Truth = 1 .. size
    BY <2>1, <2>2, WrongBytes, LenProperties
  <2>4. Wrong(mem, kernelEntry) = {}
    <3>1. Cardinality(Wrong(mem, kernelEntry)) <= SECTOR_SIZE * failures
      BY DEF LoaderInv, Loaded
    <3>2. PICK w \in Nat : w = SECTOR_SIZE
      BY FatAssumption DEF FatAssumption
    <3>3. w * 0 = 0
      OBVIOUS
    <3>4. IsFiniteSet(Wrong(mem, kernelEntry)) /\ Cardinality(Wrong(mem, kernelEntry)) \in Nat
      BY <2>2, WrongFinite
    <3>5. Cardinality(Wrong(mem, kernelEntry)) = 0
      BY <3>1, <3>2, <3>3, <3>4
    <3>6. QED
      BY <3>4, <3>5, FS_EmptySet
  <2>5. \A k \in 1 .. size : mem[k] = Truth[k]
    BY <2>3, <2>4, WrongBytes
  <2>6. mem = [k \in 1 .. size |-> mem[k]] /\ Truth = [k \in 1 .. size |-> Truth[k]]
    BY <2>1, <2>2, <2>3, WrongBytes
  <2>7. QED
    BY <2>5, <2>6
<1>2. QED
  BY <1>1, LoaderInvariant, PTL

\* FAT_Read goes on after a failed read; each one spoils at most a sector of the image.
THEOREM DamageLimited == Spec => []DamageBounded
<1>1. LoaderInv => DamageBounded
  <2> SUFFICES ASSUME LoaderInv, pc = "kernel"
               PROVE  /\ Len(mem) = kernelEntry.size
                      /\ Cardinality({k \in DOMAIN mem : mem[k] # Truth[k]})
                           <= SECTOR_SIZE * failures
    BY DEF DamageBounded
  <2>1. /\ Len(mem) = kernelEntry.size
        /\ Cardinality(Wrong(mem, kernelEntry)) <= SECTOR_SIZE * failures
    BY DEF LoaderInv, Loaded
  <2>2. {k \in DOMAIN mem : mem[k] # Truth[k]} = Wrong(mem, kernelEntry)
    BY WrongBytes
  <2>3. QED
    BY <2>1, <2>2
<1>2. QED
  BY <1>1, LoaderInvariant, PTL

\* Where no read failed the progress bar divides by zero for a kernel with a short tail, and
\* for no other.
THEOREM FaultsIffShortTail == Spec => []FaultIffShortTail
<1>1. LoaderInv => FaultIffShortTail
  BY DEF LoaderInv, Places, InChunk, Loaded, FaultIffShortTail
<1>2. QED
  BY <1>1, LoaderInvariant, PTL
=============================================================================
