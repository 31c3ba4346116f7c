# Netclover in TLA+

Netclover is a hobby 64-bit operating system: a boot sector, a stage 2 loader that reads
`kernel.bin` from a FAT12 floppy, and a kernel with a text console, interrupts and a keyboard
driver. This directory models the parts with state, checks them with TLC and proves the central
properties with TLAPS. Paths below are those of the repository's `src/` directory.

## The system

| part | source | state | operations | talks to |
|---|---|---|---|---|
| boot sector | `boot/boot.asm` | drive number, attempts left | load stage 2, open A20, enter protected mode | BIOS, 8042; `boot_disk_reset` is also called by stage 2 |
| BIOS thunks | `boot/stage2/libs/x86.asm` | none (registers) | `diskReset16`, `diskRead16`, `diskGetDriveParams16`, `E820NextBlock` | BIOS in real mode |
| disk driver | `boot/stage2/libs/disk.c` | `DISK` struct | `DISK_Init`, `DISK_ReadSectors`, `DISK_Reset` | thunks |
| FAT12 driver | `boot/stage2/libs/fat.c` | boot sector, table, root and ten handles at 0x20000 | `FAT_Initialize`, `FAT_Open`, `FAT_Read`, `FAT_Close` | disk driver |
| memory map | `boot/stage2/libs/memdetect.c` | region array, count | `MemDetect` | `E820NextBlock` |
| loader | `boot/stage2/main.c` | load buffer, kernel image, `bootParams` | `cmain` | disk, FAT, memory map |
| kernel entry | `kernel/prekernel.asm` | temporary GDT, page tables | `kinit` | loader, `main` |
| paging | `kernel/memory/pager.c` | four tables | `initPaging` | CPU |
| segments | `kernel/x86/gdt.c`, `gdt.asm` | GDT | `initGDT`, `gdt_flush` | CPU |
| kernel main | `kernel/main.c` | none | initialises, prints, idles | all of the kernel |
| interrupts | `kernel/x86/idt.c`, `idt.asm` | IDT, `irq_routines`, 8259 masks and offsets | `initIDT`, `irq_handler`, stubs | 8259s, CPU |
| keyboard | `kernel/drivers/keyboard/keyboard.c` | `capsOn` | `initKeyboard`, `keyboardHandler` | 8042, console |
| console | `libc/stdio/putc.c` and neighbours | text buffer, cursor | `clrscr`, `putc`, `scrollback`, `setcursor` | VGA |
| formatting | `libc/stdio/printf.c`, `vprintf.c`, `puts.c` | parser state during a call | `printf`, `vprintf`, `puts` | console, stack |
| not modelled | `pit.c`, `manager.c`, `logger.c`, string helpers, build | | | see the end |

Stage 2 is one thread with interrupts off; what makes it hard is failure (every BIOS call may
fail), arithmetic at boundaries, and long sequences of calls on shared buffers. The kernel has
one thread and an interrupt handler; what makes it hard is their interleaving, and the order of
initialisation, in which tables the CPU uses are replaced under running code. The boot sector adds
the handshake with a device that works at its own pace. `PROJECT.json` lists every such hazard at
its line, with the property that covers it.

## The modules

| module | models | state and actions |
|---|---|---|
| `Chs` | LBA to C/H/S, packing into CH, CL, DH, and the BIOS's unpacking | operators only; widths (`uint16_t`, bytes) kept |
| `BlockDevice` | abstract: one request, one answer, 0 only with the data | `Open`, `Request`, `Answer` |
| `Disk` | `disk.c` over `x86.asm` | one action per BIOS call: `DISK_Init`, entry of `DISK_ReadSectors`, attempt that succeeds or fails, `DISK_Reset` |
| `Fat12` | table entries and memory layout | operators only |
| `FatName` | names taken from a path and their 8.3 conversion, with the terminator at `name[len + 1]` | operators only |
| `FatDriver` | `fat.c` | a step runs from one disk read to the next: three for `FAT_Initialize`, `FAT_FindFile` per entry, `FAT_OpenEntry`, `ReadLoop` per sector, `FAT_Close` |
| `FatClient` | any client of `fat.c` | `Open`, `Read`, `Close` between calls, `Step` inside one |
| `MemDetect` | the E820 loop | one action per BIOS call, one per loop body |
| `Stage2` | `cmain` over `FatDriver` and `MemDetect` | one action per call `cmain` makes, one per step inside it |
| `Descriptors` | `gdt.c` and the gates of `idt.c`, and what the CPU reads out of them | operators only |
| `AddressSpace` | page tables of `prekernel.asm` and `pager.c`, and the CPU's walk | operators only |
| `Pic8259` | external: the 8259 pair | operators on a chip record |
| `Kernel` | `kinit`, `main`, `initIDT`, stubs, `irq_handler`, keyboard | a step is one port access or the code between two |
| `Teletype` | abstract: a printer on endless paper | `Type`, `NewLine`, `Return`, `RubOut`, `NewSheet` |
| `Console` | libc's `putc` and `clrscr` | one action per call, one per blank of a tab |
| `Printf` | `printf`, `vprintf`, `puts` | one action per character of the format |
| `BootSector` | `boot.asm` | one action per BIOS call, one per 8042 access |
| `MC*` | constants of the runs | |
| `*Proofs` | theorems | |

`Disk` and `BootSector` both implement `BlockDevice` (properties `IsBlockDevice` and
`LoadIsBlockDevice`). The FAT modules use that contract as `DiskRead`, an atomic read that may
fail and may leave the old buffer, the new one or a mixture. `Stage2` and `FatClient` are two
compositions over the same `FatDriver`; `Stage2` runs `MemDetect` between `FAT_Initialize` and
`FAT_Open`, as `cmain` does. `Kernel` keeps in `cpu` which GDT and which page tables are loaded, which
code segment main runs in and what `rdi` held at the entry of `main`, and looks them up in
`Descriptors` and `AddressSpace`. `Console` implements `Teletype`; that its calls are atomic
is what `ConsoleExclusive` in `Kernel` says. `Printf` yields the characters `Console` is given one by
one.

### What is abstracted

- A sector's contents are its LBA, and a byte of a file is a pair of LBA and offset. A read is
  right if it delivers the right pairs.
- A component of a path is a sequence of characters and a directory entry's name is what the
  conversion makes of one, with `BASE`, `EXT` and `MAX_PATH_SIZE` in place of 8, 3 and 256. An empty
  path and one that ends in a slash are not among the clients' paths. The byte `name[len]`, never written
  for a first component, is any of `Residues`.
- The FAT runs use 4-byte sectors and 2-byte directory entries. The code's arithmetic is in terms of
  `SECTOR_SIZE` and the entry size, constants of the module, so every boundary (sector, cluster,
  load buffer, end of file) comes up with small files. The table is packed in real 12-bit entries.
- `FAT_Initialize` rejects a volume by signature and table size; sizes are those of the real
  structures (`Fat12`).
- A gate's 64-bit offset is split at `WORD` and `WORD * WORD`, where the code has 16 and 32 bits: TLC's
  integers are too small for the real ones. The GDT's descriptors have their real bits; the limit
  0xffffffff is written -1, which has the same low bits.
- A page table is a name with the entries that are written; the present and write bits are in
  every one of the code's entries but for those of `initPaging`'s upper levels without the write bit,
  which makes no difference to ring 0 as long as CR0.WP is 0, as it stays.
- Integer types in `Printf` have 2 to 8 bits, in the proportions of the two compilers: stage 2 passes
  `long long` in two words and divides in software, the kernel passes everything in one. The bits
  of a stack word above a narrower argument are 0.
- A key is its scan code; a typed character is a scan code and a shift state. The tables
  `scancodeMap` and `numShiftMap`, and the `ascii-32` used for shifted letters and punctuation,
  are data.
- The console's colours are constant. Cursor and `int` positions stay far below overflow.
- The 8259 is modelled with edge-triggered requests, fixed priorities, non-specific end of interrupt
  and spurious interrupts. A request that is latched may or may not disappear when port 60h is read.
- An interrupt's effect on registers is the set of registers that `irq_handler` certainly writes
  (arguments and the scratch registers of `outb`), minus those pushed.

### Taken as given

Each module names what it assumes of its constants; TLC evaluates the assumptions on the runs, and
the theorems hold for all constants that satisfy them.

| assumption | says | why |
|---|---|---|
| `DiskAssumption`, `BootAssumption` | geometries within 1024, 256 and 63; drives and error codes are bytes; stage 2 lies below 64 KiB | what int 13h can report; `boot/stage2`'s linker script |
| `FatAssumption` | a sector is a whole number of directory entries, at least one handle | 512 and 32 bytes, ten handles |
| `NameAssumption` | base and extension are not empty and fit in `name` | 8 and 3, 256 bytes |
| `VolumeAssumption` | the table is packed as FAT12 prescribes; every entry's chain starts at its first cluster, is linked by the table's entries, ends with an end mark and is long enough for the size; a directory's size is 0 | what `mkfs.fat` and `mcopy` write, and FAT prescribes; the root directory, table and data may have any size and the files may be scattered anywhere |
| `ClientAssumption`, `Stage2Assumption` | paths have a component, none with a NUL inside it or longer than `name`; the load buffer is a multiple of the sector and two sectors at least | C strings; nothing checks the length, and stage 2's path is a constant; 64 KiB in `main.c` |
| `DirectoryAssumption` | the root directory is not empty, no directory holds a name twice, directories lie at LBAs from 0 | what `mkfs.fat` and `mcopy` write; only `OpenCorrectFresh` needs it |
| `ImageAssumption` | the kernel's entry is a file, and a file has no cluster more than it fills | the makefile's `mcopy` on a fresh image; only `FaultIffShortTail` and the handling of directories need it |
| `MemDetectAssumption` | blocks of at most 24 bytes; the upper half of CR0 has its highest bit clear | E820; paging is off in stage 2 |
| `PrintfAssumption` | types have at least a bit, an `int` and a pointer take one word | both compilers |
| `CallsAssumption` | the items of a call read as what they are: no `%` or NUL as a character, no specifier that would read as a longer length, an unfinished directive only at the end | any format splits into such items |
| `KernelAssumption`, `DescriptorAssumption`, `LayoutAssumption`, `ConsoleAssumption` | sizes and addresses | see the modules |

Beside these: the linker puts the stack's top below 2 MiB (`StackPage = 0`, `LayoutAssumption`) and all four
tables of `pager.c` on 4 KiB boundaries, although two ask for 32 bytes; memory behind the kernel's image
is zero, as QEMU's is, since nothing clears `.bss`; `-number` wraps for the least `long long`; a client of
`fat.c` reads and closes only what `FAT_Open` gave it.

## The runs

| run | question | bounds |
|---|---|---|
| `Disk` | Does a zero return mean the right sectors, in at most three attempts? | floppy and 1024/16/63 disk, drives 0 and 80h, requests of 1 and 9 sectors at track, head and cylinder edges (255/256, 511, 1023) |
| `DiskReset` (violated) | Is a retry made on a drive that was reset? | same, one error code |
| `FatClient` | Are bytes, handles and results right for any client? | two handles, three opens, reads of 3 and 9 bytes, one failed disk read anywhere, three volumes with scattered files, a subdirectory, clusters of one and two sectors, names of 2 + 1 characters with and without extension |
| `FatReopen` (violated) | Does an open find what is there, after any history? | same, no failed read |
| `Stage2` | Is the kernel in memory the file, and the memory map what the BIOS lists? | every size from 1 to 40 bytes with 4-byte sectors and a 16-byte load buffer, two failed reads; lists of 1 to 4 blocks for an array of two, both ways a BIOS ends its list, calls that fail at any time and may succeed again |
| `Stage2Divide` (violated) | Is a sound kernel loaded? | same |
| `Kernel` | Are interrupts delivered and ended, vectors valid, what is typed printed, `putc` exclusive, and does `main` arrive? | three bytes of a letter and of both shift keys, an 8042 of any speed, two other interrupts, the masks a PC BIOS leaves, `main`'s argument in a page that stays mapped and in one that does not |
| `KernelReads` (violated) | Are the two reads of port 60h of one byte? | two bytes of a letter key, no other interrupt |
| `KernelRegisters` (violated) | Does an interrupt leave registers alone? | one byte, one other interrupt |
| `Console` | Is the screen a window on a teletype? | 2 rows of 5 columns, nine calls |
| `Printf` | Is what a caller means what is printed, by both parsers? | every conversion with every length at the least, greatest and a middle value, in every ordered pair, and every unfinished directive behind each; both ABIs |
| `Boot` | Does stage 2 start with its sectors loaded and A20 open? | three geometries, two drives, failing reads and resets, two key presses at any time |

The bounds are chosen so that every boundary is crossed: 40 bytes are ten sectors and three load
buffers; nine calls fill the 2 by 5 screen from a tab and scroll it several times, and 5 columns
make tabs meet the line end at every offset; a list of 4 is twice the array. Three bytes
are enough for one shift key down, the other let go (it may have been down before the kernel started)
and a letter, and for a byte in the keyboard, one in the output buffer and one between the handler's
two reads, with a timer or RTC interrupt between any two port accesses. A slip in `printf`'s state shows in the directive after it, hence pairs. Where a bound
could hide something (geometry, screen size, number of interrupts or bytes, addresses) the property is
proved for all values.

### What the properties say

- `SuccessMeansData`, `IsBlockDevice`: an LBA survives division, packing and the BIOS's unpacking; no
  failed attempt is reported as success; retries are invisible and finite.
- `Drive0RetryAfterReset`: what is left of the retry's promise with the wrong reset: it holds on drive 0.
- `ReadCorrect`, `BufferCoherent`, `NoHandleLeak`, `OpenCorrectFresh`, `CallsReturn`: interleaved reads of
  several files deliver each file's bytes; the read-ahead buffer belongs to the position between
  calls; no failed or successful path leaks a handle; opens are right as long as the root's buffer
  holds its first sector and the names fill their base or their extension (`Settled`), as `kernel.bin`
  does; calls return.
- `LoadedImageCorrect`, `DamageBounded`, `FaultIffShortTail`, `BootEnds`: the image is the file; a failed
  read spoils at most a sector of it and never shifts the rest; the loader divides by zero exactly
  for the kernels `ShortTail` describes; loading ends.
- `InOrder`, `OverrunOnlyIf`, `AllButLast`: blocks are stored in order; the array overruns only for long
  lists or after a failing call; the last block of a list is never stored.
- `EoiBalanced`, `VectorsRemapped`: after a handler neither chip has a line in service, cascade and
  spurious line 7 included; no interrupt number is outside 32 to 47.
- `DeliveryRight`: whenever interrupts are on, each gate leads to its stub through 64-bit code of ring
  0 in the GDT that is loaded, `iretq` returns to such a segment, and code, IDT, stack and screen are
  mapped where they are used, before `initPaging` replaces the tables and after.
- `TypedRight`: bytes are read once and in order (`NothingLost`), and what is printed is what was typed,
  for any pace of the 8042, until a byte comes between the two reads of another (`mixed`, a history
  variable that no action reads). One `capsOn` stands for two shift keys: letting one of them go ends
  shifting though the other is held (`LetGo`), and otherwise a character is shifted exactly when a
  shift key is held (`Shifted`).
- `DeafOnlyIfEarly`, `KeysHandled`: at any pace, mixed bytes included, every byte is taken out of the 8042, and
  the keyboard can fall silent only through one that arrives before `initKeyboard`, since the handler then
  acknowledges IRQ 1 without reading port 60h.
- `ConsoleExclusive`: the handler prints only when `main` no longer does.
- `MainArrives`: `main` gets through its initialisation and messages to the hlt loop, under any
  interrupts, exactly if what stage 2 left in `edi` is an address below 2 MiB.
- `IsTeletype`, `HwCursorMatches`: scrolling, wrapping, tabs and backspaces lose, move or invent
  nothing.
- `ConversionsRight`, `PrintfRight`, `VprintfAgrees`: each argument is fetched at its type's width and
  printed as the numeral place value defines, through the bitwise division of stage 2; a whole call
  prints its items one after the other, and no directive's length or argument reaches the next; the
  logger's second parser agrees with the first but for the directives `ReadDifferently` names.
- `RetryAfterReset`, `A20Open`, `HandshakeClean`, `LoadIsBlockDevice` of the boot sector: the sound
  counterpart of the disk driver's retry; A20 is open when stage 2 starts; the 8042 is left clean
  unless a scan code was waiting when the keyboard was disabled.

### Fairness

Stage 2 and the boot sector are straight-line code: the CPU executes and every BIOS
call returns, hence weak fairness of their steps (`Disk` needs it only inside a request, `FatClient`
only inside a call: a client need not call). In `Boot`, the 8042 eventually works off its input
buffer and answers, a second weak fairness; key presses and the BIOS have none. In `Kernel`, weak
fairness of `main`, of the handler, of the CPU accepting a pending interrupt and of the 8042
delivering the next byte; keys, timer, RTC and spurious interrupts have none, and neither has the
page fault, which only repeats. No strong fairness is assumed. `Console` and `Printf` are checked for
safety only. Deadlock checking is off everywhere, since every run has proper ends (kernel started,
halt, crash, call returned, call bound reached).

## Disagreements with the code

The five violated runs are listed under `findings`: the reset of the wrong drive (`x86.asm:74`), the root's
stale buffer (`fat.c:321`), the divide error of the progress bar (`fat.c:297`), the registers
`pushall` leaves out (`idt.asm:87`) and the two reads of port 60h (`keyboard.c:127`). In `FatReopen` the file opened
first is the last entry of the root's first sector: taking it reads the second sector into the
root's buffer, and the next search begins there. In `KernelRegisters` the interrupt is accepted right
after `sti`, before `initPaging`; any later one changes the same registers. In `KernelReads` a key is
released before its press has been read twice, and the press is taken for a release. The passing
runs state what holds nevertheless. The model has more that no document of the repository contradicts, and
that the properties are worded around:

- a backspace in the top left corner writes outside the text buffer (`putc.c:41-49`): `Backspace` sets
  `dead`, the teletype's `Die`;
- the last E820 block is dropped (`memdetect.c:18`), and an error of `E820NextBlock` comes back positive,
  since `enterProtectedMode` restores 16 bits (`x86.asm:34`): `AllButLast` and the disjunct `Failing` of
  `InOrder`; the array of blocks is gone when the kernel starts (`memdetect.c:34`): `FrameLost`;
- the terminator of a path's component lies one byte too far (`fat.c:190`), so that a short name
  takes along a byte of the stack: `Leftovers`, and `Settled` in the properties of opens;
- `initIDT` saves both masks from the master and leaves the slave with the master's (`idt.c:25`, against its
  comment at line 39): `ReadMasks`;
- `main` is entered without its argument in `rdi` (`prekernel.asm:45`); if what stage 2 left there lies
  outside the pages `initPaging` keeps, `main` faults before its first message, and `isr_handler` returns
  to the same instruction for ever: `PageFault`, and the condition in `MainArrives`;
- two shift keys share one `capsOn` (`keyboard.c:133`): `LetGo` in `TypedRight`;
- a scan code waiting in the 8042 is taken for the output port (`boot.asm:126`); written back with an
  even value it pulls the reset line: `stale` in `HandshakeClean`;
- `cmain` goes on with a NULL file and after read errors: `wild` and `DamageBounded`;
- a tab's loop bound shrinks as it prints (`putc.c:37`), so that it stops half way to the tab stop;
- `vprintf` prints a `%` at the end of a format, drops `%c`, `%s` and `%%` with a length without taking
  the argument, and steps over the terminating NUL of a format that ends after a length
  (`vprintf.c:95`): `ReadDifferently` and the last disjunct of `Printf`'s `TypeOK`.

## The proofs

Every theorem is for all values of the constants that satisfy the assumptions above: any volume, file,
geometry, screen, list of blocks, byte sequence, and any number of failures, calls or interrupts.

**`DiskProofs`.** `TypeCorrect` and `ReadCorrect`: `TypeOK` is strengthened to say that the `DISK` struct is
the drive's geometry; with it the two conversions round-trip (`GeometryRoundTrip`, `LbaRoundTrip`, over
division lemmas), so that a successful attempt transfers the sectors requested. The inductive
invariant is `TypeOK /\ SuccessMeansData`. `ResetsDrive0` adds that on drive 0 no error is pending when an
attempt starts. `ImplementsBlockDevice` is the safety half of `IsBlockDevice`: the attempts and resets are
stutters of `BlockDevice`, and the last attempt is its `Answer`.

**`BootProofs`.** `RetriesAfterReset`, `GateOpen`, `CleanHandshake` and the type invariant, for any number of
key presses. `BootInv` adds to `TypeOK` what is in the 8042's input buffer after each of the seven
accesses of `EnableA20` (`HandshakeOK`) and, unless a scan code was stale, that the output buffer is
the handshake's own from Disable to Enable and that bit 0 of the port travels through `al`
unchanged (`CleanOK`). One lemma per access and one per step of the 8042. `ImplementsBlockDevice`: loading
stage 2 is one request of `BlockDevice`; it needs that nothing is loaded before the request
(`FreshMemory`).

**`FatDriverProofs`.** Operators first: `NextClusterDecodes` (of a table packed as FAT12 prescribes,
`FAT_NextCluster` returns the entry, which every proof about chains rests on), `FatReadFits` (the guard in `FAT_Initialize` keeps the table below the
load buffer) and `DataSectionRight` (the data section is where a count of the root's sectors puts it).
Then `DriverOK`, kept by every step of the driver whoever calls it. The properties of reads are not
inductive: in the middle of a call the buffer, the cluster, the sector in the cluster and the position
have to belong together. `Tracks` says that the cluster is the one of the file's chain in which the
position lies, or that the file has been used up; `Right` that the buffer is the position's sector;
`Reading` that what was delivered so far are the file's bytes up to the position, and that what is left
makes up what was `Wanted`. `IterateFile`, `IterateRoot` and `IterateDirectory` follow one iteration of the loop over the
sector, the cluster and the end of the chain.

**`FatClientProofs`.** `TypeCorrect`, `HandlesComeBack`, `BuffersCoherent`, `ReadsCorrect` and `OpensCorrect`, for any client. `ClientInv` is
`DriverOK` and, for every handle held, `Tracks` and, unless a read of it failed, `Right` (`HeldAt`), so that a
read of one file needs to know nothing of the others; `HandlesOK` says which handles are taken at each
place of `FAT_Open`: while a subdirectory is searched, its handle is the one that is taken and not held.
`OpensCorrect` is `OpenCorrectFresh`, with `SearchInv` beside `ClientInv`: the root directory is at its beginning
whenever it is not searched (`RootRests`), what is left of the path is its end (`CallKept`), and, for the opens the
property judges, the directory that is searched is the one the components so far lead to and none
of the entries the search has passed has the name, unless a read failed (`OnTheWay`).

**`Stage2Proofs`.** First the memory map (`StoredInOrder`, `OverrunsOnlyIf`, `StoresAllButLast`): `DetectInv` relates
block, continuation and list at the loop's two places, and, for a list without failures, counts them.
Then the loader (`TypeCorrect`, `ImageCorrect`, `DamageLimited`, `FaultsIffShortTail`), with `LoaderInv`:

- `Places`, `Seeking` and `AtKernel` tie cmain's place to the driver's, and the handle to the kernel's entry.
- The bound on the damage is not inductive by itself: a failed read does its damage later, when the
  buffer is copied. `Owed` is what a wrong buffer will still spoil, the rest of its sector; `Damage` bounds
  wrong bytes and owed ones together, and a copy moves bytes from the second to the first.
- The divide error depends on where in the file a call of `FAT_Read` begins and on how much it still has
  to deliver. `Aligned` says that without failures a call begins at a multiple of the load buffer, or at
  the end of a file that has no short tail; `BarOK` that the divisor is set behind the first sector and
  only in a call that wants at least two. `ShortTail` is then the condition under which the one iteration
  that sets it finds less than a sector left and the chain not ended.

**`KernelProofs`.** `EveryIrqEnded` and `VectorsInBounds` are not inductive: the first needs to know what is in
service at each step of the handler (`InService`) and the second where the PIC program has brought
each chip (`ProgramOK`) and that interrupts are on only after it (`InterruptsOK`). `InterruptInv` is their
conjunction with `TypeOK`; it is preserved by `main`'s steps, the hardware's, the acceptance of an
interrupt and the handler's, one lemma each. `GateDecodes`: the three parts of a gate's offset are the
address again, for every address and word size; the descriptors of both GDTs decode to the segments
meant (`SegmentsDecode`). `InterruptsDelivered` is `DeliveryRight`, wherever the linker puts stubs and image:
`CpuOK` ties the GDT, the segment and the tables to main's progress, interrupts are on only after the GDT
and the gates are loaded (from `InterruptInv`), and the lemmas about descriptors and a walk through each
set of tables do the rest.

Its last part is about the keyboard: `EveryByteRead`, `TypesRight`, `SilentOnlyIfEarly` and `PrintsAlone`, for
every byte sequence, both shift keys included, and every pace of the 8042. `KeyInv` says that a byte in
the output buffer is requested, being served or in the handler's way to the second read, or came early,
and, as long as nothing is mixed, that a request of line 1 stands for such a byte (`LineOK`); and that
a routine is installed only when `main` has printed (`RoutineOK`). `SilentOnlyIfEarly` needs only the
unconditional part: the second read empties the buffer whatever is in it. `TypesRight` relates two
sequences, the bytes taken and the characters typed, so each step extends one of them or both:
`TypedInv` says that between the two reads of port 60h the last byte is taken and not yet typed, and
that `capsOn` is the shift state after the bytes before it; `ShiftFollows` is the step of that state.

**`PrintfProofs`.** `StaysInCall`, `ParsersAgree` and `PrintsRight`, for formats of any length, any ABI that
satisfies the assumptions and whatever the conversions print. First an induction over the
numbers, with a set where the library's theorem has an operator, and from it `FlattenSeq` and where
the k-th item's characters and words lie (`TextPositions`, `WordPositions`). `PrintfInv` says that
printf has read some items and up to three characters of the next one, that state and length are
those of these characters, that the next argument is that item's and that the output is what the items before it
print (`Laid`). `VprintfInv` says the same between two directives, or behind one cut short, as long as no
item was one of those that are read differently. `PrintsRight` is
`[](ConversionsRight => PrintfRight)`.

**`ConsoleProofs`.** `ConsoleInv` adds to the type invariant and the cursor that a tab's loop runs only on a
live screen and how many lines a call can add (`LinesBounded`, which keeps the paper long enough).
`ConsoleIsTeletype` is the refinement: initial states map to initial states, each call to a teletype
step or a stutter; scrolling is the case that needs `ScrollKeepsPaper`.

### Only model-checked

- `ConversionsRight`: numerals are defined by recursion over digits, and so is stage 2's division, both in
  powers of two, for which the provers have no axioms. `PrintsRight` takes it as its hypothesis, so
  that what stays with TLC is one conversion at a time and not the parser.
- Liveness (`CallsReturn`, `BootEnds`, `KeysHandled`, `MainArrives` and the temporal half of the two refinements of `BlockDevice`):
  the prover has no means for fairness and `ENABLED`.

## Plan

What is left, in this order:

1. `Kernel` with `Console`, so that a key press is followed to the screen.
2. Exceptions besides the page fault, and what `isr_handler` prints while an interrupt is pending.

## Not modelled

- `pit.c`: `initPIT` is never called. `memory/manager.c`: empty functions; `doc/memory.md` is a design.
- `writeTSS` and `tss_flush` in `gdt.c`, `addPage` in `pager.c`, `irq_uninstall_handler` in `idt.c`: never
  called, or empty.
- What `isr_handler` prints, exceptions other than the page fault at `bootParams`, NMI.
- `getVendorId` and the mode switches of `x86.asm`: the first feeds a message, the second is straight-line
  code on registers; the thunks are modelled by what they pass and return.
- `logger.c`, string, character and port helpers: no state of their own, taken as the operations
  they name.
- `floppycopy`, makefiles, linker scripts, `main.asm`: building the image.
