---------------------------- MODULE AddressSpace ----------------------------
(***************************************************************************)
(* The kernel's two sets of page tables, prekernel.asm's and those of      *)
(* memory/pager.c, and the walk the CPU (external) makes through them.     *)
(* Pages have 2 MiB.  A virtual page is its three indices, a physical page *)
(* its number; an entry is the name of the next table, or a page.  Tables  *)
(* have the entries that are written: the others are zero, in pager.c as in*)
(* prekernel.asm, like all of the kernel's memory behind its image.  Every *)
(* table is taken to start on a 4 KiB boundary: pager.c asks for 32 bytes  *)
(* for two of the four.                                                    *)
(***************************************************************************)
EXTENDS Integers

CONSTANTS
  ImagePages,  \* physical pages of the kernel's code and data (from 1 MiB on)
  StackPage    \* physical page of the stack, below stack_top

\* initPaging keeps only the first page at its physical address, and the stack is
\* used there: its top has to lie below 2 MiB.
ASSUME LayoutAssumption == ImagePages \subseteq 0 .. 511 /\ StackPage = 0

Index == 0 .. 511

\* prekernel.asm: the first GiB at 0 and at 0xffffffffc0000000.
InitTables ==
  [ top     |-> [i \in {0, 511} |-> IF i = 0 THEN "init_page_dir_tab" ELSE "kern_page_dir_tab"],
    middle  |-> [t \in {"init_page_dir_tab", "kern_page_dir_tab"} |->
                   IF t = "init_page_dir_tab" THEN [i \in {0} |-> "init_page_dir"]
                                              ELSE [i \in {511} |-> "init_page_dir"]],
    bottom  |-> [t \in {"init_page_dir"} |-> [i \in Index |-> i]] ]

\* Faulty variant: the entry of the first page is the second of its table.
PagerTables_OffByOne ==
  [ top     |-> [i \in {0, 511} |-> "pageDirTab"],
    middle  |-> [t \in {"pageDirTab"} |->
                   [i \in {0, 511} |-> IF i = 0 THEN "basePageDir" ELSE "kernelPageDir"]],
    bottom  |-> [t \in {"basePageDir", "kernelPageDir"} |->
                   IF t = "basePageDir" THEN [i \in {1} |-> 0] ELSE [i \in Index |-> i]] ]

\* initPaging: the first page at 0, the first GiB at 0xffffffffc0000000.
PagerTables ==
  [ top     |-> [i \in {0, 511} |-> "pageDirTab"],
    middle  |-> [t \in {"pageDirTab"} |->
                   [i \in {0, 511} |-> IF i = 0 THEN "basePageDir" ELSE "kernelPageDir"]],
    bottom  |-> [t \in {"basePageDir", "kernelPageDir"} |->
                   IF t = "basePageDir" THEN [i \in {0} |-> 0] ELSE [i \in Index |-> i]] ]

\* The page maps to that physical page.
MapsTo(tables, l4, l3, l2, physical) ==
  /\ l4 \in DOMAIN tables.top
  /\ LET middle == tables.middle[tables.top[l4]]
     IN  /\ l3 \in DOMAIN middle
         /\ LET bottom == tables.bottom[middle[l3]]
            IN  l2 \in DOMAIN bottom /\ bottom[l2] = physical

\* linker.ld: .kinit runs where it is loaded, the rest of the kernel 0xffffffffc0000000
\* higher.  The stack and the screen are used at their physical addresses.
KernelAddresses(tables) == \A p \in ImagePages : MapsTo(tables, 511, 511, p, p)
LowAddresses(tables)    == \A p \in {0, StackPage} : MapsTo(tables, 0, 0, p, p)
=============================================================================
