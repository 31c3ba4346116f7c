------------------------------ MODULE FatName ------------------------------
(***************************************************************************)
(* The names FAT_Open takes out of a path and FAT_FindFile turns into the  *)
(* form directory entries have (fat.c): the base padded to BASE            *)
(* characters, the extension to EXT, both in upper case.                   *)
(*                                                                         *)
(* FAT_Open ends a name one byte too far, at name[len + 1].  The byte      *)
(* name[len] is what an earlier component left there or, never written,    *)
(* what the stack held: one of Residues.                                   *)
(***************************************************************************)
EXTENDS Integers, Sequences

CONSTANTS
  BASE, EXT,      \* 8 and 3
  MAX_PATH_SIZE,  \* bytes of FAT_Open's name
  Residues        \* what a byte of FAT_Open's stack may hold before it is written

ASSUME NameAssumption ==
  /\ {BASE, EXT} \subseteq Nat \ {0}
  /\ MAX_PATH_SIZE \in Nat /\ MAX_PATH_SIZE > BASE + EXT + 2

\* name is an array of bytes; one not yet written is Unset.
NameBytes == 0 .. MAX_PATH_SIZE - 1
Unset     == "unset"
NoName    == [i \in NameBytes |-> Unset]

\* name[len] before it is read: written earlier, or one of the residues.
Leftovers(name, len) == IF name[len] = Unset THEN Residues ELSE {name[len]}

\* FAT_Open's memcpy and terminator, the byte between them being r.
Extracted(name, component, r) ==
  LET len == Len(component)
  IN  [i \in NameBytes |-> CASE i < len     -> component[i + 1]
                             [] i = len     -> r
                             [] i = len + 1 -> "NUL"
                             [] OTHER       -> name[i]]

UpperOf == [a |-> "A", b |-> "B", c |-> "C", d |-> "D", e |-> "E", f |-> "F",
            k |-> "K", x |-> "X"]
toupper(c) == IF c \in DOMAIN UpperOf THEN UpperOf[c] ELSE c

\* The bytes first to i of a string are all before its NUL.
Reaches(name, first, i) == \A j \in first .. i : name[j] # "NUL"

\* strchr(name, '.'), or the place that stands for no extension.
Ext(name) ==
  LET dots == {i \in NameBytes : Reaches(name, 0, i) /\ name[i] = "."}
  IN  IF dots = {} THEN BASE + EXT ELSE CHOOSE i \in dots : \A j \in dots : i <= j

\* fatName, counted from 1.
FatNameOf(name) ==
  LET ext == Ext(name)
  IN  [i \in 1 .. BASE + EXT |->
         IF i <= BASE
         THEN IF Reaches(name, 0, i - 1) /\ i - 1 < ext THEN toupper(name[i - 1]) ELSE " "
         ELSE IF ext # BASE + EXT /\ Reaches(name, ext + 1, ext + i - BASE)
              THEN toupper(name[ext + i - BASE]) ELSE " "]

-----------------------------------------------------------------------------
(* What a component means (external): the name mkfs.fat's tools give it.   *)

Dots(component) == {i \in DOMAIN component : component[i] = "."}

Padded(s, n) == [i \in 1 .. n |-> IF i <= Len(s) THEN toupper(s[i]) ELSE " "]

ShortName(component) ==
  IF Dots(component) = {}
  THEN Padded(component, BASE) \o Padded(<<>>, EXT)
  ELSE LET dot == CHOOSE i \in Dots(component) : \A j \in Dots(component) : i <= j
       IN  Padded(SubSeq(component, 1, dot - 1), BASE)
             \o Padded(SubSeq(component, dot + 1, Len(component)), EXT)

\* The conversion stops before the byte behind the name: a full base without an
\* extension, or a full extension.
Settled(component) ==
  IF Dots(component) = {}
  THEN Len(component) = BASE
  ELSE \A dot \in Dots(component) : Len(component) - dot = EXT /\ dot <= BASE + 1
=============================================================================
