------------------------------ MODULE MCPrintf ------------------------------
(***************************************************************************)
(* Calls of printf with up to two items and, behind them, a directive left *)
(* unfinished: every conversion with every length, at the least, the       *)
(* greatest and a middle value of its type.                                *)
(***************************************************************************)
EXTENDS Printf

Stage2Abi == [word |-> 4, char |-> 2, short |-> 3, int |-> 4, long |-> 4, longlong |-> 8]
KernelAbi == [word |-> 8, char |-> 2, short |-> 3, int |-> 4, long |-> 8, longlong |-> 8]

MCAbis    == {Stage2Abi, KernelAbi}
MCStrings == << <<>>, <<"s", "%", "d">> >>
MCGlyphs  == <<"A", "B", "C", "D">>

Bits(a, l) == CASE l = "hh" -> a.char [] l = "h" -> a.short [] l = "none" -> a.int
                [] l = "l" -> a.long [] l = "ll" -> a.longlong

Write(k, l, c, v) == [kind |-> k, length |-> l, conv |-> c, value |-> v]

Directives(a, l) ==
  LET top == 2 ^ Bits(a, l)
  IN  {Write("directive", l, "d", v) : v \in {-(top \div 2), -1, (top \div 2) - 1}}
 \cup {Write("directive", l, c, v) : c \in {"u", "x", "o"}, v \in {0, top - 1} \cup ({10} \cap 0 .. top - 1)}
 \cup {Write("directive", l, c, 1) : c \in {"i", "X", "p", "c"}}
 \cup {Write("directive", l, "s", 2), Write("directive", l, "%", 0), Write("directive", l, "z", 0)}

Items(a) ==
  {Write("char", "none", "z", 0), Write("directive", "none", "s", 1)}
    \cup UNION {Directives(a, l) : l \in DOMAIN Lengths}

Endings == {<<>>} \cup {<<Write("unfinished", l, "", 0)>> : l \in DOMAIN Lengths}

MCCalls == [a \in MCAbis |->
  {s \o e : s \in {<<>>} \cup {<<i>> : i \in Items(a)}, e \in Endings}
    \cup {<<i, j>> : i \in Items(a), j \in Items(a)}]
=============================================================================
