------------------------------- MODULE Printf -------------------------------
(***************************************************************************)
(* printf, vprintf and puts (libc/stdio).  printf walks over its format    *)
(* one character at a time with a state of its own; vprintf, which the     *)
(* logger uses, is a second parser that hands each directive to printf.    *)
(*                                                                         *)
(* A caller writes a format of items: a character to print, a directive    *)
(* with its argument, or a directive left unfinished at the end.  Text is  *)
(* the format the two parsers see and Words the argument words, pushed as  *)
(* the ABI of stage 2 or of the kernel does; Rendered says what the caller *)
(* means.  Integer types have a few bits each.                             *)
(***************************************************************************)
EXTENDS Integers, SequencesExt

CONSTANTS
  Abis,     \* the two compilers' widths, in bits: [word, char, short, int, long, longlong]
  Calls,    \* what a caller may write, as a sequence of items, for an ABI
  Strings,  \* the strings %s may point at; a pointer is an index
  Glyphs    \* the characters, by code

\* An int or a pointer takes one word.
ASSUME PrintfAssumption ==
  \A a \in Abis :
    /\ {a.word, a.int, a.long, a.longlong} \subseteq Nat \ {0}
    /\ a.int <= a.word
    /\ a.longlong % a.word = 0

Lengths == [none |-> <<>>, hh |-> <<"h", "h">>, h |-> <<"h">>, l |-> <<"l">>, ll |-> <<"l", "l">>]

\* A character to print is its item's conv.
Item == [kind : {"char", "directive", "unfinished"}, length : DOMAIN Lengths, conv : STRING,
         value : Int]

\* The specifiers that would read as a longer length.
Extends(l) == CASE l = "none" -> {"h", "l"} [] l \in {"h", "l"} -> {l} [] OTHER -> {}

\* An item means what it says, and only the last one may be unfinished.
WellWritten(s) ==
  /\ s \in Seq(Item)
  /\ \A k \in DOMAIN s :
       CASE s[k].kind = "char"       -> s[k].conv \notin {"%", "NUL"}
         [] s[k].kind = "directive"  -> s[k].conv \notin Extends(s[k].length) \cup {"NUL"}
         [] s[k].kind = "unfinished" -> k = Len(s)

ASSUME CallsAssumption == \A a \in Abis : \A s \in Calls[a] : WellWritten(s)

VARIABLES
  abi, items,                      \* the call
  at, state, length, arg, out,     \* printf: its place in the format and in the words
  vat, varg, vout                  \* vprintf

printfVars  == <<at, state, length, arg, out>>
vprintfVars == <<vat, varg, vout>>
vars        == <<abi, items, printfVars, vprintfVars>>

-----------------------------------------------------------------------------
(* Numbers. *)

Digit == <<"0", "1", "2", "3", "4", "5", "6", "7", "8", "9", "a", "b", "c", "d", "e", "f">>

\* Faulty variant: the divisor is not subtracted from a remainder equal to it.
Subtract_Strict(quotient, remainder, b, weight) ==
  IF remainder > b
  THEN [quotient |-> quotient + weight, remainder |-> remainder - b]
  ELSE [quotient |-> quotient, remainder |-> remainder]

Subtract(quotient, remainder, b, weight) ==
  IF remainder >= b
  THEN [quotient |-> quotient + weight, remainder |-> remainder - b]
  ELSE [quotient |-> quotient, remainder |-> remainder]

\* __udivdi3 and __umoddi3 on N bits: one bit of a after the other, from the highest.
Divided(N, a, b) ==
  LET turn[i \in 0 .. N] ==
        IF i = 0 THEN [quotient |-> 0, remainder |-> 0]
        ELSE LET shifted == 2 * turn[i - 1].remainder + ((a \div 2 ^ (N - i)) % 2)
             IN  Subtract(turn[i - 1].quotient, shifted % 2 ^ N, b, 2 ^ (N - i))
  IN  turn[N]

\* N is the width of long long.
printf_unsigned(N, number, radix) ==
  LET digits[n \in Nat] ==
        LET d    == Divided(N, n, radix)
            last == <<Digit[d.remainder + 1]>>
        IN  IF d.quotient = 0 THEN last ELSE digits[d.quotient] \o last
  IN  digits[number]

\* -number is taken in that width.
printf_signed(N, number, radix) ==
  IF number < 0
  THEN <<"-">> \o printf_unsigned(N, (-number) % 2 ^ N, radix)
  ELSE printf_unsigned(N, number, radix)

-----------------------------------------------------------------------------
(* Formats and arguments, as a caller writes them. *)

Unsigned == {"u", "x", "X", "p", "o"}
Signed   == {"d", "i"}

ItemText(i) ==
  CASE i.kind = "char"       -> <<i.conv>>
    [] i.kind = "directive"  -> <<"%">> \o Lengths[i.length] \o <<i.conv>>
    [] i.kind = "unfinished" -> <<"%">> \o Lengths[i.length]

TypeBits(l) ==
  CASE l = "l" -> abi.long [] l = "ll" -> abi.longlong [] OTHER -> abi.int

\* A directive's type: what a caller passes and what va_arg is asked for.
ArgBits(i) ==
  IF i.kind # "directive" THEN 0
  ELSE CASE i.conv \in Signed \cup Unsigned -> TypeBits(i.length)
         [] i.conv = "c"                    -> abi.int
         [] i.conv = "s"                    -> abi.word
         [] OTHER                           -> 0

WordsOf(bits) == (bits + abi.word - 1) \div abi.word

\* The words pushed for a value, lowest first; the part of a word above the type is 0.
ItemWords(i) ==
  LET n == i.value % 2 ^ ArgBits(i)
  IN  [k \in 1 .. WordsOf(ArgBits(i)) |-> (n \div 2 ^ (abi.word * (k - 1))) % 2 ^ abi.word]

Text  == FlattenSeq([k \in DOMAIN items |-> ItemText(items[k])])
Words == FlattenSeq([k \in DOMAIN items |-> ItemWords(items[k])])

-----------------------------------------------------------------------------
(* printf *)

\* Reading past the arguments gives what lies there; no property looks at it.
Word(k) == IF k \in DOMAIN Words THEN Words[k] ELSE 0

\* va_arg for a type of so many bits, from word k on.
VaArg(k, bits, signed) ==
  LET u == IF WordsOf(bits) = 1 THEN Word(k) % 2 ^ bits
                                ELSE Word(k) + (2 ^ abi.word * Word(k + 1))
  IN  IF signed /\ u >= 2 ^ (bits - 1) THEN u - 2 ^ bits ELSE u

Radix(conv) == CASE conv \in {"x", "X", "p"} -> 16 [] conv = "o" -> 8 [] OTHER -> 10

Number(k, l, conv) ==
  LET value == VaArg(k, TypeBits(l), conv \in Signed)
  IN  IF conv \in Signed THEN printf_signed(abi.longlong, value, Radix(conv))
                         ELSE printf_unsigned(abi.longlong, value, Radix(conv))

puts(pointer) == IF pointer \in DOMAIN Strings THEN Strings[pointer] ELSE <<>>

Char(code) == Glyphs[(code % Len(Glyphs)) + 1]

\* What a conversion prints.
Printed(k, l, conv) ==
  CASE conv \in Signed \cup Unsigned -> Number(k, l, conv)
    [] conv = "c" -> <<Char(Word(k))>>
    [] conv = "s" -> puts(Word(k))
    [] conv = "%" -> <<"%">>
    [] OTHER      -> <<>>

\* The output o and behind it what a conversion prints; an invalid specifier is ignored.
Output(o, k, l, conv) ==
  IF conv \in Signed \cup Unsigned \cup {"c", "s", "%"} THEN o \o Printed(k, l, conv) ELSE o

\* Faulty variant: a long long is taken for one word on either ABI.
Taken_OneWord(l, conv) ==
  IF conv \in Signed \cup Unsigned \cup {"c", "s"} THEN 1 ELSE 0

\* The words a conversion takes.
Taken(l, conv) ==
  CASE conv \in Signed \cup Unsigned -> WordsOf(TypeBits(l))
    [] conv \in {"c", "s"} -> 1
    [] OTHER -> 0

Init ==
  /\ abi \in Abis
  /\ items \in Calls[abi]
  /\ at = 1 /\ state = "normal" /\ length = "none" /\ arg = 1 /\ out = <<>>
  /\ vat = 1 /\ varg = 1 /\ vout = <<>>

\* Faulty variant: the length outlives its directive.
Specifier_KeepsLength ==
  /\ out' = Output(out, arg, length, Text[at])
  /\ arg' = arg + Taken(length, Text[at])
  /\ state' = "normal"
  /\ UNCHANGED length

\* The label PRINTF_STATE_SPEC_.
Specifier ==
  /\ out' = Output(out, arg, length, Text[at])
  /\ arg' = arg + Taken(length, Text[at])
  /\ state' = "normal"
  /\ length' = "none"

LengthIs(l, next) ==
  /\ length' = l
  /\ state' = next
  /\ UNCHANGED <<arg, out>>

Normal ==
  /\ state = "normal"
  /\ IF Text[at] = "%"
     THEN state' = "length" /\ UNCHANGED out
     ELSE out' = Append(out, Text[at]) /\ UNCHANGED state
  /\ UNCHANGED <<length, arg>>

Length ==
  /\ state = "length"
  /\ CASE Text[at] = "h" -> LengthIs("h", "short")
       [] Text[at] = "l" -> LengthIs("l", "long")
       [] OTHER          -> Specifier

Short ==
  /\ state = "short"
  /\ IF Text[at] = "h" THEN LengthIs("hh", "spec") ELSE Specifier

Long ==
  /\ state = "long"
  /\ IF Text[at] = "l" THEN LengthIs("ll", "spec") ELSE Specifier

\* One turn of printf's loop.
PrintfStep ==
  /\ at \in DOMAIN Text
  /\ Normal \/ Length \/ Short \/ Long \/ (state = "spec" /\ Specifier)
  /\ at' = at + 1
  /\ UNCHANGED <<abi, items, vprintfVars>>

-----------------------------------------------------------------------------
(* vprintf *)

\* The format's character, or its end.
Ch(k) == IF k \in DOMAIN Text THEN Text[k] ELSE "NUL"

\* Faulty variant: the second length character is not skipped.
Skip_One(l) == IF l = "none" THEN 2 ELSE 3

\* How far format moves, whether or not it goes on that far.
Skip(l) == 2 + Len(Lengths[l])

\* A directive; with a length only the numbers are known.
Directive ==
  LET c    == Ch(vat + 1)
      l    == CASE c = "h" -> (IF Ch(vat + 2) = "h" THEN "hh" ELSE "h")
                [] c = "l" -> (IF Ch(vat + 2) = "l" THEN "ll" ELSE "l")
                [] OTHER   -> "none"
      conv == Ch(vat + 1 + Len(Lengths[l]))
  IN  /\ IF l = "none" \/ conv \in Signed \cup Unsigned
         THEN vout' = Output(vout, varg, l, conv) /\ varg' = varg + Taken(l, conv)
         ELSE UNCHANGED <<vout, varg>>
      /\ vat' = vat + Skip(l)

\* One turn of vprintf's loop, after printf has printed the same call.
VprintfStep ==
  /\ at \notin DOMAIN Text
  /\ vat \in DOMAIN Text
  /\ IF Ch(vat) = "%" /\ Ch(vat + 1) # "NUL"
     THEN Directive
     ELSE /\ vout' = Append(vout, Ch(vat))
          /\ vat' = vat + 1
          /\ UNCHANGED varg
  /\ UNCHANGED <<abi, items, printfVars>>

Next == PrintfStep \/ VprintfStep

Spec == Init /\ [][Next]_vars

-----------------------------------------------------------------------------
(* Properties *)

\* An unfinished directive with a length.
CutShort(i) == i.kind = "unfinished" /\ i.length # "none"

\* Both parsers stay in the format and in the arguments, but for vprintf on a format
\* that ends after a length: it goes on behind the terminating NUL.
TypeOK ==
  /\ at \in 1 .. Len(Text) + 1
  /\ state \in {"normal", "length", "short", "long", "spec"}
  /\ length \in DOMAIN Lengths
  /\ state = "normal" => length = "none"
  /\ arg \in 1 .. Len(Words) + 1
  /\ varg \in 1 .. Len(Words) + 1
  /\ vat \in 1 .. Len(Text) + 1
       \/ (vat = Len(Text) + 2 /\ CutShort(Last(items)))

\* The numeral of n by place value: as many digits as n needs, each for its power.
Numeral(n, radix) ==
  LET k == CHOOSE k \in 1 .. abi.longlong :
             n < radix ^ k /\ (k = 1 \/ n >= radix ^ (k - 1))
  IN  [j \in 1 .. k |-> Digit[((n \div radix ^ (k - j)) % radix) + 1]]

Converted(i) ==
  CASE i.conv \in Signed -> IF i.value < 0 THEN <<"-">> \o Numeral(-i.value, 10)
                                           ELSE Numeral(i.value, 10)
    [] i.conv = "u" -> Numeral(i.value, 10)
    [] i.conv = "o" -> Numeral(i.value, 8)
    [] i.conv \in {"x", "X", "p"} -> Numeral(i.value, 16)
    [] i.conv = "c" -> <<Glyphs[i.value + 1]>>
    [] i.conv = "s" -> Strings[i.value]
    [] i.conv = "%" -> <<"%">>
    [] OTHER -> <<>>

ItemRendered(i) ==
  CASE i.kind = "char"       -> <<i.conv>>
    [] i.kind = "directive"  -> Converted(i)
    [] i.kind = "unfinished" -> <<>>

\* The words of the arguments before that of item k.
WordsBefore(k) == Len(FlattenSeq([j \in 1 .. k - 1 |-> ItemWords(items[j])]))

\* A directive whose own argument is next prints it as the caller means it.
ConversionsRight ==
  \A k \in DOMAIN items :
    items[k].kind = "directive" =>
      /\ ItemRendered(items[k]) \in Seq(STRING)
      /\ Printed(WordsBefore(k) + 1, items[k].length, items[k].conv) = ItemRendered(items[k])

\* printf prints what the caller means: each item's text in order, each argument at
\* its type's width on either ABI, nothing for a specifier it does not know.
PrintfRight ==
  at = Len(Text) + 1 =>
    /\ out = FlattenSeq([k \in DOMAIN items |-> ItemRendered(items[k])])
    /\ arg = Len(Words) + 1

\* The items the two parsers read differently: characters, strings and percent signs
\* with a length, which vprintf drops without taking the argument, and a % at the end,
\* which it prints.
ReadDifferently(i) ==
  \/ i.kind = "directive" /\ i.length # "none" /\ i.conv \in {"c", "s", "%"}
  \/ i.kind = "unfinished" /\ i.length = "none"

\* The logger's vprintf prints what printf does and takes the same arguments, for
\* every other format.
VprintfAgrees ==
  /\ at > Len(Text) /\ vat > Len(Text)
  /\ \A k \in DOMAIN items : ~ReadDifferently(items[k])
  => vout = out /\ varg = arg
=============================================================================
