---------------------------- MODULE PrintfProofs ----------------------------
(***************************************************************************)
(* printf and vprintf, for every call whose formats are well written, any  *)
(* ABI in which an int and a pointer take one word, and any conversions.   *)
(* What a conversion prints is left as it is: the theorems are about the   *)
(* two parsers, the words they take and what they give to whom.            *)
(***************************************************************************)
EXTENDS Printf, FiniteSetTheorems, SequenceTheorems, WellFoundedInduction, TLAPS

-----------------------------------------------------------------------------
(* Induction over the numbers of a set. *)

\* Of any numbers one is the least.
LEMMA LeastNumber ==
  ASSUME NEW T, T \subseteq Nat, T # {}
  PROVE  \E m \in T : \A k \in T : m <= k
<1>1. PICK t \in T : TRUE
  OBVIOUS
<1> DEFINE B == T \cap (0 .. t)
           Below(m) == {k \in B : k <= m}
           U == {Below(m) : m \in B}
<1>2. IsFiniteSet(B)
  <2>1. t \in Nat
    OBVIOUS
  <2>2. IsFiniteSet(0 .. t)
    BY <2>1, FS_Interval
  <2>3. QED
    BY <2>2, FS_Subset
<1>3. U \subseteq FiniteSubsetsOf(B)
  <2>1. ASSUME NEW m \in B
        PROVE  Below(m) \in FiniteSubsetsOf(B)
    BY <1>2, FS_Subset DEF FiniteSubsetsOf
  <2>2. QED
    BY <2>1
<1>4. U # {}
  <2>1. t \in B
    BY <1>1
  <2>2. Below(t) \in U
    BY <2>1
  <2>3. QED
    BY <2>2
<1>5. PICK x \in U : \A y \in U : <<y, x>> \notin StrictSubsetOrdering(B)
  BY <1>2, <1>3, <1>4, FS_StrictSubsetOrderingWellFounded, WFMin
<1>6. PICK m \in B : x = Below(m)
  BY <1>5
<1>7. ASSUME NEW k \in B, k < m
      PROVE  FALSE
  <2>1. \A j \in Below(k) : j \in B /\ j <= k /\ j \in Nat /\ k \in Nat /\ m \in Nat
    OBVIOUS
  <2>2. Below(k) \subseteq Below(m)
    BY <1>7, <2>1
  <2>3. m \in Below(m) /\ m \notin Below(k)
    BY <1>7
  <2>4. Below(k) \in FiniteSubsetsOf(B) /\ Below(m) \in FiniteSubsetsOf(B) /\ Below(k) \in U
    BY <1>3, <1>6
  <2>5. <<Below(k), Below(m)>> \in StrictSubsetOrdering(B)
    BY <2>2, <2>3, <2>4 DEF StrictSubsetOrdering
  <2>6. QED
    BY <1>5, <1>6, <2>4, <2>5
<1>8. \A k \in T : m <= k
  <2>1. \A k \in B : m <= k
    BY <1>7
  <2>2. QED
    BY <2>1
<1>9. QED
  BY <1>8

\* Induction, with the set of the numbers for which something holds.
LEMMA NumberInduction ==
  ASSUME NEW S, 0 \in S, \A n \in Nat : n \in S => n + 1 \in S
  PROVE  Nat \subseteq S
<1> SUFFICES ASSUME Nat \ S # {}
             PROVE  FALSE
  OBVIOUS
<1>1. PICK m \in Nat \ S : \A k \in Nat \ S : m <= k
  <2>1. Nat \ S \subseteq Nat
    OBVIOUS
  <2>2. QED
    BY <2>1, LeastNumber, Zenon
<1>2. m # 0 /\ m - 1 \in Nat /\ ~(m <= m - 1)
  OBVIOUS
<1>3. m - 1 \in S
  BY <1>1, <1>2
<1>4. (m - 1) + 1 \in S
  BY <1>2, <1>3, Zenon
<1>5. QED
  BY <1>1, <1>4

-----------------------------------------------------------------------------
(* FlattenSeq. *)

\* What FlattenSeq builds from the first n sequences of s.
IsFlatten(f, s, n) ==
  f = [i \in 1 .. n |-> IF i = 1 THEN s[i] ELSE f[i - 1] \o s[i]]

Flatten(s) == CHOOSE f : IsFlatten(f, s, Len(s))

\* The first k sequences of s joined.
Joined(s, k) == FlattenSeq([j \in 1 .. k |-> s[j]])

LEMMA FlattenExists ==
  ASSUME NEW s, NEW n \in Nat
  PROVE  \E f : IsFlatten(f, s, n)
<1> DEFINE S == {k \in Nat : \E f : IsFlatten(f, s, k)}
<1>1. 0 \in S
  <2>1. 1 .. 0 = {}
    OBVIOUS
  <2>2. IsFlatten([i \in 1 .. 0 |-> 0], s, 0)
    BY <2>1 DEF IsFlatten
  <2>3. QED
    BY <2>2
<1>2. ASSUME NEW k \in Nat, k \in S
      PROVE  k + 1 \in S
  <2>1. PICK f : f = [i \in 1 .. k |-> IF i = 1 THEN s[i] ELSE f[i - 1] \o s[i]]
    BY <1>2 DEF IsFlatten
  <2> DEFINE g == [i \in 1 .. k + 1 |->
                     IF i = k + 1 THEN (IF i = 1 THEN s[i] ELSE f[k] \o s[i]) ELSE f[i]]
  <2>2. ASSUME NEW i \in 1 .. k + 1
        PROVE  g[i] = IF i = 1 THEN s[i] ELSE g[i - 1] \o s[i]
    <3>1. CASE i = k + 1
      BY <3>1
    <3>2. CASE i # k + 1
      <4>1. i \in 1 .. k /\ g[i] = f[i]
        BY <3>2
      <4>2. i # 1 => i - 1 \in 1 .. k + 1 /\ i - 1 # k + 1
        BY <4>1
      <4>3. i # 1 => g[i - 1] = f[i - 1]
        BY <4>2
      <4>4. f[i] = IF i = 1 THEN s[i] ELSE f[i - 1] \o s[i]
        BY <2>1, <4>1
      <4>5. QED
        BY <4>1, <4>3, <4>4
    <3>3. QED
      BY <3>1, <3>2
  <2>3. g = [i \in 1 .. k + 1 |-> g[i]]
    OBVIOUS
  <2> HIDE DEF g
  <2>4. IsFlatten(g, s, k + 1)
    BY <2>2, <2>3 DEF IsFlatten
  <2>5. QED
    BY <2>4
<1>3. Nat \subseteq S
  <2> HIDE DEF S
  <2>1. QED
    BY <1>1, <1>2, NumberInduction
<1>4. QED
  BY <1>3

AgreeTo(t, s, n) == \A i \in 1 .. n : t[i] = s[i]

\* One more sequence.
LEMMA FlattenStep ==
  ASSUME NEW s, NEW t, NEW n \in Nat, NEW f, NEW g, IsFlatten(f, s, n), IsFlatten(g, t, n + 1),
         AgreeTo(t, s, n)
  PROVE  AgreeTo(g, f, n)
<1> DEFINE S == {k \in Nat : \A i \in 1 .. n : i <= k => g[i] = f[i]}
<1>1. 0 \in S
  OBVIOUS
<1>2. ASSUME NEW k \in Nat, k \in S
      PROVE  k + 1 \in S
  <2>1. ASSUME NEW i \in 1 .. n, i <= k + 1
        PROVE  g[i] = f[i]
    <3>1. f[i] = (IF i = 1 THEN s[i] ELSE f[i - 1] \o s[i])
      BY DEF IsFlatten
    <3>2. g[i] = (IF i = 1 THEN t[i] ELSE g[i - 1] \o t[i])
      <4>1. i \in 1 .. n + 1
        OBVIOUS
      <4>2. QED
        BY <4>1 DEF IsFlatten
    <3>3. t[i] = s[i]
      BY DEF AgreeTo
    <3>4. i # 1 => g[i - 1] = f[i - 1]
      <4>1. i # 1 => i - 1 \in 1 .. n /\ i - 1 <= k
        BY <2>1
      <4>2. QED
        BY <1>2, <4>1
    <3>5. QED
      BY <3>1, <3>2, <3>3, <3>4
  <2>2. QED
    BY <2>1
<1>3. Nat \subseteq S
  <2> HIDE DEF S
  <2>1. QED
    BY <1>1, <1>2, NumberInduction
<1>4. QED
  BY <1>3 DEF AgreeTo

\* FlattenSeq is what it builds up to the last sequence.
LEMMA FlattenIs ==
  ASSUME NEW s, Len(s) \in Nat \ {0}
  PROVE  /\ IsFlatten(Flatten(s), s, Len(s))
         /\ FlattenSeq(s) = Flatten(s)[Len(s)]
<1>1. IsFlatten(Flatten(s), s, Len(s))
  <2>1. \E f : IsFlatten(f, s, Len(s))
    BY FlattenExists
  <2>2. QED
    BY <2>1, Zenon DEF Flatten
<1>2. FlattenSeq(s) = Flatten(s)[Len(s)]
  BY Zenon DEF FlattenSeq, Flatten, IsFlatten
<1>3. QED
  BY <1>1, <1>2

LEMMA FlattenEnds ==
  ASSUME NEW f, NEW s, NEW n \in Nat, IsFlatten(f, s, n + 1)
  PROVE  /\ n = 0 => f[1] = s[1]
         /\ n # 0 => f[n + 1] = f[n] \o s[n + 1]
<1>1. f = [i \in 1 .. n + 1 |-> IF i = 1 THEN s[i] ELSE f[i - 1] \o s[i]]
  BY DEF IsFlatten
<1>2. n + 1 \in 1 .. n + 1 /\ 1 \in 1 .. n + 1
  OBVIOUS
<1>3. f[1] = s[1]
  BY <1>1, <1>2
<1>4. f[n + 1] = IF n + 1 = 1 THEN s[n + 1] ELSE f[(n + 1) - 1] \o s[n + 1]
  BY <1>1, <1>2, Zenon
<1>5. n # 0 => n + 1 # 1 /\ (n + 1) - 1 = n
  OBVIOUS
<1>6. QED
  BY <1>3, <1>4, <1>5, Zenon

\* The sequences joined one after the other.
LEMMA JoinedSteps ==
  ASSUME NEW X, NEW n \in Nat, NEW s, s \in [1 .. n -> Seq(X)]
  PROVE  /\ Joined(s, 0) = <<>>
         /\ \A k \in 1 .. n : Joined(s, k) = Joined(s, k - 1) \o s[k]
         /\ \A k \in 0 .. n : Joined(s, k) \in Seq(X)
         /\ FlattenSeq(s) = Joined(s, n)
<1> DEFINE P(k) == [j \in 1 .. k |-> s[j]]
<1>1. \A k \in 0 .. n : Len(P(k)) = k /\ P(k) \in Seq(Seq(X))
  OBVIOUS
<1>2. Joined(s, 0) = <<>>
  <2>1. P(0) = <<>> /\ Len(P(0)) = 0
    OBVIOUS
  <2>2. FlattenSeq(P(0)) = P(0)
    BY <2>1, Zenon DEF FlattenSeq
  <2>3. QED
    BY <2>1, <2>2 DEF Joined
<1>3. ASSUME NEW k \in 1 .. n
      PROVE  IsFlatten(Flatten(P(k)), P(k), k) /\ Joined(s, k) = Flatten(P(k))[k]
  <2>1. Len(P(k)) = k /\ k \in Nat \ {0}
    BY <1>1
  <2> HIDE DEF P
  <2>2. IsFlatten(Flatten(P(k)), P(k), k) /\ FlattenSeq(P(k)) = Flatten(P(k))[k]
    BY <2>1, FlattenIs
  <2>3. QED
    BY <2>2 DEF Joined, P
<1>4. ASSUME NEW k \in 1 .. n
      PROVE  Joined(s, k) = Joined(s, k - 1) \o s[k]
  <2>1. CASE k = 1
    <3>1. P(1)[1] = s[1] /\ s[1] \in Seq(X) /\ 1 \in 1 .. n /\ 0 + 1 = 1 /\ k - 1 = 0
      BY <2>1
    <3> HIDE DEF P
    <3>2. IsFlatten(Flatten(P(1)), P(1), 0 + 1) /\ Joined(s, 1) = Flatten(P(1))[1]
      BY <1>3, <3>1
    <3>3. Flatten(P(1))[1] = P(1)[1]
      BY <3>2, FlattenEnds
    <3>4. <<>> \o s[1] = s[1]
      BY <3>1, ConcatEmptySeq, Zenon
    <3>5. QED
      BY <1>2, <2>1, <3>1, <3>2, <3>3, <3>4, Zenon
  <2>2. CASE k # 1
    <3>1. PICK m \in 1 .. n : k = m + 1 /\ m \in Nat
      BY <2>2
    <3>2. /\ IsFlatten(Flatten(P(m)), P(m), m) /\ Joined(s, m) = Flatten(P(m))[m]
          /\ IsFlatten(Flatten(P(k)), P(k), m + 1) /\ Joined(s, k) = Flatten(P(k))[m + 1]
      BY <1>3, <3>1
    <3>3. \A i \in 1 .. m : P(k)[i] = P(m)[i]
      BY <3>1
    <3>4. P(k)[m + 1] = s[k]
      BY <3>1
    <3> HIDE DEF P
    <3>5. \A i \in 1 .. m : Flatten(P(k))[i] = Flatten(P(m))[i]
      <4>1. m \in Nat
        BY <3>1
      <4>2. AgreeTo(P(k), P(m), m)
        BY <3>3, Zenon DEF AgreeTo
      <4>3. AgreeTo(Flatten(P(k)), Flatten(P(m)), m)
        BY <3>2, <4>1, <4>2, FlattenStep, Zenon
      <4>4. QED
        BY <4>3, Zenon DEF AgreeTo
    <3>6. Flatten(P(k))[m + 1] = Flatten(P(k))[m] \o P(k)[m + 1]
      <4>1. m # 0
        BY <3>1
      <4>2. QED
        BY <3>1, <3>2, <4>1, FlattenEnds, Zenon
    <3>7. Flatten(P(k))[m] = Flatten(P(m))[m]
      <4>1. m \in 1 .. m
        BY <3>1
      <4>2. QED
        BY <3>5, <4>1, Zenon
    <3>8. k - 1 = m
      BY <3>1
    <3>9. QED
      BY <3>2, <3>4, <3>6, <3>7, <3>8
  <2>3. QED
    BY <2>1, <2>2
<1>5. \A k \in 0 .. n : Joined(s, k) \in Seq(X)
  <2> DEFINE S == {k \in Nat : k <= n => Joined(s, k) \in Seq(X)}
  <2>1. 0 \in S
    <3>1. <<>> \in Seq(X)
      OBVIOUS
    <3>2. Joined(s, 0) \in Seq(X)
      BY <1>2, <3>1, Zenon
    <3>3. QED
      BY <3>2
  <2>2. ASSUME NEW k \in Nat, k \in S
        PROVE  k + 1 \in S
    <3>1. ASSUME k + 1 <= n
          PROVE  Joined(s, k + 1) \in Seq(X)
      <4>1. k + 1 \in 1 .. n /\ (k + 1) - 1 = k /\ k <= n
        BY <3>1
      <4>2. Joined(s, k + 1) = Joined(s, k) \o s[k + 1]
        BY <1>4, <4>1
      <4>3. Joined(s, k) \in Seq(X) /\ s[k + 1] \in Seq(X)
        BY <2>2, <4>1
      <4>4. QED
        BY <4>2, <4>3, ConcatProperties, Zenon
    <3>2. QED
      BY <3>1
  <2>3. Nat \subseteq S
    <3> HIDE DEF S
    <3>1. QED
      BY <2>1, <2>2, NumberInduction
  <2>4. QED
    BY <2>3
<1>6. FlattenSeq(s) = Joined(s, n)
  <2>1. s = [j \in 1 .. n |-> s[j]]
    OBVIOUS
  <2>2. QED
    BY <2>1, Zenon DEF Joined
<1>7. QED
  BY <1>2, <1>4, <1>5, <1>6

LEMMA JoinedStep ==
  ASSUME NEW X, NEW n \in Nat, NEW s, s \in [1 .. n -> Seq(X)], NEW k \in 1 .. n
  PROVE  Joined(s, k) = Joined(s, k - 1) \o s[k]
<1>1. /\ \A i \in 1 .. n : Joined(s, i) = Joined(s, i - 1) \o s[i]
      /\ \A i \in 0 .. n : Joined(s, i) \in Seq(X)
  BY JoinedSteps, Zenon
<1>2. QED
  BY <1>1

\* t is a, then b.
Begins(t, a) == \A j \in 1 .. Len(a) : t[j] = a[j]
Follows(t, a, b) == \A j \in 1 .. Len(b) : t[Len(a) + j] = b[j]

\* Where the characters of the k-th sequence lie.
LEMMA JoinedAt ==
  ASSUME NEW X, NEW n \in Nat, NEW s, s \in [1 .. n -> Seq(X)], NEW k \in 1 .. n
  PROVE  /\ Len(Joined(s, k)) = Len(Joined(s, k - 1)) + Len(s[k])
         /\ Len(Joined(s, k - 1)) \in Nat /\ Len(s[k]) \in Nat
         /\ Len(Joined(s, k)) <= Len(Joined(s, n))
         /\ Follows(Joined(s, n), Joined(s, k - 1), s[k])
<1>1. /\ \A i \in 1 .. n : Joined(s, i) = Joined(s, i - 1) \o s[i]
      /\ \A i \in 0 .. n : Joined(s, i) \in Seq(X)
  BY JoinedSteps, Zenon
<1>2. ASSUME NEW i \in 1 .. n
      PROVE  /\ Len(Joined(s, i)) = Len(Joined(s, i - 1)) + Len(s[i])
             /\ Len(Joined(s, i - 1)) \in Nat /\ Len(s[i]) \in Nat
             /\ \A j \in 1 .. Len(Joined(s, i - 1)) : Joined(s, i)[j] = Joined(s, i - 1)[j]
             /\ \A j \in 1 .. Len(s[i]) :
                  Joined(s, i)[Len(Joined(s, i - 1)) + j] = s[i][j]
  <2>1. PICK a \in Seq(X), b \in Seq(X) : a = Joined(s, i - 1) /\ b = s[i]
    <3>1. i - 1 \in 0 .. n
      OBVIOUS
    <3>2. QED
      BY <1>1, <3>1
  <2>2. Joined(s, i) = a \o b
    BY <1>1, <2>1, Zenon
  <2>3. /\ Len(a \o b) = Len(a) + Len(b) /\ Len(a) \in Nat /\ Len(b) \in Nat
        /\ \A j \in 1 .. Len(a) : (a \o b)[j] = a[j]
        /\ \A j \in 1 .. Len(b) : (a \o b)[Len(a) + j] = b[j]
    OBVIOUS
  <2>4. QED
    BY <2>1, <2>2, <2>3, Zenon
<1> DEFINE L == Len(Joined(s, k - 1))
           M == Len(s[k])
           S == {i \in Nat : k + i <= n =>
                   /\ Len(Joined(s, k)) <= Len(Joined(s, k + i))
                   /\ \A j \in 1 .. M : Joined(s, k + i)[L + j] = s[k][j]}
<1>3. Len(Joined(s, k)) = L + M /\ L \in Nat /\ M \in Nat
  BY <1>2
<1>4. 0 \in S
  <2>1. k + 0 = k /\ \A j \in 1 .. M : Joined(s, k)[L + j] = s[k][j]
    BY <1>2
  <2> HIDE DEF L, M
  <2>2. QED
    BY <1>3, <2>1
<1>5. ASSUME NEW i \in Nat, i \in S
      PROVE  i + 1 \in S
  <2> DEFINE c == k + i
  <2>1. ASSUME c + 1 <= n
        PROVE  /\ Len(Joined(s, k)) <= Len(Joined(s, c + 1))
               /\ \A j \in 1 .. M : Joined(s, c + 1)[L + j] = s[k][j]
    <3>1. c + 1 \in 1 .. n /\ (c + 1) - 1 = c /\ c <= n
      BY <2>1
    <3>2. /\ Len(Joined(s, k)) <= Len(Joined(s, c))
          /\ \A j \in 1 .. M : Joined(s, c)[L + j] = s[k][j]
      BY <1>5, <3>1
    <3>3. /\ Len(Joined(s, c + 1)) = Len(Joined(s, c)) + Len(s[c + 1])
          /\ Len(Joined(s, c)) \in Nat /\ Len(s[c + 1]) \in Nat
          /\ \A j \in 1 .. Len(Joined(s, c)) : Joined(s, c + 1)[j] = Joined(s, c)[j]
      BY <1>2, <3>1
    <3> HIDE DEF c, L, M
    <3>4. Len(Joined(s, k)) <= Len(Joined(s, c + 1))
      BY <1>3, <3>2, <3>3
    <3>5. ASSUME NEW j \in 1 .. M
          PROVE  Joined(s, c + 1)[L + j] = s[k][j]
      <4>1. L + j \in 1 .. Len(Joined(s, c))
        BY <1>3, <3>2, <3>3
      <4>2. QED
        BY <3>2, <3>3, <4>1, Zenon
    <3>6. QED
      BY <3>4, <3>5
  <2>2. k + (i + 1) = c + 1
    OBVIOUS
  <2>3. QED
    BY <2>1, <2>2
<1>6. n - k \in S
  <2> HIDE DEF S
  <2>1. Nat \subseteq S
    BY <1>4, <1>5, NumberInduction
  <2>2. n - k \in Nat
    OBVIOUS
  <2>3. QED
    BY <2>1, <2>2
<1>7. k + (n - k) = n
  OBVIOUS
<1>8. /\ Len(Joined(s, k)) <= Len(Joined(s, n))
      /\ \A j \in 1 .. M : Joined(s, n)[L + j] = s[k][j]
  BY <1>6, <1>7
<1>9. Follows(Joined(s, n), Joined(s, k - 1), s[k])
  BY <1>8, Zenon DEF Follows
<1>10. QED
  BY <1>3, <1>8, <1>9

-----------------------------------------------------------------------------
(* The call. *)

\* The call is one that Calls allows.
CallOK == abi \in Abis /\ items \in Calls[abi]

Texts == [k \in DOMAIN items |-> ItemText(items[k])]
Args  == [k \in DOMAIN items |-> ItemWords(items[k])]

\* Characters and words up to item k.
TextAt(k) == Len(Joined(Texts, k))
WordsAt(k) == Len(Joined(Args, k))

\* STRING, with the literals, which the provers do not know to be strings.
Chars == STRING \cup {"%", "h", "l"}

\* The characters of a length, and how an item reads.
LengthSize(l) == CASE l = "none" -> 0 [] l \in {"h", "l"} -> 1 [] OTHER -> 2
LengthChar(l) == IF l \in {"h", "hh"} THEN "h" ELSE "l"

Reads(t, i) ==
  /\ t \in Seq(Chars)
  /\ i.kind = "char" => Len(t) = 1 /\ t[1] = i.conv
  /\ i.kind # "char" =>
       /\ Len(t) = LengthSize(i.length) + (IF i.kind = "directive" THEN 2 ELSE 1)
       /\ t[1] = "%"
       /\ LengthSize(i.length) >= 1 => t[2] = LengthChar(i.length)
       /\ LengthSize(i.length) = 2 => t[3] = LengthChar(i.length)
       /\ i.kind = "directive" => t[LengthSize(i.length) + 2] = i.conv

LEMMA OneLong ==
  ASSUME NEW X, NEW c \in X
  PROVE  <<c>> \in Seq(X) /\ Len(<<c>>) = 1 /\ <<c>>[1] = c
OBVIOUS

LEMMA TwoLong ==
  ASSUME NEW X, NEW c \in X
  PROVE  <<c, c>> \in Seq(X) /\ Len(<<c, c>>) = 2 /\ <<c, c>>[1] = c /\ <<c, c>>[2] = c
OBVIOUS

LEMMA TwoJoined ==
  ASSUME NEW X, NEW a \in Seq(X), NEW b \in Seq(X)
  PROVE  /\ a \o b \in Seq(X) /\ Len(a \o b) = Len(a) + Len(b)
         /\ Begins(a \o b, a) /\ Follows(a \o b, a, b)
BY DEF Begins, Follows

LEMMA Literals == STRING \subseteq Chars /\ {"%", "h", "l"} \subseteq Chars
BY DEF Chars

LEMMA LengthNames == DOMAIN Lengths = {"none", "hh", "h", "l", "ll"}
BY DEF Lengths

LEMMA LengthText ==
  ASSUME NEW l \in DOMAIN Lengths
  PROVE  /\ Lengths[l] \in Seq(Chars) /\ Len(Lengths[l]) = LengthSize(l)
         /\ LengthSize(l) >= 1 => Lengths[l][1] = LengthChar(l)
         /\ LengthSize(l) = 2 => Lengths[l][2] = LengthChar(l)
         /\ LengthSize(l) \in 0 .. 2
<1>1. l \in {"none", "hh", "h", "l", "ll"}
  BY LengthNames
<1>2. CASE l = "none"
  <2>1. Lengths[l] = <<>>
    BY <1>2 DEF Lengths
  <2>2. LengthSize(l) = 0
    BY <1>2 DEF LengthSize, LengthChar
  <2>3. <<>> \in Seq(Chars) /\ Len(<<>>) = 0
    OBVIOUS
  <2>4. QED
    BY <2>1, <2>2, <2>3
<1>3. CASE l = "h"
  <2>1. Lengths[l] = <<"h">>
    BY <1>3 DEF Lengths
  <2>2. LengthSize(l) = 1 /\ LengthChar(l) = "h"
    BY <1>3 DEF LengthSize, LengthChar
  <2>3. <<"h">> \in Seq(Chars) /\ Len(<<"h">>) = 1 /\ <<"h">>[1] = "h"
    BY OneLong, Literals
  <2>4. QED
    BY <2>1, <2>2, <2>3
<1>4. CASE l = "l"
  <2>1. Lengths[l] = <<"l">>
    BY <1>4 DEF Lengths
  <2>2. LengthSize(l) = 1 /\ LengthChar(l) = "l"
    BY <1>4 DEF LengthSize, LengthChar
  <2>3. <<"l">> \in Seq(Chars) /\ Len(<<"l">>) = 1 /\ <<"l">>[1] = "l"
    BY OneLong, Literals
  <2>4. QED
    BY <2>1, <2>2, <2>3
<1>5. CASE l = "hh"
  <2>1. Lengths[l] = <<"h", "h">>
    BY <1>5 DEF Lengths
  <2>2. LengthSize(l) = 2 /\ LengthChar(l) = "h"
    BY <1>5 DEF LengthSize, LengthChar
  <2>3. /\ <<"h", "h">> \in Seq(Chars) /\ Len(<<"h", "h">>) = 2
        /\ <<"h", "h">>[1] = "h" /\ <<"h", "h">>[2] = "h"
    BY TwoLong, Literals
  <2>4. QED
    BY <2>1, <2>2, <2>3
<1>6. CASE l = "ll"
  <2>1. Lengths[l] = <<"l", "l">>
    BY <1>6 DEF Lengths
  <2>2. LengthSize(l) = 2 /\ LengthChar(l) = "l"
    BY <1>6 DEF LengthSize, LengthChar
  <2>3. /\ <<"l", "l">> \in Seq(Chars) /\ Len(<<"l", "l">>) = 2
        /\ <<"l", "l">>[1] = "l" /\ <<"l", "l">>[2] = "l"
    BY TwoLong, Literals
  <2>4. QED
    BY <2>1, <2>2, <2>3
<1>7. QED
  BY <1>1, <1>2, <1>3, <1>4, <1>5, <1>6

\* One character before a sequence, and one behind it.
LEMMA OneBefore ==
  ASSUME NEW h \in Seq(Chars), Len(h) = 1, NEW l \in Seq(Chars)
  PROVE  /\ h \o l \in Seq(Chars) /\ Len(h \o l) = Len(l) + 1 /\ (h \o l)[1] = h[1]
         /\ \A p \in 1 .. Len(l) : (h \o l)[p + 1] = l[p]
<1>1. /\ h \o l \in Seq(Chars) /\ Len(h \o l) = Len(h) + Len(l)
      /\ Begins(h \o l, h) /\ Follows(h \o l, h, l)
  BY TwoJoined, Zenon
<1>2. PICK n \in Nat : n = Len(l)
  OBVIOUS
<1>3. 1 + n = n + 1 /\ 1 \in 1 .. 1 /\ \A p \in 1 .. n : p + 1 = 1 + p
  OBVIOUS
<1>4. QED
  BY <1>1, <1>2, <1>3, Zenon DEF Begins, Follows

LEMMA OneBehind ==
  ASSUME NEW e \in Seq(Chars), Len(e) = 1, NEW l \in Seq(Chars)
  PROVE  /\ l \o e \in Seq(Chars) /\ Len(l \o e) = Len(l) + 1 /\ (l \o e)[Len(l) + 1] = e[1]
         /\ \A p \in 1 .. Len(l) : (l \o e)[p] = l[p]
<1>1. /\ l \o e \in Seq(Chars) /\ Len(l \o e) = Len(l) + Len(e)
      /\ Begins(l \o e, l) /\ Follows(l \o e, l, e)
  BY TwoJoined, Zenon
<1>2. 1 \in 1 .. 1
  OBVIOUS
<1>3. QED
  BY <1>1, <1>2, Zenon DEF Begins, Follows

\* "%", the length, the specifier.
LEMMA Concat3 ==
  ASSUME NEW l \in Seq(Chars), NEW c \in Chars
  PROVE  LET t == <<"%">> \o l
             u == <<"%">> \o l \o <<c>>
         IN  /\ t \in Seq(Chars) /\ Len(t) = Len(l) + 1 /\ t[1] = "%"
             /\ \A p \in 1 .. Len(l) : t[p + 1] = l[p]
             /\ u \in Seq(Chars) /\ Len(u) = Len(l) + 2 /\ u[1] = "%"
             /\ \A p \in 1 .. Len(l) : u[p + 1] = l[p]
             /\ u[Len(l) + 2] = c
<1>1. <<"%">> \in Seq(Chars) /\ Len(<<"%">>) = 1 /\ <<"%">>[1] = "%"
  BY OneLong, Literals
<1>2. <<c>> \in Seq(Chars) /\ Len(<<c>>) = 1 /\ <<c>>[1] = c
  BY OneLong
<1> DEFINE t == <<"%">> \o l
           u == t \o <<c>>
<1>3. /\ t \in Seq(Chars) /\ Len(t) = Len(l) + 1 /\ t[1] = "%"
      /\ \A p \in 1 .. Len(l) : t[p + 1] = l[p]
  BY <1>1, OneBefore, Zenon
<1>4. /\ u \in Seq(Chars) /\ Len(u) = Len(t) + 1 /\ u[Len(t) + 1] = c
      /\ \A p \in 1 .. Len(t) : u[p] = t[p]
  <2> HIDE DEF t
  <2>1. t \in Seq(Chars)
    BY <1>3
  <2>2. QED
    BY <1>2, <2>1, OneBehind, Zenon
<1>5. PICK n \in Nat : n = Len(l)
  OBVIOUS
<1> HIDE DEF t, u
<1>6. Len(t) = n + 1 /\ Len(u) = (n + 1) + 1
  BY <1>3, <1>4, <1>5, Zenon
<1>7. (n + 1) + 1 = n + 2 /\ 1 \in 1 .. n + 1 /\ \A p \in 1 .. n : p + 1 \in 1 .. n + 1
  OBVIOUS
<1>8. u[1] = "%" /\ \A p \in 1 .. n : u[p + 1] = l[p]
  BY <1>3, <1>4, <1>5, <1>6, <1>7, Zenon
<1>9. QED
  BY <1>3, <1>4, <1>5, <1>6, <1>7, <1>8, Zenon DEF t, u

LEMMA ItemReads ==
  ASSUME NEW i \in Item
  PROVE  Reads(ItemText(i), i)
<1>1. i.kind \in {"char", "directive", "unfinished"} /\ i.length \in DOMAIN Lengths /\ i.conv \in Chars
  BY Literals DEF Item
<1>2. CASE i.kind = "char"
  <2>1. ItemText(i) = <<i.conv>>
    BY <1>2 DEF ItemText
  <2>2. QED
    BY <1>1, <1>2, <2>1 DEF Reads
<1>3. PICK l \in Seq(Chars) : /\ l = Lengths[i.length] /\ Len(l) = LengthSize(i.length)
                              /\ Len(l) >= 1 => l[1] = LengthChar(i.length)
                              /\ Len(l) = 2 => l[2] = LengthChar(i.length)
                              /\ Len(l) \in 0 .. 2
  BY <1>1, LengthText, Zenon
<1>4. PICK t, u : t = <<"%">> \o l /\ u = <<"%">> \o l \o <<i.conv>>
  OBVIOUS
<1>5. /\ t \in Seq(Chars) /\ Len(t) = Len(l) + 1 /\ t[1] = "%"
      /\ \A p \in 1 .. Len(l) : t[p + 1] = l[p]
      /\ u \in Seq(Chars) /\ Len(u) = Len(l) + 2 /\ u[1] = "%"
      /\ \A p \in 1 .. Len(l) : u[p + 1] = l[p]
      /\ u[Len(l) + 2] = i.conv
  BY <1>1, <1>4, Concat3, Zenon
<1>6. /\ Len(l) >= 1 => t[2] = l[1] /\ u[2] = l[1]
      /\ Len(l) = 2 => t[3] = l[2] /\ u[3] = l[2]
  BY <1>3, <1>5
<1>7. CASE i.kind = "directive"
  <2>1. ItemText(i) = <<"%">> \o Lengths[i.length] \o <<i.conv>>
    BY <1>7 DEF ItemText
  <2>2. ItemText(i) = u
    BY <1>3, <1>4, <2>1, Zenon
  <2>3. QED
    BY <1>3, <1>5, <1>6, <1>7, <2>2 DEF Reads
<1>8. CASE i.kind = "unfinished"
  <2>1. ItemText(i) = <<"%">> \o Lengths[i.length]
    BY <1>8 DEF ItemText
  <2>2. ItemText(i) = t
    BY <1>3, <1>4, <2>1, Zenon
  <2>3. QED
    BY <1>3, <1>5, <1>6, <1>8, <2>2 DEF Reads
<1>9. QED
  BY <1>1, <1>2, <1>7, <1>8

\* What the assumptions say of the call.
LEMMA CallFacts ==
  ASSUME CallOK
  PROVE  /\ items \in Seq(Item) /\ Len(items) \in Nat /\ DOMAIN items = 1 .. Len(items)
         /\ \A k \in 1 .. Len(items) :
              /\ items[k] \in Item
              /\ items[k].kind = "char" => items[k].conv # "%" /\ items[k].conv # "NUL"
              /\ items[k].kind = "directive" =>
                   items[k].conv \notin Extends(items[k].length) /\ items[k].conv # "NUL"
              /\ items[k].kind = "unfinished" => k = Len(items)
<1>1. WellWritten(items)
  BY CallsAssumption, Zenon DEF CallOK
<1>2. items \in Seq(Item)
  BY <1>1, Zenon DEF WellWritten
<1>3. Len(items) \in Nat /\ DOMAIN items = 1 .. Len(items) /\ \A k \in 1 .. Len(items) : items[k] \in Item
  BY <1>2
<1>4. ASSUME NEW k \in 1 .. Len(items)
      PROVE  /\ items[k].kind = "char" => items[k].conv # "%" /\ items[k].conv # "NUL"
             /\ items[k].kind = "directive" =>
                  items[k].conv \notin Extends(items[k].length) /\ items[k].conv # "NUL"
             /\ items[k].kind = "unfinished" => k = Len(items)
  <2>1. (CASE items[k].kind = "char"       -> items[k].conv \notin {"%", "NUL"}
           [] items[k].kind = "directive"  ->
                items[k].conv \notin Extends(items[k].length) \cup {"NUL"}
           [] items[k].kind = "unfinished" -> k = Len(items))
    BY <1>1, <1>3, Zenon DEF WellWritten
  <2>2. QED
    BY <2>1
<1>5. QED
  BY <1>2, <1>3, <1>4

LEMMA AbiFacts ==
  ASSUME CallOK
  PROVE  /\ abi.word \in Nat \ {0} /\ abi.int \in 1 .. abi.word /\ abi.word \in 1 .. abi.word
         /\ abi.int \in Nat /\ abi.long \in Nat /\ abi.longlong \in Nat
<1>1. {abi.word, abi.int, abi.long, abi.longlong} \subseteq Nat \ {0} /\ abi.int <= abi.word
  BY PrintfAssumption, Zenon DEF CallOK
<1>2. QED
  BY <1>1

LEMMA WordCount ==
  ASSUME NEW w \in Nat \ {0}
  PROVE  /\ (0 + w - 1) \div w = 0
         /\ \A b \in 1 .. w : (b + w - 1) \div w = 1
         /\ \A b \in Nat : (b + w - 1) \div w \in Nat
<1>1. ASSUME NEW b \in 1 .. w
      PROVE  (b + w - 1) \div w = 1
  <2>1. b + w - 1 = 1 * w + (b - 1) /\ b - 1 \in 0 .. w - 1
    OBVIOUS
  <2>2. QED
    BY <2>1
<1>2. (0 + w - 1) \div w = 0
  OBVIOUS
<1>3. \A b \in Nat : (b + w - 1) \div w \in Nat
  OBVIOUS
<1>4. QED
  BY <1>1, <1>2, <1>3

\* va_arg takes as many words for a directive as the caller pushed for it.
LEMMA WordsTaken ==
  ASSUME CallOK, NEW i \in Item
  PROVE  /\ Len(ItemWords(i)) = WordsOf(ArgBits(i)) /\ WordsOf(ArgBits(i)) \in Nat
         /\ DOMAIN ItemWords(i) = 1 .. WordsOf(ArgBits(i))
         /\ i.kind = "directive" => Taken(i.length, i.conv) = WordsOf(ArgBits(i))
         /\ i.kind # "directive" => WordsOf(ArgBits(i)) = 0
         /\ Taken(i.length, i.conv) \in Nat
<1>1. abi.word \in Nat \ {0} /\ abi.int \in 1 .. abi.word /\ abi.word \in 1 .. abi.word
      /\ abi.int \in Nat /\ abi.long \in Nat /\ abi.longlong \in Nat
  BY AbiFacts
<1>2. PICK w \in Nat \ {0} : w = abi.word
  BY <1>1
<1>3. /\ WordsOf(0) = 0 /\ WordsOf(abi.int) = 1 /\ WordsOf(abi.word) = 1
      /\ \A b \in Nat : WordsOf(b) \in Nat
  <2>1. \A b : WordsOf(b) = (b + w - 1) \div w
    BY <1>2, Zenon DEF WordsOf
  <2>2. abi.int \in 1 .. w /\ abi.word \in 1 .. w
    BY <1>1, <1>2
  <2>3. /\ (0 + w - 1) \div w = 0
        /\ \A b \in 1 .. w : (b + w - 1) \div w = 1
        /\ \A b \in Nat : (b + w - 1) \div w \in Nat
    BY WordCount
  <2>4. QED
    BY <2>1, <2>2, <2>3, Zenon
<1>4. TypeBits(i.length) \in Nat
  BY <1>1 DEF TypeBits
<1>5. /\ i.kind # "directive" => ArgBits(i) = 0
      /\ i.kind = "directive" /\ i.conv \in Signed \cup Unsigned => ArgBits(i) = TypeBits(i.length)
      /\ i.kind = "directive" /\ i.conv = "c" => ArgBits(i) = abi.int
      /\ i.kind = "directive" /\ i.conv = "s" => ArgBits(i) = abi.word
      /\ i.kind = "directive" /\ i.conv \notin Signed \cup Unsigned \cup {"c", "s"} => ArgBits(i) = 0
  <2>1. ASSUME i.kind # "directive"
        PROVE  ArgBits(i) = 0
    BY <2>1 DEF ArgBits
  <2>2. ASSUME i.kind = "directive", i.conv \in Signed \cup Unsigned
        PROVE  ArgBits(i) = TypeBits(i.length)
    BY <2>2 DEF ArgBits, Signed, Unsigned
  <2>3. ASSUME i.kind = "directive", i.conv \notin Signed \cup Unsigned
        PROVE  /\ i.conv = "c" => ArgBits(i) = abi.int
               /\ i.conv = "s" => ArgBits(i) = abi.word
               /\ i.conv \notin {"c", "s"} => ArgBits(i) = 0
    BY <2>3 DEF ArgBits
  <2>4. "c" \notin Signed \cup Unsigned /\ "s" \notin Signed \cup Unsigned
    BY DEF Signed, Unsigned
  <2>5. QED
    BY <2>1, <2>2, <2>3, <2>4, Zenon
<1>6. /\ i.conv \in Signed \cup Unsigned => Taken(i.length, i.conv) = WordsOf(TypeBits(i.length))
      /\ i.conv \in {"c", "s"} => Taken(i.length, i.conv) = 1
      /\ i.conv \notin Signed \cup Unsigned \cup {"c", "s"} => Taken(i.length, i.conv) = 0
  BY DEF Taken, Signed, Unsigned
<1>7. ArgBits(i) \in Nat
  BY <1>1, <1>4, <1>5
<1>8. WordsOf(ArgBits(i)) \in Nat
  BY <1>3, <1>7, Zenon
<1>9. Len(ItemWords(i)) = WordsOf(ArgBits(i)) /\ DOMAIN ItemWords(i) = 1 .. WordsOf(ArgBits(i))
  <2>1. PICK n \in Nat : n = WordsOf(ArgBits(i))
    BY <1>8
  <2> DEFINE v == i.value % 2 ^ ArgBits(i)
  <2>2. ItemWords(i) = [k \in 1 .. n |-> (v \div 2 ^ (abi.word * (k - 1))) % 2 ^ abi.word]
    BY <2>1, Zenon DEF ItemWords
  <2>3. QED
    BY <2>1, <2>2
<1>10. i.kind = "directive" => Taken(i.length, i.conv) = WordsOf(ArgBits(i))
  BY <1>3, <1>5, <1>6
<1>11. i.kind # "directive" => WordsOf(ArgBits(i)) = 0
  BY <1>3, <1>5
<1>12. Taken(i.length, i.conv) \in Nat
  BY <1>3, <1>4, <1>6
<1>13. QED
  BY <1>8, <1>9, <1>10, <1>11, <1>12, Zenon

\* Item k lies behind the k - 1 before it, in the format and in the words.
LEMMA TextPositions ==
  ASSUME CallOK
  PROVE  /\ TextAt(0) = 0 /\ TextAt(Len(items)) = Len(Text) /\ Len(Text) \in Nat
         /\ DOMAIN Text = 1 .. Len(Text)
         /\ \A k \in 0 .. Len(items) : TextAt(k) \in Nat
         /\ \A k \in 1 .. Len(items) :
              /\ TextAt(k) = TextAt(k - 1) + Len(ItemText(items[k]))
              /\ TextAt(k) <= Len(Text)
              /\ \A j \in 1 .. Len(ItemText(items[k])) :
                   Text[TextAt(k - 1) + j] = ItemText(items[k])[j]
<1>1. PICK n \in Nat : n = Len(items)
  BY CallFacts
<1>2. Texts \in [1 .. n -> Seq(Chars)] /\ \A k \in 1 .. n : Texts[k] = ItemText(items[k])
  <2>1. DOMAIN items = 1 .. n /\ \A k \in 1 .. n : items[k] \in Item
    BY <1>1, CallFacts, Zenon
  <2>2. \A k \in 1 .. n : ItemText(items[k]) \in Seq(Chars)
    BY <2>1, ItemReads, Zenon DEF Reads
  <2>3. QED
    BY <2>1, <2>2 DEF Texts
<1>3. Text = Joined(Texts, n) /\ Joined(Texts, 0) = <<>> /\ \A k \in 0 .. n : Joined(Texts, k) \in Seq(Chars)
  <2>1. Text = FlattenSeq(Texts)
    BY Zenon DEF Text, Texts
  <2>2. QED
    BY <1>2, <2>1, JoinedSteps, Zenon
<1>4. \A k \in 0 .. n : Len(Joined(Texts, k)) \in Nat
  BY <1>3
<1>5. Len(Text) \in Nat /\ DOMAIN Text = 1 .. Len(Text)
  <2>1. Text \in Seq(Chars)
    <3>1. n \in 0 .. n
      OBVIOUS
    <3>2. QED
      BY <1>3, <3>1, Zenon
  <2>2. QED
    BY <2>1
<1>6. TextAt(0) = 0
  BY <1>3 DEF TextAt
<1>7. ASSUME NEW k \in 1 .. n
      PROVE  /\ TextAt(k) = TextAt(k - 1) + Len(ItemText(items[k]))
             /\ TextAt(k) <= Len(Text)
             /\ \A j \in 1 .. Len(ItemText(items[k])) :
                  Text[TextAt(k - 1) + j] = ItemText(items[k])[j]
  <2>1. /\ Len(Joined(Texts, k)) = Len(Joined(Texts, k - 1)) + Len(Texts[k])
        /\ Len(Joined(Texts, k)) <= Len(Joined(Texts, n))
        /\ Follows(Joined(Texts, n), Joined(Texts, k - 1), Texts[k])
    BY <1>2, JoinedAt
  <2>2. QED
    BY <1>2, <1>3, <2>1, Zenon DEF TextAt, Follows
<1>8. QED
  BY <1>1, <1>3, <1>4, <1>5, <1>6, <1>7, Zenon DEF TextAt

LEMMA WordPositions ==
  ASSUME CallOK
  PROVE  /\ WordsAt(0) = 0 /\ WordsAt(Len(items)) = Len(Words)
         /\ \A k \in 0 .. Len(items) : WordsAt(k) \in Nat
         /\ \A k \in 1 .. Len(items) :
              /\ WordsAt(k) = WordsAt(k - 1) + Len(ItemWords(items[k]))
              /\ WordsAt(k) <= Len(Words)
              /\ WordsBefore(k) = WordsAt(k - 1)
<1>1. PICK n \in Nat : n = Len(items)
  BY CallFacts
<1> DEFINE X == UNION {{ItemWords(items[k])[j] : j \in DOMAIN ItemWords(items[k])} : k \in 1 .. n}
<1>2. DOMAIN items = 1 .. n /\ \A k \in 1 .. n : items[k] \in Item
  BY <1>1, CallFacts, Zenon
<1>3. Args \in [1 .. n -> Seq(X)] /\ \A k \in 1 .. n : Args[k] = ItemWords(items[k])
  <2>1. ASSUME NEW k \in 1 .. n
        PROVE  ItemWords(items[k]) \in Seq(X)
    <3>1. PICK m \in Nat : m = WordsOf(ArgBits(items[k]))
      BY <1>2, WordsTaken
    <3>2. DOMAIN ItemWords(items[k]) = 1 .. m
      BY <1>2, <3>1, WordsTaken, Zenon
    <3>3. \A j \in 1 .. m : ItemWords(items[k])[j] \in X
      BY <3>2
    <3>4. ItemWords(items[k]) = [j \in 1 .. m |-> ItemWords(items[k])[j]]
      BY <3>1, Zenon DEF ItemWords
    <3> HIDE DEF X
    <3>5. ItemWords(items[k]) \in [1 .. m -> X]
      BY <3>3, <3>4, Zenon
    <3>6. QED
      BY <3>5
  <2> HIDE DEF X
  <2>2. QED
    BY <1>2, <2>1 DEF Args
<1> HIDE DEF X
<1>4. Words = Joined(Args, n) /\ Joined(Args, 0) = <<>> /\ \A k \in 0 .. n : Joined(Args, k) \in Seq(X)
  <2>1. Words = FlattenSeq(Args)
    BY Zenon DEF Words, Args
  <2>2. QED
    BY <1>3, <2>1, JoinedSteps, Zenon
<1>5. \A k \in 0 .. n : Len(Joined(Args, k)) \in Nat
  BY <1>4
<1>6. WordsAt(0) = 0
  BY <1>4 DEF WordsAt
<1>7. ASSUME NEW k \in 1 .. n
      PROVE  /\ WordsAt(k) = WordsAt(k - 1) + Len(ItemWords(items[k]))
             /\ WordsAt(k) <= Len(Words)
             /\ WordsBefore(k) = WordsAt(k - 1)
  <2>1. /\ Len(Joined(Args, k)) = Len(Joined(Args, k - 1)) + Len(Args[k])
        /\ Len(Joined(Args, k)) <= Len(Joined(Args, n))
    BY <1>3, JoinedAt
  <2>2. [j \in 1 .. k - 1 |-> ItemWords(items[j])] = [j \in 1 .. k - 1 |-> Args[j]]
    <3>1. \A j \in 1 .. k - 1 : j \in 1 .. n
      OBVIOUS
    <3>2. \A j \in 1 .. k - 1 : ItemWords(items[j]) = Args[j]
      BY <1>3, <3>1, Zenon
    <3>3. QED
      BY <3>2
  <2>3. WordsBefore(k) = WordsAt(k - 1)
    BY <2>2, Zenon DEF WordsBefore, WordsAt, Joined
  <2>4. QED
    BY <1>3, <1>4, <2>1, <2>3, Zenon DEF WordsAt
<1>8. QED
  BY <1>1, <1>4, <1>5, <1>6, <1>7, Zenon DEF WordsAt

\* The characters of item k in the format.
LEMMA ItemChars ==
  ASSUME CallOK, NEW k \in 1 .. Len(items)
  PROVE  LET i == items[k]
             b == TextAt(k - 1)
             z == LengthSize(i.length)
         IN  /\ b \in Nat /\ TextAt(k) \in Nat /\ TextAt(k) <= Len(Text)
             /\ i.kind = "char" => TextAt(k) = b + 1 /\ Text[b + 1] = i.conv
             /\ i.kind # "char" =>
                  /\ TextAt(k) = b + z + (IF i.kind = "directive" THEN 2 ELSE 1)
                  /\ Text[b + 1] = "%"
                  /\ z >= 1 => Text[b + 2] = LengthChar(i.length)
                  /\ z = 2 => Text[b + 3] = LengthChar(i.length)
                  /\ i.kind = "directive" => Text[b + z + 2] = i.conv
<1> DEFINE i == items[k]
           b == TextAt(k - 1)
           z == LengthSize(i.length)
           t == ItemText(i)
<1>1. i \in Item /\ Reads(t, i)
  BY CallFacts, ItemReads
<1>2. /\ b \in Nat /\ TextAt(k) \in Nat /\ TextAt(k) = b + Len(t) /\ TextAt(k) <= Len(Text)
      /\ \A j \in 1 .. Len(t) : Text[b + j] = t[j]
  <2>1. k - 1 \in 0 .. Len(items) /\ k \in 0 .. Len(items)
    <3>1. PICK n \in Nat : n = Len(items)
      BY CallFacts, Zenon
    <3>2. k \in 1 .. n
      BY <3>1
    <3>3. k - 1 \in 0 .. n /\ k \in 0 .. n
      BY <3>2
    <3>4. QED
      BY <3>1, <3>3, Zenon
  <2>2. QED
    BY <2>1, TextPositions
<1>3. z \in 0 .. 2
  BY DEF LengthSize
<1> HIDE DEF i, b, z, t
<1>4. CASE i.kind = "char"
  <2>1. Len(t) = 1 /\ t[1] = i.conv
    BY <1>1, <1>4 DEF Reads
  <2>2. QED
    BY <1>2, <1>4, <2>1 DEF i, b, z
<1>5. CASE i.kind # "char"
  <2>1. /\ Len(t) = z + (IF i.kind = "directive" THEN 2 ELSE 1)
        /\ t[1] = "%"
        /\ z >= 1 => t[2] = LengthChar(i.length)
        /\ z = 2 => t[3] = LengthChar(i.length)
        /\ i.kind = "directive" => t[z + 2] = i.conv
    BY <1>1, <1>5 DEF Reads, z
  <2>2. /\ b + (z + 2) = b + z + 2
        /\ 1 \in 1 .. Len(t) /\ (z >= 1 => 2 \in 1 .. Len(t)) /\ (z = 2 => 3 \in 1 .. Len(t))
        /\ i.kind = "directive" => z + 2 \in 1 .. Len(t)
    BY <1>2, <1>3, <2>1
  <2>3. /\ TextAt(k) = b + z + (IF i.kind = "directive" THEN 2 ELSE 1)
        /\ Text[b + 1] = "%"
        /\ z >= 1 => Text[b + 2] = LengthChar(i.length)
        /\ z = 2 => Text[b + 3] = LengthChar(i.length)
    BY <1>2, <1>3, <2>1, <2>2
  <2>4. i.kind = "directive" => Text[b + z + 2] = i.conv
    BY <1>2, <2>1, <2>2
  <2>5. QED
    BY <1>2, <1>5, <2>3, <2>4 DEF i, b, z
<1>6. QED
  BY <1>4, <1>5 DEF i, b, z

-----------------------------------------------------------------------------
(* What the call prints, item by item. *)

\* What the conversion of each directive prints when its own argument is next.
Prints ==
  [k \in DOMAIN items |->
     IF items[k].kind = "directive"
     THEN Printed(WordsAt(k - 1) + 1, items[k].length, items[k].conv)
     ELSE <<>>]

\* The output a, and then that of item i, whose conversion prints x.
Then(a, i, x) ==
  CASE i.kind = "char" -> Append(a, i.conv)
    [] i.kind = "directive" ->
         IF i.conv \in Signed \cup Unsigned \cup {"c", "s", "%"} THEN a \o x ELSE a
    [] OTHER -> a

\* The outputs behind the first items of s, up to n.
IsLaid(f, s, x, n) ==
  f = [i \in 0 .. n |-> IF i = 0 THEN <<>> ELSE Then(f[i - 1], s[i], x[i])]

LaidOut(s, x) == CHOOSE f : IsLaid(f, s, x, Len(s))

Laid == LaidOut(items, Prints)

LEMMA LaidExists ==
  ASSUME NEW s, NEW x, NEW n \in Nat
  PROVE  \E f : IsLaid(f, s, x, n)
<1> DEFINE S == {k \in Nat : \E f : IsLaid(f, s, x, k)}
<1>1. 0 \in S
  <2>1. [i \in 0 .. 0 |-> <<>>] = [i \in 0 .. 0 |-> IF i = 0 THEN <<>>
           ELSE Then([j \in 0 .. 0 |-> <<>>][i - 1], s[i], x[i])]
    OBVIOUS
  <2>2. IsLaid([i \in 0 .. 0 |-> <<>>], s, x, 0)
    BY <2>1 DEF IsLaid
  <2>3. QED
    BY <2>2
<1>2. ASSUME NEW k \in Nat, k \in S
      PROVE  k + 1 \in S
  <2>1. PICK f : f = [i \in 0 .. k |-> IF i = 0 THEN <<>> ELSE Then(f[i - 1], s[i], x[i])]
    BY <1>2 DEF IsLaid
  <2> DEFINE g == [i \in 0 .. k + 1 |->
                     IF i = k + 1 THEN Then(f[k], s[i], x[i]) ELSE f[i]]
  <2>2. ASSUME NEW i \in 0 .. k + 1
        PROVE  g[i] = IF i = 0 THEN <<>> ELSE Then(g[i - 1], s[i], x[i])
    <3>1. CASE i = k + 1
      <4>1. g[k] = f[k] /\ i - 1 = k /\ i # 0
        BY <3>1
      <4>2. g[i] = Then(f[k], s[i], x[i])
        BY <3>1
      <4>3. QED
        BY <4>1, <4>2
    <3>2. CASE i # k + 1
      <4>1. i \in 0 .. k /\ g[i] = f[i]
        BY <3>2
      <4>2. i # 0 => i - 1 \in 0 .. k + 1 /\ i - 1 # k + 1
        BY <4>1
      <4>3. i # 0 => g[i - 1] = f[i - 1]
        BY <4>2
      <4>4. f[i] = IF i = 0 THEN <<>> ELSE Then(f[i - 1], s[i], x[i])
        BY <2>1, <4>1
      <4>5. QED
        BY <4>1, <4>3, <4>4
    <3>3. QED
      BY <3>1, <3>2
  <2>3. g = [i \in 0 .. k + 1 |-> g[i]]
    OBVIOUS
  <2> HIDE DEF g
  <2>4. IsLaid(g, s, x, k + 1)
    BY <2>2, <2>3 DEF IsLaid
  <2>5. QED
    BY <2>4
<1>3. Nat \subseteq S
  <2> HIDE DEF S
  <2>1. QED
    BY <1>1, <1>2, NumberInduction
<1>4. QED
  BY <1>3

LEMMA LaidSteps ==
  ASSUME CallOK
  PROVE  /\ Laid[0] = <<>>
         /\ \A k \in 1 .. Len(items) :
              /\ items[k].kind = "char" => Laid[k] = Append(Laid[k - 1], items[k].conv)
              /\ items[k].kind = "directive" =>
                   Laid[k] = Output(Laid[k - 1], WordsAt(k - 1) + 1, items[k].length, items[k].conv)
              /\ items[k].kind = "unfinished" => Laid[k] = Laid[k - 1]
<1>1. PICK n \in Nat : n = Len(items) /\ DOMAIN items = 1 .. n
  BY CallFacts
<1>2. IsLaid(Laid, items, Prints, n)
  <2>1. \E f : IsLaid(f, items, Prints, n)
    BY LaidExists
  <2>2. QED
    BY <1>1, <2>1, Zenon DEF Laid, LaidOut
<1>3. Laid = [i \in 0 .. n |-> IF i = 0 THEN <<>> ELSE Then(Laid[i - 1], items[i], Prints[i])]
  BY <1>2 DEF IsLaid
<1>4. Laid[0] = <<>>
  <2>1. 0 \in 0 .. n
    OBVIOUS
  <2>2. QED
    BY <1>3, <2>1
<1>5. ASSUME NEW k \in 1 .. n
      PROVE  /\ items[k].kind = "char" => Laid[k] = Append(Laid[k - 1], items[k].conv)
             /\ items[k].kind = "directive" =>
                  Laid[k] = Output(Laid[k - 1], WordsAt(k - 1) + 1, items[k].length, items[k].conv)
             /\ items[k].kind = "unfinished" => Laid[k] = Laid[k - 1]
  <2>1. k \in 0 .. n /\ k # 0
    OBVIOUS
  <2>2. Laid[k] = Then(Laid[k - 1], items[k], Prints[k])
    BY <1>3, <2>1
  <2>3. items[k].kind = "directive" =>
          Prints[k] = Printed(WordsAt(k - 1) + 1, items[k].length, items[k].conv)
    BY <1>1 DEF Prints
  <2>4. QED
    BY <2>2, <2>3 DEF Then, Output
<1>6. QED
  BY <1>1, <1>4, <1>5

-----------------------------------------------------------------------------
(* The call does not change, nor what is read from it. *)

LEMMA CallKept ==
  ASSUME UNCHANGED <<abi, items>>
  PROVE  /\ CallOK <=> CallOK'
         /\ Text' = Text /\ Words' = Words
         /\ \A k : TextAt(k)' = TextAt(k)
         /\ \A k : WordsAt(k)' = WordsAt(k)
<1>1. abi' = abi /\ items' = items
  OBVIOUS
<1>2. CallOK <=> CallOK'
  BY <1>1, Zenon DEF CallOK
<1>3. Text' = Text
  BY <1>1, Zenon DEF Text
<1>4. \A i : ArgBits(i)' = ArgBits(i)
  <2>1. \A l : TypeBits(l)' = TypeBits(l)
    BY <1>1, Zenon DEF TypeBits
  <2>2. ASSUME NEW i
        PROVE  ArgBits(i)' = ArgBits(i)
    <3>1. TypeBits(i.length)' = TypeBits(i.length)
      BY <2>1
    <3>2. QED
      BY <1>1, <3>1 DEF ArgBits
  <2>3. QED
    BY <2>2
<1>5. \A i : ItemWords(i)' = ItemWords(i)
  <2>1. \A b : WordsOf(b)' = WordsOf(b)
    BY <1>1, Zenon DEF WordsOf
  <2>2. QED
    BY <1>1, <1>4, <2>1 DEF ItemWords
<1>6. Words' = Words
  BY <1>1, <1>5, Zenon DEF Words
<1>7. Texts' = Texts
  BY <1>1, Zenon DEF Texts
<1>8. Args' = Args
  BY <1>1, <1>5, Zenon DEF Args
<1>9. \A k : TextAt(k)' = TextAt(k)
  BY <1>7, Zenon DEF TextAt
<1>10. \A k : WordsAt(k)' = WordsAt(k)
  BY <1>8, Zenon DEF WordsAt
<1>11. QED
  BY <1>2, <1>3, <1>6, <1>9, <1>10, Zenon

LEMMA PrintedKept ==
  ASSUME UNCHANGED <<abi, items>>
  PROVE  \A k, l, c : Printed(k, l, c)' = Printed(k, l, c)
<1>1. abi' = abi /\ Words' = Words
  BY CallKept, Zenon
<1>2. \A k : Word(k)' = Word(k)
  BY <1>1, Zenon DEF Word
<1>3. \A l : TypeBits(l)' = TypeBits(l)
  BY <1>1, Zenon DEF TypeBits
<1>4. \A k, b, s : VaArg(k, b, s)' = VaArg(k, b, s)
  BY <1>1, <1>2, Zenon DEF VaArg, WordsOf
<1>5. \A k, l, c : Number(k, l, c)' = Number(k, l, c)
  BY <1>1, <1>3, <1>4, Zenon DEF Number
<1>6. QED
  BY <1>2, <1>5, Zenon DEF Printed

LEMMA LaidKept ==
  ASSUME UNCHANGED <<abi, items>>
  PROVE  Laid' = Laid
<1>1. items' = items
  OBVIOUS
<1>2. \A k, l, c : Printed(k, l, c)' = Printed(k, l, c)
  BY PrintedKept
<1>3. \A k : WordsAt(k)' = WordsAt(k)
  BY CallKept
<1>4. Prints' = Prints
  BY <1>1, <1>2, <1>3, Zenon DEF Prints
<1>5. QED
  BY <1>1, <1>4, Zenon DEF Laid

-----------------------------------------------------------------------------
(* Where printf is. *)

\* What the five lengths are.
LEMMA LengthKinds ==
  ASSUME NEW l \in DOMAIN Lengths
  PROVE  /\ LengthSize(l) \in {0, 1, 2} /\ LengthChar(l) \in {"h", "l"}
         /\ LengthSize(l) = 0 => l = "none" /\ Extends(l) = {"h", "l"}
         /\ LengthSize(l) = 1 => l = LengthChar(l) /\ Extends(l) = {LengthChar(l)}
         /\ LengthSize(l) = 2 => l = (IF LengthChar(l) = "h" THEN "hh" ELSE "ll")
<1>1. l \in {"none", "hh", "h", "l", "ll"}
  BY LengthNames
<1>2. QED
  BY <1>1 DEF LengthSize, LengthChar, Extends

\* The item behind the first k.
LEMMA NextItem ==
  ASSUME CallOK, NEW k \in 0 .. Len(items), k # Len(items)
  PROVE  LET i == items[k + 1]
             b == TextAt(k)
             z == LengthSize(i.length)
         IN  /\ k + 1 \in 0 .. Len(items) /\ i \in Item /\ b \in Nat /\ z \in {0, 1, 2}
             /\ TextAt(k + 1) <= Len(Text) /\ Len(Text) \in Nat /\ TextAt(k + 1) \in Nat
             /\ i.kind \in {"char", "directive", "unfinished"}
             /\ i.kind = "char" =>
                  /\ TextAt(k + 1) = b + 1 /\ Text[b + 1] = i.conv
                  /\ WordsAt(k + 1) = WordsAt(k) /\ Laid[k + 1] = Append(Laid[k], i.conv)
                  /\ i.conv # "%" /\ i.conv # "NUL"
             /\ i.kind # "char" =>
                  /\ Text[b + 1] = "%"
                  /\ z >= 1 => Text[b + 2] = LengthChar(i.length)
                  /\ z = 2 => Text[b + 3] = LengthChar(i.length)
             /\ i.kind = "directive" =>
                  /\ TextAt(k + 1) = b + z + 2 /\ Text[b + z + 2] = i.conv
                  /\ WordsAt(k + 1) = WordsAt(k) + Taken(i.length, i.conv)
                  /\ Laid[k + 1] = Output(Laid[k], WordsAt(k) + 1, i.length, i.conv)
                  /\ i.conv \notin Extends(i.length) /\ i.conv # "NUL"
             /\ i.kind = "unfinished" =>
                  /\ TextAt(k + 1) = b + z + 1 /\ TextAt(k + 1) = Len(Text)
                  /\ WordsAt(k + 1) = WordsAt(k) /\ Laid[k + 1] = Laid[k] /\ k + 1 = Len(items)
             /\ WordsAt(k) \in Nat /\ WordsAt(k + 1) \in Nat /\ Taken(i.length, i.conv) \in Nat
<1>1. PICK n \in Nat : n = Len(items)
  BY CallFacts, Zenon
<1>2. PICK q \in 1 .. n : q = k + 1 /\ q - 1 = k /\ q \in 0 .. n /\ k \in 0 .. n
  BY <1>1
<1> DEFINE i == items[q]
           b == TextAt(k)
           z == LengthSize(i.length)
<1>3. /\ i \in Item
      /\ i.kind = "char" => i.conv # "%" /\ i.conv # "NUL"
      /\ i.kind = "directive" => i.conv \notin Extends(i.length) /\ i.conv # "NUL"
      /\ i.kind = "unfinished" => q = n
  BY <1>1, <1>2, CallFacts, Zenon
<1>4. /\ i.kind \in {"char", "directive", "unfinished"} /\ i.length \in DOMAIN Lengths
  BY <1>3 DEF Item
<1>5. z \in {0, 1, 2}
  BY <1>4, LengthKinds
<1>6. /\ b \in Nat /\ TextAt(q) \in Nat /\ TextAt(q) <= Len(Text)
      /\ i.kind = "char" => TextAt(q) = b + 1 /\ Text[b + 1] = i.conv
      /\ i.kind # "char" =>
           /\ TextAt(q) = b + z + (IF i.kind = "directive" THEN 2 ELSE 1)
           /\ Text[b + 1] = "%"
           /\ z >= 1 => Text[b + 2] = LengthChar(i.length)
           /\ z = 2 => Text[b + 3] = LengthChar(i.length)
           /\ i.kind = "directive" => Text[b + z + 2] = i.conv
  BY <1>1, <1>2, ItemChars, Zenon
<1>7. Len(Text) \in Nat /\ TextAt(n) = Len(Text)
  BY <1>1, TextPositions, Zenon
<1>8. /\ WordsAt(q) = WordsAt(k) + Len(ItemWords(i))
      /\ WordsAt(k) \in Nat /\ WordsAt(q) \in Nat
  BY <1>1, <1>2, WordPositions, Zenon
<1>9. /\ i.kind = "directive" => Len(ItemWords(i)) = Taken(i.length, i.conv)
      /\ i.kind # "directive" => Len(ItemWords(i)) = 0
      /\ Taken(i.length, i.conv) \in Nat
  BY <1>3, WordsTaken, Zenon
<1>10. /\ i.kind = "char" => Laid[q] = Append(Laid[k], i.conv)
       /\ i.kind = "directive" => Laid[q] = Output(Laid[k], WordsAt(k) + 1, i.length, i.conv)
       /\ i.kind = "unfinished" => Laid[q] = Laid[k]
  BY <1>1, <1>2, LaidSteps, Zenon
<1> HIDE DEF i, b, z
<1>11. /\ i.kind # "directive" => WordsAt(q) = WordsAt(k)
       /\ i.kind = "directive" => WordsAt(q) = WordsAt(k) + Taken(i.length, i.conv)
       /\ i.kind = "directive" => TextAt(q) = b + z + 2
       /\ i.kind = "unfinished" => TextAt(q) = b + z + 1 /\ TextAt(q) = Len(Text)
  BY <1>3, <1>4, <1>5, <1>6, <1>7, <1>8, <1>9
<1>12. /\ i.kind = "char" => i.kind # "directive"
       /\ i.kind = "directive" => i.kind # "char"
       /\ i.kind = "unfinished" => i.kind # "directive" /\ i.kind # "char"
  OBVIOUS
<1>13. QED
  BY <1>1, <1>2, <1>3, <1>4, <1>5, <1>6, <1>7, <1>8, <1>9, <1>10, <1>11, <1>12, Zenon DEF i, b, z

\* printf has read k items and j characters of the next one.
InItem(k, j) ==
  /\ at = TextAt(k) + 1 + j
  /\ arg = WordsAt(k) + 1 /\ out = Laid[k]
  /\ j = 0 => state = "normal" /\ length = "none"
  /\ j # 0 => /\ k # Len(items) /\ items[k + 1].kind # "char"
              /\ j <= 1 + LengthSize(items[k + 1].length)
  /\ j = 1 => state = "length" /\ length = "none"
  /\ j = 2 => /\ length = LengthChar(items[k + 1].length)
              /\ state = IF length = "h" THEN "short" ELSE "long"
  /\ j = 3 => state = "spec" /\ length = items[k + 1].length

PrintfInv == CallOK /\ \E k \in 0 .. Len(items), j \in {0, 1, 2, 3} : InItem(k, j)

\* An item read whole.
LEMMA ItemDone ==
  ASSUME CallOK, UNCHANGED <<abi, items>>, NEW k \in 0 .. Len(items), k # Len(items),
         at' = TextAt(k + 1) + 1, arg' = WordsAt(k + 1) + 1, out' = Laid[k + 1],
         state' = "normal", length' = "none"
  PROVE  PrintfInv'
<1>1. k + 1 \in 0 .. Len(items) /\ TextAt(k + 1) \in Nat
  BY NextItem, Zenon
<1>2. CallOK' /\ TextAt(k + 1)' = TextAt(k + 1) /\ WordsAt(k + 1)' = WordsAt(k + 1) /\ Laid' = Laid
  BY CallKept, LaidKept, Zenon
<1>3. TextAt(k + 1) + 1 + 0 = TextAt(k + 1) + 1
  BY <1>1
<1>4. InItem(k + 1, 0)'
  BY <1>2, <1>3 DEF InItem
<1>5. k + 1 \in (0 .. Len(items))'
  BY <1>1
<1>6. QED
  BY <1>2, <1>4, <1>5 DEF PrintfInv

\* One character more of an item.
LEMMA ItemGoesOn ==
  ASSUME CallOK, UNCHANGED <<abi, items>>, NEW k \in 0 .. Len(items), k # Len(items),
         NEW j \in {0, 1, 2},
         at = TextAt(k) + 1 + j, at' = at + 1,
         arg = WordsAt(k) + 1, out = Laid[k], UNCHANGED <<arg, out>>,
         items[k + 1].kind # "char", j <= LengthSize(items[k + 1].length),
         j = 0 => state' = "length" /\ length' = "none",
         j = 1 => /\ length' = LengthChar(items[k + 1].length)
                  /\ state' = IF length' = "h" THEN "short" ELSE "long",
         j = 2 => state' = "spec" /\ length' = items[k + 1].length
  PROVE  PrintfInv'
<1>1. CallOK' /\ TextAt(k)' = TextAt(k) /\ WordsAt(k)' = WordsAt(k) /\ Laid' = Laid /\ items' = items
  BY CallKept, LaidKept, Zenon
<1>2. TextAt(k) \in Nat /\ LengthSize(items[k + 1].length) \in {0, 1, 2}
  BY NextItem, Zenon
<1>3. PICK z \in {0, 1, 2} : z = LengthSize(items[k + 1].length) /\ j <= z
  BY <1>2
<1>4. PICK m \in {1, 2, 3} : m = j + 1 /\ m <= 1 + z /\ TextAt(k) + 1 + j + 1 = TextAt(k) + 1 + m
  BY <1>2, <1>3
<1>5. at' = TextAt(k) + 1 + m
  BY <1>4
<1>6. /\ m = 1 => j = 0
      /\ m = 2 => j = 1
      /\ m = 3 => j = 2
      /\ m # 0
  BY <1>4
<1>7. /\ m = 1 => state' = "length" /\ length' = "none"
      /\ m = 2 => /\ length' = LengthChar(items[k + 1].length)
                  /\ state' = IF length' = "h" THEN "short" ELSE "long"
      /\ m = 3 => state' = "spec" /\ length' = items[k + 1].length
  BY <1>6, Zenon
<1>8. InItem(k, m)'
  <2>1. arg' = WordsAt(k) + 1 /\ out' = Laid[k]
    BY Zenon
  <2>2. m <= 1 + LengthSize(items[k + 1].length)
    BY <1>3, <1>4, Zenon
  <2>3. QED
    BY <1>1, <1>5, <1>6, <1>7, <2>1, <2>2 DEF InItem
<1>9. QED
  BY <1>1, <1>8 DEF PrintfInv

LEMMA PrintfStarts ==
  ASSUME Init
  PROVE  PrintfInv
<1>1. CallOK
  BY DEF Init, CallOK
<1>2. TextAt(0) = 0 /\ WordsAt(0) = 0 /\ Laid[0] = <<>>
  BY <1>1, TextPositions, WordPositions, LaidSteps
<1>3. InItem(0, 0)
  BY <1>2 DEF Init, InItem
<1>4. 0 \in 0 .. Len(items)
  <2>1. Len(items) \in Nat
    BY <1>1, CallFacts, Zenon
  <2>2. QED
    BY <2>1
<1>5. QED
  BY <1>1, <1>3, <1>4 DEF PrintfInv

\* printf's place behind a turn of its loop.
LEMMA PrintfTurns ==
  ASSUME PrintfInv, PrintfStep
  PROVE  PrintfInv'
<1>1. CallOK
  BY DEF PrintfInv
<1>2. PICK k \in 0 .. Len(items), j \in {0, 1, 2, 3} : InItem(k, j)
  BY DEF PrintfInv
<1>3. /\ at \in DOMAIN Text /\ at' = at + 1 /\ UNCHANGED <<abi, items>>
      /\ Normal \/ Length \/ Short \/ Long \/ (state = "spec" /\ Specifier)
  BY DEF PrintfStep
<1>4. PICK m \in Nat : m = Len(Text) /\ DOMAIN Text = 1 .. m /\ TextAt(Len(items)) = m
  BY <1>1, TextPositions
<1>5. at = TextAt(k) + 1 + j /\ arg = WordsAt(k) + 1 /\ out = Laid[k]
  BY <1>2 DEF InItem
<1>6. k # Len(items)
  <2>1. SUFFICES ASSUME k = Len(items)
                 PROVE  FALSE
    OBVIOUS
  <2>2. j = 0 /\ TextAt(k) = m
    BY <1>2, <1>4, <2>1 DEF InItem
  <2>3. QED
    BY <1>3, <1>4, <1>5, <2>2
<1> DEFINE i == items[k + 1]
           b == TextAt(k)
           z == LengthSize(i.length)
<1>7. /\ i \in Item /\ b \in Nat /\ z \in {0, 1, 2}
      /\ i.kind \in {"char", "directive", "unfinished"}
      /\ i.kind = "char" =>
           /\ TextAt(k + 1) = b + 1 /\ Text[b + 1] = i.conv
           /\ WordsAt(k + 1) = WordsAt(k) /\ Laid[k + 1] = Append(Laid[k], i.conv)
           /\ i.conv # "%"
      /\ i.kind # "char" =>
           /\ Text[b + 1] = "%"
           /\ z >= 1 => Text[b + 2] = LengthChar(i.length)
           /\ z = 2 => Text[b + 3] = LengthChar(i.length)
      /\ i.kind = "directive" =>
           /\ TextAt(k + 1) = b + z + 2 /\ Text[b + z + 2] = i.conv
           /\ WordsAt(k + 1) = WordsAt(k) + Taken(i.length, i.conv)
           /\ Laid[k + 1] = Output(Laid[k], WordsAt(k) + 1, i.length, i.conv)
           /\ i.conv \notin Extends(i.length)
      /\ i.kind = "unfinished" => TextAt(k + 1) = b + z + 1 /\ TextAt(k + 1) = Len(Text)
      /\ WordsAt(k) \in Nat /\ Taken(i.length, i.conv) \in Nat
  BY <1>1, <1>6, NextItem, Zenon
<1>8. /\ i.length \in DOMAIN Lengths /\ LengthChar(i.length) \in {"h", "l"}
      /\ z = 0 => i.length = "none" /\ Extends(i.length) = {"h", "l"}
      /\ z = 1 => i.length = LengthChar(i.length) /\ Extends(i.length) = {LengthChar(i.length)}
      /\ z = 2 => i.length = (IF LengthChar(i.length) = "h" THEN "hh" ELSE "ll")
  <2>1. i.length \in DOMAIN Lengths
    BY <1>7, Zenon DEF Item
  <2>2. QED
    BY <2>1, LengthKinds, Zenon
<1>9. /\ j # 0 => i.kind # "char" /\ j <= 1 + z
      /\ j = 0 => state = "normal" /\ length = "none"
      /\ j = 1 => state = "length" /\ length = "none"
      /\ j = 2 => length = LengthChar(i.length) /\ state = IF length = "h" THEN "short" ELSE "long"
      /\ j = 3 => state = "spec" /\ length = i.length
  BY <1>2 DEF InItem
<1> HIDE DEF i, b, z
<1>10. j # 0 /\ j = 1 + z => i.kind = "directive" /\ at = b + z + 2
  <2>1. ASSUME j # 0, j = 1 + z, i.kind = "unfinished"
        PROVE  FALSE
    BY <1>3, <1>4, <1>5, <1>7, <2>1 DEF b
  <2>2. QED
    BY <1>5, <1>7, <1>9, <2>1 DEF b
<1>11. ASSUME j # 0, j = 1 + z, length = i.length, Specifier
       PROVE  PrintfInv'
  <2>1. i.kind = "directive" /\ at = b + z + 2
    BY <1>10, <1>11
  <2>2. /\ out' = Output(out, arg, length, Text[at]) /\ arg' = arg + Taken(length, Text[at])
        /\ state' = "normal" /\ length' = "none"
    BY <1>11 DEF Specifier
  <2>3. Text[at] = i.conv /\ TextAt(k + 1) = at
    BY <1>7, <2>1
  <2>4. out' = Laid[k + 1]
    BY <1>5, <1>7, <1>11, <2>1, <2>2, <2>3, Zenon
  <2>5. arg' = WordsAt(k + 1) + 1
    <3>1. arg' = WordsAt(k) + 1 + Taken(i.length, i.conv)
      BY <1>5, <1>11, <2>2, <2>3, Zenon
    <3>2. QED
      BY <1>7, <2>1, <3>1
  <2>6. at' = TextAt(k + 1) + 1
    BY <1>3, <2>3
  <2>7. QED
    BY <1>1, <1>3, <1>6, <2>2, <2>4, <2>5, <2>6, ItemDone, Zenon
<1>12. CASE j = 0
  <2>1. Normal /\ at = b + 1 /\ state = "normal" /\ length = "none"
    <3>1. state = "normal" /\ length = "none"
      BY <1>9, <1>12
    <3>2. Normal
      BY <1>3, <3>1 DEF Length, Short, Long
    <3>3. at = b + 1
      BY <1>5, <1>7, <1>12 DEF b
    <3>4. QED
      BY <3>1, <3>2, <3>3
  <2>2. CASE i.kind = "char"
    <3>1. Text[at] = i.conv /\ Text[at] # "%" /\ TextAt(k + 1) = at
      BY <1>7, <2>1, <2>2
    <3>2. out' = Append(out, Text[at]) /\ UNCHANGED <<state, length, arg>>
      BY <2>1, <3>1 DEF Normal
    <3>3. out' = Laid[k + 1] /\ arg' = WordsAt(k + 1) + 1 /\ state' = "normal" /\ length' = "none"
      BY <1>5, <1>7, <2>1, <2>2, <3>1, <3>2
    <3>4. at' = TextAt(k + 1) + 1
      BY <1>3, <3>1
    <3>5. QED
      BY <1>1, <1>3, <1>6, <3>3, <3>4, ItemDone, Zenon
  <2>3. CASE i.kind # "char"
    <3>1. Text[at] = "%"
      BY <1>7, <2>1, <2>3
    <3>2. state' = "length" /\ length' = "none" /\ UNCHANGED <<arg, out>>
      BY <2>1, <3>1 DEF Normal
    <3>3. 0 <= z
      BY <1>7
    <3>4. items[k + 1].kind # "char" /\ j <= LengthSize(items[k + 1].length)
      BY <1>12, <2>3, <3>3 DEF i, z
    <3>5. QED
      BY <1>1, <1>3, <1>5, <1>6, <1>12, <3>2, <3>4, ItemGoesOn
  <2>4. QED
    BY <2>2, <2>3
<1>13. CASE j = 1
  <2>1. Length /\ at = b + 2 /\ length = "none" /\ i.kind # "char"
    <3>1. state = "length" /\ length = "none" /\ i.kind # "char"
      BY <1>9, <1>13
    <3>2. Length
      BY <1>3, <3>1 DEF Normal, Short, Long
    <3>3. at = b + 2
      BY <1>5, <1>7, <1>13 DEF b
    <3>4. QED
      BY <3>1, <3>2, <3>3
  <2>2. CASE z = 0
    <3>1. i.kind = "directive" /\ at = b + z + 2
      BY <1>10, <1>13, <2>2
    <3>2. Text[at] = i.conv /\ Text[at] # "h" /\ Text[at] # "l"
      BY <1>7, <1>8, <2>2, <3>1
    <3>3. Specifier
      BY <2>1, <3>2 DEF Length
    <3>4. length = i.length /\ j # 0 /\ j = 1 + z
      BY <1>8, <1>13, <2>1, <2>2
    <3>5. QED
      BY <1>11, <3>3, <3>4
  <2>3. CASE z # 0
    <3>1. z >= 1 /\ 1 <= z
      BY <1>7, <2>3
    <3>2. Text[at] = LengthChar(i.length)
      BY <1>7, <2>1, <3>1
    <3>3. /\ length' = LengthChar(i.length) /\ UNCHANGED <<arg, out>>
          /\ state' = IF length' = "h" THEN "short" ELSE "long"
      BY <1>8, <2>1, <3>2 DEF Length, LengthIs
    <3>4. items[k + 1].kind # "char" /\ j <= LengthSize(items[k + 1].length)
      BY <1>13, <2>1, <3>1 DEF i, z
    <3>5. length' = LengthChar(items[k + 1].length)
      BY <3>3 DEF i
    <3>6. QED
      BY <1>1, <1>3, <1>5, <1>6, <1>13, <3>3, <3>4, <3>5, ItemGoesOn
  <2>4. QED
    BY <2>2, <2>3
<1>14. CASE j = 2
  <2>1. /\ at = b + 3 /\ length = LengthChar(i.length) /\ i.kind # "char" /\ z # 0
        /\ length = "h" => Short
        /\ length = "l" => Long
    <3>1. /\ length = LengthChar(i.length) /\ i.kind # "char" /\ j <= 1 + z
          /\ state = IF length = "h" THEN "short" ELSE "long"
      BY <1>9, <1>14
    <3>2. z # 0
      BY <1>7, <1>14, <3>1
    <3>3. length = "h" => Short
      BY <1>3, <3>1 DEF Normal, Length, Long
    <3>4. length = "l" => Long
      BY <1>3, <3>1 DEF Normal, Length, Short
    <3>5. at = b + 3
      BY <1>5, <1>7, <1>14 DEF b
    <3>6. QED
      BY <3>1, <3>2, <3>3, <3>4, <3>5
  <2>2. CASE z = 1
    <3>1. i.kind = "directive" /\ at = b + z + 2
      BY <1>10, <1>14, <2>2
    <3>2. Text[at] = i.conv /\ Text[at] # LengthChar(i.length)
      BY <1>7, <1>8, <2>2, <3>1
    <3>3. Specifier
      BY <1>8, <2>1, <3>2 DEF Short, Long
    <3>4. length = i.length /\ j # 0 /\ j = 1 + z
      BY <1>8, <1>14, <2>1, <2>2
    <3>5. QED
      BY <1>11, <3>3, <3>4
  <2>3. CASE z = 2
    <3>1. Text[at] = LengthChar(i.length)
      BY <1>7, <2>1, <2>3
    <3>2. state' = "spec" /\ length' = i.length /\ UNCHANGED <<arg, out>>
      BY <1>8, <2>1, <2>3, <3>1 DEF Short, Long, LengthIs
    <3>3. items[k + 1].kind # "char" /\ j <= LengthSize(items[k + 1].length)
      BY <1>14, <2>1, <2>3 DEF i, z
    <3>4. length' = items[k + 1].length
      BY <3>2 DEF i
    <3>5. QED
      BY <1>1, <1>3, <1>5, <1>6, <1>14, <3>2, <3>3, <3>4, ItemGoesOn
  <2>4. QED
    BY <1>7, <2>1, <2>2, <2>3
<1>15. CASE j = 3
  <2>1. z = 2 /\ state = "spec" /\ length = i.length
    BY <1>7, <1>9, <1>15
  <2>2. Specifier
    BY <1>3, <2>1 DEF Normal, Length, Short, Long
  <2>3. j # 0 /\ j = 1 + z
    BY <1>15, <2>1
  <2>4. QED
    BY <1>11, <2>1, <2>2, <2>3
<1>16. QED
  BY <1>12, <1>13, <1>14, <1>15

-----------------------------------------------------------------------------
(* Where vprintf is. *)

\* vprintf has read k items, and goes on from there or behind a directive cut short.
\* Without an item that the two parsers read differently it has printed what printf does.
ReadUpTo(k) ==
  /\ vat = TextAt(k) + 1 \/ (vat = Len(Text) + 2 /\ k = Len(items) /\ k # 0 /\ CutShort(items[k]))
  /\ varg \in 1 .. WordsAt(k) + 1
  /\ (\A m \in 1 .. k : ~ReadDifferently(items[m])) => vout = Laid[k] /\ varg = WordsAt(k) + 1

VprintfInv == CallOK /\ \E k \in 0 .. Len(items) : ReadUpTo(k)

LEMMA VprintfStarts ==
  ASSUME Init
  PROVE  VprintfInv
<1>1. CallOK
  BY DEF Init, CallOK
<1>2. TextAt(0) = 0 /\ WordsAt(0) = 0 /\ Laid[0] = <<>>
  BY <1>1, TextPositions, WordPositions, LaidSteps
<1>3. ReadUpTo(0)
  BY <1>2 DEF Init, ReadUpTo
<1>4. 0 \in 0 .. Len(items)
  <2>1. Len(items) \in Nat
    BY <1>1, CallFacts, Zenon
  <2>2. QED
    BY <2>1
<1>5. QED
  BY <1>1, <1>3, <1>4 DEF VprintfInv

\* Another item read.
LEMMA ItemRead ==
  ASSUME CallOK, UNCHANGED <<abi, items>>, NEW k \in 0 .. Len(items), k # Len(items),
         ReadUpTo(k),
         \/ vat' = TextAt(k + 1) + 1
         \/ vat' = Len(Text) + 2 /\ k + 1 = Len(items) /\ CutShort(items[k + 1]),
         varg' \in 1 .. WordsAt(k + 1) + 1,
         ~ReadDifferently(items[k + 1]) /\ vout = Laid[k] /\ varg = WordsAt(k) + 1
           => vout' = Laid[k + 1] /\ varg' = WordsAt(k + 1) + 1
  PROVE  VprintfInv'
<1>1. PICK n \in Nat : n = Len(items)
  BY CallFacts, Zenon
<1>2. PICK q \in 1 .. n : q = k + 1 /\ q \in 0 .. n /\ q # 0 /\ \A m \in 1 .. k : m \in 1 .. q
  BY <1>1
<1>3. /\ CallOK' /\ items' = items /\ Text' = Text
      /\ TextAt(q)' = TextAt(q) /\ WordsAt(q)' = WordsAt(q) /\ Laid' = Laid
  BY CallKept, LaidKept, Zenon
<1>4. /\ vat' = TextAt(q) + 1 \/ (vat' = Len(Text) + 2 /\ q = Len(items) /\ CutShort(items[q]))
      /\ varg' \in 1 .. WordsAt(q) + 1
  BY <1>2, Zenon
<1>5. ASSUME \A m \in 1 .. q : ~ReadDifferently(items[m])
      PROVE  vout' = Laid[q] /\ varg' = WordsAt(q) + 1
  <2>1. q \in 1 .. q
    BY <1>2
  <2>2. ~ReadDifferently(items[q])
    BY <1>5, <2>1, Zenon
  <2>3. vout = Laid[k] /\ varg = WordsAt(k) + 1
    BY <1>2, <1>5, Zenon DEF ReadUpTo
  <2>4. QED
    BY <1>2, <2>2, <2>3, Zenon
<1>6. ReadUpTo(q)'
  BY <1>2, <1>3, <1>4, <1>5, Zenon DEF ReadUpTo, ReadDifferently, CutShort
<1>7. q \in 0 .. Len(items')
  BY <1>1, <1>2, <1>3
<1>8. QED
  BY <1>3, <1>6, <1>7, Zenon DEF VprintfInv

\* vprintf's place behind a turn of its loop.
LEMMA VprintfTurns ==
  ASSUME VprintfInv, VprintfStep
  PROVE  VprintfInv'
<1>1. CallOK
  BY DEF VprintfInv
<1>2. PICK k \in 0 .. Len(items) : ReadUpTo(k)
  BY DEF VprintfInv
<1>3. /\ vat \in DOMAIN Text /\ UNCHANGED <<abi, items>>
      /\ IF Ch(vat) = "%" /\ Ch(vat + 1) # "NUL"
         THEN Directive
         ELSE vout' = Append(vout, Ch(vat)) /\ vat' = vat + 1 /\ UNCHANGED varg
  BY DEF VprintfStep
<1>4. PICK m \in Nat : m = Len(Text) /\ DOMAIN Text = 1 .. m /\ TextAt(Len(items)) = m
  BY <1>1, TextPositions
<1>5. vat = TextAt(k) + 1 /\ varg \in 1 .. WordsAt(k) + 1
  <2>1. vat # m + 2
    BY <1>3, <1>4
  <2>2. QED
    BY <1>2, <1>4, <2>1 DEF ReadUpTo
<1>6. k # Len(items)
  <2>1. SUFFICES ASSUME k = Len(items)
                 PROVE  FALSE
    OBVIOUS
  <2>2. vat = m + 1
    BY <1>4, <1>5, <2>1
  <2>3. QED
    BY <1>3, <1>4, <2>2
<1> DEFINE i == items[k + 1]
           b == TextAt(k)
           z == LengthSize(i.length)
<1>7. /\ i \in Item /\ b \in Nat /\ z \in {0, 1, 2} /\ TextAt(k + 1) <= m
      /\ i.kind \in {"char", "directive", "unfinished"}
      /\ i.kind = "char" =>
           /\ TextAt(k + 1) = b + 1 /\ Text[b + 1] = i.conv
           /\ WordsAt(k + 1) = WordsAt(k) /\ Laid[k + 1] = Append(Laid[k], i.conv)
           /\ i.conv # "%"
      /\ i.kind # "char" =>
           /\ Text[b + 1] = "%"
           /\ z >= 1 => Text[b + 2] = LengthChar(i.length)
           /\ z = 2 => Text[b + 3] = LengthChar(i.length)
      /\ i.kind = "directive" =>
           /\ TextAt(k + 1) = b + z + 2 /\ Text[b + z + 2] = i.conv
           /\ WordsAt(k + 1) = WordsAt(k) + Taken(i.length, i.conv)
           /\ Laid[k + 1] = Output(Laid[k], WordsAt(k) + 1, i.length, i.conv)
           /\ i.conv \notin Extends(i.length) /\ i.conv # "NUL"
      /\ i.kind = "unfinished" =>
           /\ TextAt(k + 1) = b + z + 1 /\ TextAt(k + 1) = m
           /\ WordsAt(k + 1) = WordsAt(k) /\ Laid[k + 1] = Laid[k] /\ k + 1 = Len(items)
      /\ WordsAt(k) \in Nat /\ Taken(i.length, i.conv) \in Nat
  BY <1>1, <1>4, <1>6, NextItem, Zenon
<1>8. /\ i.length \in DOMAIN Lengths /\ LengthChar(i.length) \in {"h", "l"}
      /\ z = 0 => i.length = "none" /\ Extends(i.length) = {"h", "l"}
      /\ z = 1 => i.length = LengthChar(i.length) /\ Extends(i.length) = {LengthChar(i.length)}
      /\ z = 2 => i.length = (IF LengthChar(i.length) = "h" THEN "hh" ELSE "ll")
      /\ Len(Lengths[i.length]) = z
  <2>1. i.length \in DOMAIN Lengths
    BY <1>7, Zenon DEF Item
  <2>2. QED
    BY <2>1, LengthKinds, LengthText, Zenon
<1> HIDE DEF i, b, z
\* An item of which all is read as printf does.
<1>9. ASSUME vat' = TextAt(k + 1) + 1 \/ (vat' = Len(Text) + 2 /\ i.kind = "unfinished" /\ CutShort(i)),
             varg' \in 1 .. WordsAt(k + 1) + 1,
             ~ReadDifferently(i) /\ vout = Laid[k] /\ varg = WordsAt(k) + 1
               => vout' = Laid[k + 1] /\ varg' = WordsAt(k + 1) + 1
      PROVE  VprintfInv'
  <2>1. i.kind = "unfinished" => k + 1 = Len(items)
    BY <1>7
  <2>2. \/ vat' = TextAt(k + 1) + 1
        \/ vat' = Len(Text) + 2 /\ k + 1 = Len(items) /\ CutShort(items[k + 1])
    BY <1>9, <2>1 DEF i
  <2>3. ~ReadDifferently(items[k + 1]) /\ vout = Laid[k] /\ varg = WordsAt(k) + 1
           => vout' = Laid[k + 1] /\ varg' = WordsAt(k + 1) + 1
    BY <1>9, Zenon DEF i
  <2>4. QED
    BY <1>1, <1>2, <1>3, <1>6, <1>9, <2>2, <2>3, ItemRead, Zenon
<1>10. vat = b + 1 /\ Ch(vat) = Text[b + 1]
  BY <1>3, <1>4, <1>5 DEF Ch, b
<1>11. CASE i.kind = "char"
  <2>1. Ch(vat) = i.conv /\ Ch(vat) # "%"
    BY <1>7, <1>10, <1>11
  <2>2. vout' = Append(vout, i.conv) /\ vat' = vat + 1 /\ varg' = varg
    BY <1>3, <2>1
  <2>3. vat' = TextAt(k + 1) + 1 /\ varg' \in 1 .. WordsAt(k + 1) + 1
    BY <1>5, <1>7, <1>10, <1>11, <2>2
  <2>4. vout = Laid[k] /\ varg = WordsAt(k) + 1 => vout' = Laid[k + 1] /\ varg' = WordsAt(k + 1) + 1
    BY <1>7, <1>11, <2>2
  <2>5. QED
    BY <1>9, <2>3, <2>4, Zenon
<1>12. CASE i.kind # "char"
  <2> DEFINE e == IF i.kind = "directive" THEN i.conv ELSE "NUL"
             c == Ch(vat + 1)
             l == CASE c = "h" -> (IF Ch(vat + 2) = "h" THEN "hh" ELSE "h")
                    [] c = "l" -> (IF Ch(vat + 2) = "l" THEN "ll" ELSE "l")
                    [] OTHER   -> "none"
             conv == Ch(vat + 1 + Len(Lengths[l]))
  <2>1. Ch(vat) = "%"
    BY <1>7, <1>10, <1>12
  <2>2. Ch(b + z + 2) = e
    <3>1. CASE i.kind = "directive"
      <4>1. b + z + 2 \in 1 .. m /\ Text[b + z + 2] = i.conv
        BY <1>7, <3>1
      <4>2. QED
        BY <1>4, <3>1, <4>1 DEF Ch
    <3>2. CASE i.kind # "directive"
      <4>1. b + z + 2 \notin 1 .. m
        BY <1>7, <1>12, <3>2
      <4>2. QED
        BY <1>4, <3>2, <4>1 DEF Ch
    <3>3. QED
      BY <3>1, <3>2
  <2>3. /\ z >= 1 => Ch(b + 2) = LengthChar(i.length)
        /\ z = 2 => Ch(b + 3) = LengthChar(i.length)
    <3>1. /\ z >= 1 => b + 2 \in 1 .. m
          /\ z = 2 => b + 3 \in 1 .. m
      BY <1>7, <1>12
    <3>2. QED
      BY <1>4, <1>7, <1>12, <3>1 DEF Ch
  <2>4. e \notin Extends(i.length) /\ (e = "NUL" <=> i.kind = "unfinished")
    BY <1>7, <1>12 DEF Extends
  <2> HIDE DEF e
  <2>5. vat + 1 = b + 2 /\ vat + 2 = b + 3
    BY <1>7, <1>10
  <2>6. l = i.length
    <3>1. CASE z = 0
      <4>1. c = e /\ c # "h" /\ c # "l"
        BY <1>7, <1>8, <2>2, <2>4, <2>5, <3>1
      <4>2. QED
        BY <1>8, <3>1, <4>1
    <3>2. CASE z = 1
      <4>1. z >= 1 /\ b + z + 2 = b + 3
        BY <1>7, <3>2
      <4>2. c = LengthChar(i.length) /\ Ch(vat + 2) = e
        BY <2>2, <2>3, <2>5, <4>1
      <4>3. e # LengthChar(i.length)
        BY <1>8, <2>4, <3>2
      <4>4. QED
        BY <1>8, <3>2, <4>2, <4>3
    <3>3. CASE z = 2
      <4>1. c = LengthChar(i.length) /\ Ch(vat + 2) = LengthChar(i.length)
        BY <2>3, <2>5, <3>3
      <4>2. QED
        BY <1>8, <3>3, <4>1
    <3>4. QED
      BY <1>7, <3>1, <3>2, <3>3
  <2>7. Len(Lengths[l]) = z /\ conv = e
    <3>1. Len(Lengths[l]) = z
      BY <1>8, <2>6
    <3>2. vat + 1 + z = b + z + 2
      BY <1>7, <1>10
    <3>3. QED
      BY <2>2, <3>1, <3>2
  <2>8. Directive =>
          /\ IF l = "none" \/ conv \in Signed \cup Unsigned
             THEN vout' = Output(vout, varg, l, conv) /\ varg' = varg + Taken(l, conv)
             ELSE UNCHANGED <<vout, varg>>
          /\ vat' = vat + Skip(l)
    BY Zenon DEF Directive
  <2> HIDE DEF l, conv
  <2>9. vat + Skip(l) = b + z + 3
    BY <1>7, <1>10, <2>7 DEF Skip
  <2>10. i.length = "none" <=> z = 0
    BY <1>8 DEF z, LengthSize
  <2>11. CASE i.kind = "unfinished" /\ z = 0
    <3>1. c = "NUL"
      BY <1>7, <2>2, <2>4, <2>5, <2>11
    <3>2. vat' = vat + 1 /\ varg' = varg
      BY <1>3, <2>1, <3>1
    <3>3. vat' = TextAt(k + 1) + 1 /\ varg' \in 1 .. WordsAt(k + 1) + 1
      BY <1>5, <1>7, <1>10, <2>11, <3>2
    <3>4. ReadDifferently(i)
      BY <1>8, <2>11 DEF ReadDifferently
    <3>5. QED
      BY <1>9, <3>3, <3>4, Zenon
  <2>12. CASE i.kind = "unfinished" /\ z # 0
    <3>1. c # "NUL"
      BY <1>7, <1>8, <2>3, <2>5, <2>12
    <3>2. Directive
      BY <1>3, <2>1, <3>1
    <3>3. l # "none" /\ conv \notin Signed \cup Unsigned
      <4>1. conv = "NUL"
        BY <2>4, <2>7, <2>12
      <4>2. QED
        BY <2>6, <2>10, <2>12, <4>1 DEF Signed, Unsigned
    <3>4. varg' = varg /\ vout' = vout /\ vat' = b + z + 3
      BY <2>8, <2>9, <3>2, <3>3
    <3>5. vat' = Len(Text) + 2 /\ CutShort(i)
      BY <1>4, <1>7, <2>10, <2>12, <3>4 DEF CutShort
    <3>6. /\ varg' \in 1 .. WordsAt(k + 1) + 1
          /\ vout = Laid[k] /\ varg = WordsAt(k) + 1
               => vout' = Laid[k + 1] /\ varg' = WordsAt(k + 1) + 1
      BY <1>5, <1>7, <2>12, <3>4
    <3>7. QED
      BY <1>9, <2>12, <3>5, <3>6, Zenon
  <2>13. CASE i.kind = "directive"
    <3>1. c # "NUL"
      <4>1. CASE z = 0
        BY <1>7, <2>2, <2>4, <2>5, <2>13, <4>1
      <4>2. CASE z # 0
        BY <1>7, <1>8, <2>3, <2>5, <4>2
      <4>3. QED
        BY <4>1, <4>2
    <3>2. Directive
      BY <1>3, <2>1, <3>1
    <3>3. conv = i.conv
      BY <2>7, <2>13 DEF e
    <3>4. vat' = TextAt(k + 1) + 1
      BY <1>7, <2>8, <2>9, <2>13, <3>2
    <3>5. CASE l = "none" \/ conv \in Signed \cup Unsigned
      <4>1. vout' = Output(vout, varg, i.length, i.conv) /\ varg' = varg + Taken(i.length, i.conv)
        BY <2>6, <2>8, <3>2, <3>3, <3>5
      <4>2. varg' \in 1 .. WordsAt(k + 1) + 1
        BY <1>5, <1>7, <2>13, <4>1
      <4>3. vout = Laid[k] /\ varg = WordsAt(k) + 1
              => vout' = Laid[k + 1] /\ varg' = WordsAt(k + 1) + 1
        BY <1>7, <2>13, <4>1
      <4>4. QED
        BY <1>9, <3>4, <4>2, <4>3, Zenon
    <3>6. CASE ~(l = "none" \/ conv \in Signed \cup Unsigned)
      <4>1. vout' = vout /\ varg' = varg
        BY <2>8, <3>2, <3>6
      <4>2. varg' \in 1 .. WordsAt(k + 1) + 1
        BY <1>5, <1>7, <2>13, <4>1
      <4>3. ASSUME ~ReadDifferently(i), vout = Laid[k], varg = WordsAt(k) + 1
            PROVE  vout' = Laid[k + 1] /\ varg' = WordsAt(k + 1) + 1
        <5>1. i.conv \notin Signed \cup Unsigned /\ i.conv \notin {"c", "s", "%"}
          BY <2>6, <2>13, <3>3, <3>6, <4>3 DEF ReadDifferently
        <5>2. Laid[k + 1] = Laid[k]
          BY <1>7, <2>13, <5>1 DEF Output
        <5>3. Taken(i.length, i.conv) = 0
          BY <5>1 DEF Taken
        <5>4. QED
          BY <1>7, <2>13, <4>1, <4>3, <5>2, <5>3
      <4>4. QED
        BY <1>9, <3>4, <4>2, <4>3, Zenon
    <3>7. QED
      BY <3>5, <3>6
  <2>14. QED
    BY <1>7, <1>12, <2>11, <2>12, <2>13
<1>13. QED
  BY <1>11, <1>12

-----------------------------------------------------------------------------
(* The theorems. *)

\* Both parsers keep their place in the call, whatever they do.
LEMMA PlacesKept == Spec => [](PrintfInv /\ VprintfInv)
<1>1. Init => PrintfInv /\ VprintfInv
  BY PrintfStarts, VprintfStarts
<1>2. PrintfInv /\ VprintfInv /\ [Next]_vars => (PrintfInv /\ VprintfInv)'
  <2> SUFFICES ASSUME PrintfInv, VprintfInv, [Next]_vars
               PROVE  PrintfInv' /\ VprintfInv'
    OBVIOUS
  <2>1. ASSUME UNCHANGED <<abi, items, printfVars>>
        PROVE  PrintfInv'
    <3>1. PICK k \in 0 .. Len(items), j \in {0, 1, 2, 3} : CallOK /\ InItem(k, j)
      BY DEF PrintfInv
    <3>2. /\ CallOK' /\ TextAt(k)' = TextAt(k) /\ WordsAt(k)' = WordsAt(k) /\ Laid' = Laid
          /\ items' = items
      BY <2>1, <3>1, CallKept, LaidKept
    <3>3. InItem(k, j)'
      BY <2>1, <3>1, <3>2 DEF InItem, printfVars
    <3>4. QED
      BY <3>2, <3>3 DEF PrintfInv
  <2>2. ASSUME UNCHANGED <<abi, items, vprintfVars>>
        PROVE  VprintfInv'
    <3>1. PICK k \in 0 .. Len(items) : CallOK /\ ReadUpTo(k)
      BY DEF VprintfInv
    <3>2. /\ CallOK' /\ TextAt(k)' = TextAt(k) /\ WordsAt(k)' = WordsAt(k) /\ Laid' = Laid
          /\ items' = items /\ Text' = Text
      BY <2>2, <3>1, CallKept, LaidKept
    <3>3. vat' = vat /\ varg' = varg /\ vout' = vout
      BY <2>2 DEF vprintfVars
    <3>4. ReadUpTo(k)'
      BY <3>1, <3>2, <3>3, Zenon DEF ReadUpTo, ReadDifferently, CutShort
    <3>5. k \in 0 .. Len(items')
      BY <3>2
    <3>6. QED
      BY <3>2, <3>4, <3>5, Zenon DEF VprintfInv
  <2>3. CASE PrintfStep
    <3>1. PrintfInv'
      BY <2>3, PrintfTurns
    <3>2. UNCHANGED <<abi, items, vprintfVars>>
      BY <2>3 DEF PrintfStep
    <3>3. QED
      BY <2>2, <3>1, <3>2
  <2>4. CASE VprintfStep
    <3>1. VprintfInv'
      BY <2>4, VprintfTurns
    <3>2. UNCHANGED <<abi, items, printfVars>>
      BY <2>4 DEF VprintfStep
    <3>3. QED
      BY <2>1, <3>1, <3>2
  <2>5. CASE UNCHANGED vars
    <3>1. UNCHANGED <<abi, items, printfVars>> /\ UNCHANGED <<abi, items, vprintfVars>>
      BY <2>5 DEF vars
    <3>2. QED
      BY <2>1, <2>2, <3>1
  <2>6. QED
    BY <2>3, <2>4, <2>5 DEF Next
<1>3. QED
  BY <1>1, <1>2, PTL DEF Spec

\* Where printf ends: behind all the items, or in the last one if it is unfinished, and
\* either way with what all of them print.
LEMMA PrintfEnds ==
  ASSUME PrintfInv
  PROVE  /\ at \in 1 .. Len(Text) + 1 /\ arg \in 1 .. Len(Words) + 1 /\ Len(Words) \in Nat
         /\ at = Len(Text) + 1 => out = Laid[Len(items)] /\ arg = Len(Words) + 1
<1>1. PICK k \in 0 .. Len(items), j \in {0, 1, 2, 3} : CallOK /\ InItem(k, j)
  BY DEF PrintfInv
<1>2. PICK n \in Nat : n = Len(items)
  BY <1>1, CallFacts, Zenon
<1>3. PICK m \in Nat : m = Len(Text) /\ TextAt(n) = m
  BY <1>1, <1>2, TextPositions, Zenon
<1>4. PICK w \in Nat : w = Len(Words) /\ WordsAt(n) = w
  <2>1. n \in 0 .. n
    OBVIOUS
  <2>2. WordsAt(n) = Len(Words) /\ WordsAt(n) \in Nat
    BY <1>1, <1>2, <2>1, WordPositions, Zenon
  <2>3. QED
    BY <2>2
<1>5. at = TextAt(k) + 1 + j /\ arg = WordsAt(k) + 1 /\ out = Laid[k]
  BY <1>1 DEF InItem
<1>6. TextAt(k) \in Nat /\ WordsAt(k) \in Nat
  BY <1>1, TextPositions, WordPositions, Zenon
<1>7. CASE k = n
  <2>1. j = 0
    BY <1>1, <1>2, <1>7 DEF InItem
  <2>2. QED
    BY <1>2, <1>3, <1>4, <1>5, <1>7, <2>1
<1>8. CASE k # n
  <2> DEFINE i == items[k + 1]
             b == TextAt(k)
             z == LengthSize(i.length)
  <2>1. /\ z \in {0, 1, 2} /\ TextAt(k + 1) <= m
        /\ i.kind \in {"char", "directive", "unfinished"}
        /\ i.kind = "char" => TextAt(k + 1) = b + 1
        /\ i.kind = "directive" => TextAt(k + 1) = b + z + 2
        /\ i.kind = "unfinished" =>
             /\ TextAt(k + 1) = b + z + 1
             /\ WordsAt(k + 1) = WordsAt(k) /\ Laid[k + 1] = Laid[k] /\ k + 1 = n
    BY <1>1, <1>2, <1>3, <1>8, NextItem, Zenon
  <2>2. j # 0 => i.kind # "char" /\ j <= 1 + z
    BY <1>1 DEF InItem
  <2>3. WordsAt(k) <= w
    <3>1. k + 1 \in 1 .. n /\ (k + 1) - 1 = k
      BY <1>2, <1>8
    <3>2. WordsAt(k + 1) = WordsAt(k) + Len(ItemWords(items[k + 1])) /\ WordsAt(k + 1) <= w
      BY <1>1, <1>2, <1>4, <3>1, WordPositions, Zenon
    <3>3. Len(ItemWords(items[k + 1])) \in Nat
      <4>1. items[k + 1] \in Item
        BY <1>1, <1>2, <3>1, CallFacts, Zenon
      <4>2. QED
        BY <1>1, <4>1, WordsTaken, Zenon
    <3>4. QED
      BY <1>4, <1>6, <3>2, <3>3
  <2> HIDE DEF i, b, z
  <2>4. at \in 1 .. m + 1
    <3>1. b \in Nat /\ at = b + 1 + j
      BY <1>5, <1>6 DEF b
    <3>2. CASE i.kind = "char"
      BY <1>3, <2>1, <2>2, <3>1, <3>2
    <3>3. CASE i.kind = "directive"
      <4>1. j <= 1 + z
        BY <2>1, <2>2, <3>3
      <4>2. b + z + 2 <= m
        BY <2>1, <3>3
      <4>3. QED
        BY <1>3, <2>1, <3>1, <4>1, <4>2
    <3>4. CASE i.kind = "unfinished"
      <4>1. j <= 1 + z
        BY <2>1, <2>2, <3>4
      <4>2. b + z + 1 <= m
        BY <2>1, <3>4
      <4>3. QED
        BY <1>3, <2>1, <3>1, <4>1, <4>2
    <3>5. QED
      BY <2>1, <3>2, <3>3, <3>4
  <2>5. ASSUME at = m + 1
        PROVE  out = Laid[n] /\ arg = w + 1
    <3>1. i.kind = "unfinished"
      BY <1>3, <1>5, <1>6, <2>1, <2>2, <2>5 DEF b
    <3>2. QED
      BY <1>4, <1>5, <2>1, <3>1
  <2>6. QED
    BY <1>2, <1>3, <1>4, <1>5, <1>6, <2>3, <2>4, <2>5
<1>9. QED
  BY <1>7, <1>8

\* The two parsers keep to the format and to the arguments, but for vprintf behind a
\* length with which the format ends.
THEOREM StaysInCall == Spec => []TypeOK
<1>1. PrintfInv /\ VprintfInv => TypeOK
  <2> SUFFICES ASSUME PrintfInv, VprintfInv
               PROVE  TypeOK
    OBVIOUS
  <2>1. PICK k \in 0 .. Len(items), j \in {0, 1, 2, 3} : CallOK /\ InItem(k, j)
    BY DEF PrintfInv
  <2>2. PICK q \in 0 .. Len(items) : ReadUpTo(q)
    BY DEF VprintfInv
  <2>3. at \in 1 .. Len(Text) + 1 /\ arg \in 1 .. Len(Words) + 1
    BY PrintfEnds
  <2>4. /\ state \in {"normal", "length", "short", "long", "spec"}
        /\ length \in DOMAIN Lengths /\ (state = "normal" => length = "none")
    <3>1. CASE j \in {0, 1}
      BY <2>1, <3>1, LengthNames DEF InItem
    <3>2. CASE j \in {2, 3}
      <4>1. k # Len(items)
        BY <2>1, <3>2 DEF InItem
      <4>2. items[k + 1].length \in DOMAIN Lengths
        <5>1. items[k + 1] \in Item
          BY <2>1, <4>1, NextItem, Zenon
        <5>2. QED
          BY <5>1 DEF Item
      <4>3. LengthChar(items[k + 1].length) \in DOMAIN Lengths
        BY LengthNames DEF LengthChar
      <4>4. CASE j = 2
        BY <2>1, <4>3, <4>4 DEF InItem
      <4>5. CASE j = 3
        BY <2>1, <4>2, <4>5 DEF InItem
      <4>6. QED
        BY <3>2, <4>4, <4>5
    <3>3. QED
      BY <3>1, <3>2
  <2>5. varg \in 1 .. Len(Words) + 1
    <3>1. varg \in 1 .. WordsAt(q) + 1 /\ WordsAt(q) \in Nat
      BY <2>1, <2>2, WordPositions DEF ReadUpTo
    <3>2. WordsAt(q) <= Len(Words) /\ Len(Words) \in Nat
      <4>1. PICK w \in Nat : w = Len(Words)
        BY PrintfEnds, Zenon
      <4>2. CASE q = 0
        BY <2>1, <4>1, <4>2, WordPositions
      <4>3. CASE q # 0
        <5>1. q \in 1 .. Len(items)
          BY <4>3
        <5>2. QED
          BY <2>1, <4>1, <5>1, WordPositions
      <4>4. QED
        BY <4>2, <4>3
    <3>3. QED
      BY <3>1, <3>2
  <2>6. vat \in 1 .. Len(Text) + 1 \/ (vat = Len(Text) + 2 /\ CutShort(Last(items)))
    <3>1. Len(Text) \in Nat /\ TextAt(q) \in Nat
      BY <2>1, <2>2, TextPositions
    <3>2. TextAt(q) <= Len(Text)
      <4>1. CASE q = 0
        BY <2>1, <3>1, <4>1, TextPositions
      <4>2. CASE q # 0
        <5>1. q \in 1 .. Len(items)
          BY <4>2
        <5>2. QED
          BY <2>1, <5>1, TextPositions
      <4>3. QED
        BY <4>1, <4>2
    <3>3. CASE vat = TextAt(q) + 1
      BY <3>1, <3>2, <3>3
    <3>4. CASE vat # TextAt(q) + 1
      BY <2>2, <3>4 DEF ReadUpTo, Last
    <3>5. QED
      BY <3>3, <3>4
  <2>7. QED
    BY <2>3, <2>4, <2>5, <2>6, Zenon DEF TypeOK
<1>2. QED
  BY <1>1, PlacesKept, PTL

\* Without an item that they read differently vprintf prints what printf does, from the
\* same arguments, whatever the conversions print.
THEOREM ParsersAgree == Spec => []VprintfAgrees
<1>1. PrintfInv /\ VprintfInv => VprintfAgrees
  <2> SUFFICES ASSUME PrintfInv, VprintfInv, at > Len(Text), vat > Len(Text),
                      \A k \in DOMAIN items : ~ReadDifferently(items[k])
               PROVE  vout = out /\ varg = arg
    BY DEF VprintfAgrees
  <2>1. PICK q \in 0 .. Len(items) : CallOK /\ ReadUpTo(q)
    BY DEF VprintfInv
  <2>2. PICK n \in Nat : n = Len(items) /\ DOMAIN items = 1 .. n
    BY <2>1, CallFacts, Zenon
  <2>3. PICK m \in Nat : m = Len(Text) /\ TextAt(n) = m
    BY <2>1, <2>2, TextPositions, Zenon
  <2>4. out = Laid[n] /\ arg = Len(Words) + 1
    <3>1. at \in 1 .. m + 1 /\ at > m
      BY <2>3, PrintfEnds
    <3>2. at = m + 1
      BY <3>1
    <3>3. QED
      BY <2>2, <2>3, <3>2, PrintfEnds
  <2>5. vout = Laid[q] /\ varg = WordsAt(q) + 1
    BY <2>1, <2>2 DEF ReadUpTo
  <2>6. q = n
    <3>1. SUFFICES ASSUME q # n
                   PROVE  FALSE
      OBVIOUS
    <3>2. vat = TextAt(q) + 1
      BY <2>1, <2>2, <3>1 DEF ReadUpTo
    <3>3. /\ items[q + 1].kind \in {"char", "directive", "unfinished"} /\ TextAt(q) \in Nat
          /\ TextAt(q + 1) <= m /\ LengthSize(items[q + 1].length) \in {0, 1, 2}
          /\ items[q + 1].kind = "char" => TextAt(q + 1) = TextAt(q) + 1
          /\ items[q + 1].kind = "directive" =>
               TextAt(q + 1) = TextAt(q) + LengthSize(items[q + 1].length) + 2
          /\ items[q + 1].kind = "unfinished" =>
               TextAt(q + 1) = TextAt(q) + LengthSize(items[q + 1].length) + 1
      BY <2>1, <2>2, <2>3, <3>1, NextItem, Zenon
    <3>4. vat > m
      BY <2>3
    <3>5. QED
      BY <2>3, <3>2, <3>3, <3>4
  <2>7. WordsAt(n) = Len(Words)
    BY <2>1, <2>2, WordPositions
  <2>8. QED
    BY <2>4, <2>5, <2>6, <2>7
<1>2. QED
  BY <1>1, PlacesKept, PTL

\* When each conversion is right, what is laid out is what the caller means, joined.
LEMMA LaidRight ==
  ASSUME CallOK, ConversionsRight
  PROVE  Laid[Len(items)] = FlattenSeq([k \in DOMAIN items |-> ItemRendered(items[k])])
<1> DEFINE s == [k \in DOMAIN items |-> ItemRendered(items[k])]
<1>1. PICK n \in Nat : n = Len(items) /\ DOMAIN items = 1 .. n
  BY CallFacts
<1>2. /\ DOMAIN s = 1 .. n /\ s = [k \in 1 .. n |-> s[k]]
       /\ \A k \in 1 .. n : s[k] = ItemRendered(items[k])
  BY <1>1
<1> HIDE DEF s
<1>3. ASSUME NEW k \in 1 .. n
      PROVE  /\ s[k] \in Seq(Chars)
             /\ items[k].kind \in {"char", "directive", "unfinished"}
             /\ items[k].kind = "char" => s[k] = <<items[k].conv>> /\ items[k].conv \in Chars
             /\ items[k].kind = "directive" =>
                  s[k] = Printed(WordsAt(k - 1) + 1, items[k].length, items[k].conv)
             /\ items[k].kind = "unfinished" => s[k] = <<>>
  <2>1. s[k] = ItemRendered(items[k])
    BY <1>2
  <2>2. items[k] \in Item
    BY <1>1, CallFacts, Zenon
  <2>3. items[k].kind \in {"char", "directive", "unfinished"} /\ items[k].conv \in Chars
    BY <2>2, Literals DEF Item
  <2>4. CASE items[k].kind = "char"
    <3>1. s[k] = <<items[k].conv>>
      BY <2>1, <2>4 DEF ItemRendered
    <3>2. QED
      BY <2>3, <2>4, <3>1
  <2>5. CASE items[k].kind = "directive"
    <3>1. /\ ItemRendered(items[k]) \in Seq(STRING)
          /\ Printed(WordsBefore(k) + 1, items[k].length, items[k].conv) = ItemRendered(items[k])
      BY <1>1, <2>5, Zenon DEF ConversionsRight
    <3>2. WordsBefore(k) = WordsAt(k - 1)
      BY <1>1, WordPositions, Zenon
    <3>3. s[k] \in Seq(Chars)
      <4>1. Seq(STRING) \subseteq Seq(Chars)
        BY SeqMonotonic, Literals, Zenon
      <4>2. QED
        BY <2>1, <3>1, <4>1
    <3>4. s[k] = Printed(WordsAt(k - 1) + 1, items[k].length, items[k].conv)
      BY <2>1, <3>1, <3>2, Zenon
    <3>5. QED
      BY <2>3, <2>5, <3>3, <3>4
  <2>6. CASE items[k].kind = "unfinished"
    <3>1. s[k] = <<>>
      BY <2>1, <2>6 DEF ItemRendered
    <3>2. <<>> \in Seq(Chars)
      OBVIOUS
    <3>3. QED
      BY <2>3, <2>6, <3>1, <3>2
  <2>7. QED
    BY <2>3, <2>4, <2>5, <2>6
<1>4. s \in [1 .. n -> Seq(Chars)]
  <2>1. \A k \in 1 .. n : s[k] \in Seq(Chars)
    BY <1>3
  <2>2. QED
    BY <1>2, <2>1
<1>5. /\ Joined(s, 0) = <<>> /\ FlattenSeq(s) = Joined(s, n)
      /\ \A k \in 1 .. n : Joined(s, k) = Joined(s, k - 1) \o s[k]
      /\ \A k \in 0 .. n : Joined(s, k) \in Seq(Chars)
  <2>1. Joined(s, 0) = <<>> /\ \A k \in 0 .. n : Joined(s, k) \in Seq(Chars)
    BY <1>4, JoinedSteps, Zenon
  <2>2. ASSUME NEW k \in 1 .. n
        PROVE  Joined(s, k) = Joined(s, k - 1) \o s[k]
    BY <1>4, JoinedStep, Zenon
  <2>3. FlattenSeq(s) = Joined(s, n)
    BY <1>4, JoinedSteps, Zenon
  <2>4. QED
    BY <2>1, <2>2, <2>3, Zenon
<1> DEFINE S == {k \in Nat : k <= n => Laid[k] = Joined(s, k)}
<1>6. 0 \in S
  BY <1>5, LaidSteps
<1>7. ASSUME NEW k \in Nat, k \in S
      PROVE  k + 1 \in S
  <2>1. ASSUME k + 1 <= n
        PROVE  Laid[k + 1] = Joined(s, k + 1)
    <3>1. PICK q \in 1 .. n : q = k + 1 /\ q - 1 = k /\ k \in 0 .. n
      BY <2>1
    <3>2. Laid[k] = Joined(s, k)
      BY <1>7, <3>1
    <3>3. PICK x \in Seq(Chars) : x = Joined(s, k)
      BY <1>5, <3>1
    <3>4. Joined(s, q) = x \o s[q] /\ Laid[k] = x
      BY <1>5, <3>1, <3>2, <3>3
    <3>5. /\ items[q].kind = "char" => Laid[q] = Append(x, items[q].conv)
          /\ items[q].kind = "directive" =>
               Laid[q] = Output(x, WordsAt(k) + 1, items[q].length, items[q].conv)
          /\ items[q].kind = "unfinished" => Laid[q] = x
      BY <1>1, <3>1, <3>4, LaidSteps, Zenon
    <3>6. CASE items[q].kind = "char"
      <4>1. Append(x, items[q].conv) = x \o <<items[q].conv>>
        BY <1>3, <3>6
      <4>2. QED
        BY <1>3, <3>1, <3>4, <3>5, <3>6, <4>1
    <3>7. CASE items[q].kind = "directive"
      <4>1. s[q] = Printed(WordsAt(k) + 1, items[q].length, items[q].conv)
        BY <1>3, <3>1, <3>7
      <4>2. CASE items[q].conv \in Signed \cup Unsigned \cup {"c", "s", "%"}
        <5>1. Laid[q] = x \o s[q]
          BY <3>5, <3>7, <4>1, <4>2 DEF Output
        <5>2. QED
          BY <3>1, <3>4, <5>1
      <4>3. CASE items[q].conv \notin Signed \cup Unsigned \cup {"c", "s", "%"}
        <5>1. Laid[q] = x
          BY <3>5, <3>7, <4>3 DEF Output
        <5>2. s[q] = <<>>
          BY <4>1, <4>3 DEF Printed
        <5>3. x \o <<>> = x
          BY ConcatEmptySeq, Zenon
        <5>4. QED
          BY <3>1, <3>4, <5>1, <5>2, <5>3
      <4>4. QED
        BY <4>2, <4>3
    <3>8. CASE items[q].kind = "unfinished"
      <4>1. x \o <<>> = x
        BY ConcatEmptySeq, Zenon
      <4>2. QED
        BY <1>3, <3>1, <3>4, <3>5, <3>8, <4>1
    <3>9. QED
      BY <1>3, <3>6, <3>7, <3>8
  <2>2. QED
    BY <2>1
<1>8. Nat \subseteq S
  <2> HIDE DEF S
  <2>1. QED
    BY <1>6, <1>7, NumberInduction
<1>9. Laid[n] = Joined(s, n)
  BY <1>8
<1>10. QED
  BY <1>1, <1>5, <1>9, Zenon DEF s

\* printf prints what the caller means and takes all its arguments, given that each
\* conversion alone prints its argument as it is meant.
THEOREM PrintsRight == Spec => [](ConversionsRight => PrintfRight)
<1>1. PrintfInv => (ConversionsRight => PrintfRight)
  <2> SUFFICES ASSUME PrintfInv, ConversionsRight, at = Len(Text) + 1
               PROVE  /\ out = FlattenSeq([k \in DOMAIN items |-> ItemRendered(items[k])])
                      /\ arg = Len(Words) + 1
    BY Zenon DEF PrintfRight
  <2>1. out = Laid[Len(items)] /\ arg = Len(Words) + 1
    BY PrintfEnds, Zenon
  <2>2. CallOK
    BY DEF PrintfInv
  <2>3. QED
    BY <2>1, <2>2, LaidRight, Zenon
<1>2. QED
  BY <1>1, PlacesKept, PTL
=============================================================================
