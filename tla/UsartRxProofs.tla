--------------------------- MODULE UsartRxProofs ---------------------------
(***************************************************************************)
(* The receive half, for every port, ring size, input and array size: the  *)
(* invariant, with the bounds of the caller's array and the place of every *)
(* byte; the refinement of BoundedQueue; what uart_AvailableBytes and      *)
(* uart_peek may be relied on for; and that the readers return what was    *)
(* sent, the numbers of uart_putint included.                              *)
(***************************************************************************)
EXTENDS UsartRx, SequenceTheorems, NaturalsInduction, WellFoundedInduction, TLAPS

(***************************************************************************)
(* Sequences.                                                              *)
(***************************************************************************)
\* A sequence of one byte.
LEMMA One ==
  ASSUME NEW S, NEW c \in S
  PROVE  <<c>> \in Seq(S) /\ Len(<<c>>) = 1 /\ <<c>>[1] = c /\ <<c>> # <<>>
<1>1. <<c>> # <<>>
  <2>1. Len(<<c>>) = 1 /\ Len(<<>>) = 0
    BY EmptySeq
  <2> QED BY <2>1
<1> QED BY <1>1

\* Two ways to cut a sequence at the same place.
LEMMA CutEqual ==
  ASSUME NEW S, NEW a \in Seq(S), NEW b \in Seq(S), NEW x \in Seq(S), NEW y \in Seq(S),
         a \o x = b \o y, Len(a) = Len(b)
  PROVE  a = b /\ x = y
<1> DEFINE n == Len(a)
<1>1. n \in Nat /\ Len(b) = n /\ Len(x) \in Nat /\ Len(y) \in Nat
  BY LenProperties
<1>2. /\ \A i \in 1..(n + Len(x)) : (a \o x)[i] = IF i <= n THEN a[i] ELSE x[i - n]
      /\ \A i \in 1..(n + Len(y)) : (b \o y)[i] = IF i <= n THEN b[i] ELSE y[i - n]
  <2>1. \A i \in 1..(n + Len(x)) : (a \o x)[i] = IF i <= n THEN a[i] ELSE x[i - n]
    BY ConcatProperties
  <2>2. \A i \in 1..(Len(b) + Len(y)) :
          (b \o y)[i] = IF i <= Len(b) THEN b[i] ELSE y[i - Len(b)]
    BY ConcatProperties
  <2> QED BY <2>1, <2>2, <1>1
<1> HIDE DEF n
<1>3. ASSUME NEW i \in 1..n PROVE a[i] = b[i]
  <2>1. i \in 1..(n + Len(x)) /\ i \in 1..(n + Len(y)) /\ i <= n
    BY <1>1
  <2> QED BY <1>2, <2>1
<1>4. a = b
  BY <1>1, <1>3, SeqEqual DEF n
<1>5. x = y
  BY <1>4, ConcatSimplifications
<1> QED BY <1>4, <1>5

\* Two sequences with a first element are equal in it and behind it.
LEMMA ConsEqual ==
  ASSUME NEW S, NEW a \in S, NEW b \in S, NEW x \in Seq(S), NEW y \in Seq(S),
         <<a>> \o x = <<b>> \o y
  PROVE  a = b /\ x = y
<1>1. /\ <<a>> \in Seq(S) /\ <<b>> \in Seq(S) /\ Len(<<a>>) = Len(<<b>>)
      /\ <<a>>[1] = a /\ <<b>>[1] = b
  BY One
<1>2. <<a>> = <<b>> /\ x = y
  BY <1>1, CutEqual, Zenon
<1> QED BY <1>1, <1>2

\* A sequence is its first element and the others.
LEMMA HeadTail ==
  ASSUME NEW S, NEW s \in Seq(S), s # <<>>
  PROVE  s = <<Head(s)>> \o Tail(s) /\ Head(s) \in S /\ Tail(s) \in Seq(S)
<1>1. /\ Head(s) \in S /\ Tail(s) \in Seq(S) /\ Len(Tail(s)) = Len(s) - 1
      /\ \A i \in 1..Len(Tail(s)) : Tail(s)[i] = s[i + 1]
  BY HeadTailProperties
<1>2. Len(s) \in Nat \ {0} /\ Head(s) = s[1]
  BY EmptySeq
<1> DEFINE t == <<Head(s)>> \o Tail(s)
           n == Len(s)
<1>3. /\ t \in Seq(S) /\ Len(t) = 1 + (n - 1)
      /\ \A i \in 1..(1 + (n - 1)) : t[i] = IF i <= 1 THEN <<Head(s)>>[i] ELSE Tail(s)[i - 1]
  BY <1>1, One, ConcatProperties
<1>4. n \in Nat \ {0} /\ Len(Tail(s)) = n - 1
  BY <1>1, <1>2
<1> HIDE DEF t, n
<1>5. ASSUME NEW i \in 1..n PROVE t[i] = s[i]
  <2>1. CASE i = 1
    BY <1>1, <1>2, <1>3, <1>4, <2>1, One
  <2>2. CASE i # 1
    <3>1. i - 1 \in 1..(n - 1) /\ i \in 1..(1 + (n - 1)) /\ ~(i <= 1)
      BY <1>4, <2>2
    <3>2. t[i] = Tail(s)[i - 1]
      BY <1>3, <3>1
    <3> DEFINE j == i - 1
    <3>3. j \in 1..Len(Tail(s)) /\ j + 1 = i
      BY <1>4, <3>1
    <3> HIDE DEF j
    <3>4. Tail(s)[j] = s[i]
      BY <1>1, <3>3
    <3> QED BY <3>2, <3>4 DEF j
  <2> QED BY <2>1, <2>2
<1>6. Len(t) = n
  BY <1>3, <1>4
<1>7. t = s
  BY <1>3, <1>5, <1>6, SeqEqual DEF n
<1> QED BY <1>1, <1>7 DEF t

\* A byte moves from the front of one sequence to the end of another.
LEMMA Shifted ==
  ASSUME NEW S, NEW a \in Seq(S), NEW x \in Seq(S), NEW c \in S
  PROVE  Append(a, c) \o x = a \o (<<c>> \o x) /\ Append(a, c) = a \o <<c>>
<1>1. Append(a, c) = a \o <<c>>
  BY AppendProperties, One
<1> QED BY <1>1, One, ConcatAssociative

\* The byte behind b, when b is the beginning of s.
LEMMA NextByte ==
  ASSUME NEW S, NEW b \in Seq(S), NEW s \in Seq(S), NEW c \in S, NEW x \in Seq(S),
         NEW y \in Seq(S), b \o (<<c>> \o x) = s \o y, Len(b) <= Len(s)
  PROVE  \/ Len(b) < Len(s) /\ c = s[Len(b) + 1]
         \/ b = s /\ <<c>> \o x = y
<1> DEFINE n == Len(b)
           m == Len(s)
           r == <<c>> \o x
<1>1. n \in Nat /\ m \in Nat /\ Len(x) \in Nat /\ Len(y) \in Nat
  BY LenProperties
<1>2. r \in Seq(S) /\ Len(r) = 1 + Len(x) /\ r[1] = c
  BY One, ConcatProperties, <1>1
<1>3. CASE n = m
  BY <1>2, <1>3, CutEqual
<1>4. CASE n < m
  <2>1. (b \o r)[n + 1] = c
    <3>1. \A i \in 1..(n + Len(r)) : (b \o r)[i] = IF i <= n THEN b[i] ELSE r[i - n]
      BY <1>2, ConcatProperties
    <3> HIDE DEF n, r
    <3>2. n + 1 \in 1..(n + Len(r)) /\ ~(n + 1 <= n) /\ (n + 1) - n = 1
      BY <1>1, <1>2
    <3> QED BY <1>2, <3>1, <3>2
  <2>2. (s \o y)[n + 1] = s[n + 1]
    <3>1. \A i \in 1..(m + Len(y)) : (s \o y)[i] = IF i <= m THEN s[i] ELSE y[i - m]
      BY ConcatProperties
    <3> HIDE DEF n, m
    <3>2. n + 1 \in 1..(m + Len(y)) /\ n + 1 <= m
      BY <1>1, <1>4
    <3> QED BY <3>1, <3>2
  <2>3. c = s[n + 1]
    BY <2>1, <2>2
  <2> QED BY <1>4, <2>3
<1>5. n < m \/ n = m
  BY <1>1
<1> QED BY <1>3, <1>4, <1>5

\* A set of numbers has a smallest element.
LEMMA Smallest ==
  ASSUME NEW T \in SUBSET Nat, T # {}
  PROVE  \E x \in T : \A y \in T : x <= y
<1>1. PICK x \in T : \A y \in T : ~ (<<y, x>> \in OpToRel(<, Nat))
  BY WFMin, NatLessThanWellFounded
<1>2. ASSUME NEW y \in T, y < x PROVE FALSE
  <2>1. <<y, x>> \in OpToRel(<, Nat)
    BY <1>2 DEF OpToRel
  <2> QED BY <1>1, <2>1
<1> QED BY <1>2

\* Numbers from below, step by step: the principle behind the lemmas that follow.
LEMMA Induct ==
  ASSUME NEW n \in Nat, NEW G \in SUBSET Nat, 0 \in G,
         \A i \in 1..n : i - 1 \in G => i \in G
  PROVE  \A i \in 0..n : i \in G
<1> DEFINE D == {i \in 0..n : i \notin G}
<1>1. ASSUME D # {} PROVE FALSE
  <2>1. PICK x \in D : \A y \in D : x <= y
    <3>1. D \in SUBSET Nat
      OBVIOUS
    <3> HIDE DEF D
    <3> QED BY <1>1, <3>1, Smallest
  <2>2. x \in 1..n /\ x \notin G
    OBVIOUS
  <2>3. x - 1 \in 0..n /\ ~(x <= x - 1)
    BY <2>2
  <2>4. x - 1 \in G
    BY <2>1, <2>3
  <2> QED BY <2>2, <2>4
<1> QED BY <1>1

\* The equation that defines Trailing, up to the m-th element, and a solution.
Join(s, e, r) == s \o (e \o r)

Trails(g, s, e, l, m) ==
  g = [i \in 0..m |-> IF i = 0 THEN <<>> ELSE Join(s[l - (i - 1)], e, g[i - 1])]

\* The least bound without a solution would have one: the solution below it,
\* extended by one string.
LEMMA TrailsExist ==
  ASSUME NEW s, NEW e, NEW l, NEW n \in Nat PROVE \E g : Trails(g, s, e, l, n)
<1> DEFINE D == {m \in Nat : ~ \E g : Trails(g, s, e, l, m)}
<1>1. ASSUME D # {} PROVE FALSE
  <2>1. PICK x \in D : \A y \in D : x <= y
    <3>1. D \in SUBSET Nat
      OBVIOUS
    <3> HIDE DEF D
    <3> QED BY <1>1, <3>1, Smallest
  <2>2. x \in Nat /\ ~ \E g : Trails(g, s, e, l, x)
    OBVIOUS
  <2>3. x # 0
    <3>1. Trails([i \in 0..0 |-> <<>>], s, e, l, 0)
      BY DEF Trails
    <3> QED BY <2>2, <3>1
  <2>4. x - 1 \in Nat /\ ~(x <= x - 1)
    BY <2>2, <2>3
  <2>5. PICK g : Trails(g, s, e, l, x - 1)
    BY <2>1, <2>4
  <2> DEFINE h == [i \in 0..x |-> IF i = x THEN Join(s[l - (x - 1)], e, g[x - 1]) ELSE g[i]]
  <2>6. \A i \in 0..(x - 1) : h[i] = g[i]
    BY <2>2, <2>4
  <2>7. \A i \in 0..(x - 1) : g[i] = IF i = 0 THEN <<>> ELSE Join(s[l - (i - 1)], e, g[i - 1])
    BY <2>5 DEF Trails
  <2>8. ASSUME NEW i \in 0..x PROVE h[i] = IF i = 0 THEN <<>> ELSE Join(s[l - (i - 1)], e, h[i - 1])
    <3>1. CASE i = x
      <4>1. h[i] = Join(s[l - (x - 1)], e, g[x - 1]) /\ x - 1 \in 0..(x - 1)
        BY <2>2, <2>4, <3>1
      <4>2. h[x - 1] = g[x - 1]
        BY <2>6, <4>1
      <4> HIDE DEF h
      <4> QED BY <2>3, <3>1, <4>1, <4>2
    <3>2. CASE i # x
      <4>1. i \in 0..(x - 1) /\ (i # 0 => i - 1 \in 0..(x - 1))
        BY <2>2, <3>2
      <4> QED BY <2>6, <2>7, <4>1
    <3> QED BY <3>1, <3>2
  <2>9. Trails(h, s, e, l, x)
    <3>1. h = [i \in 0..x |-> h[i]]
      OBVIOUS
    <3> HIDE DEF h
    <3> QED BY <2>8, <3>1 DEF Trails
  <2> QED BY <2>2, <2>9
<1> QED BY <1>1

\* The same for Value.
Reads(g, t, m) ==
  g = [i \in 0..m |-> IF i = 0 THEN 0 ELSE g[i - 1] * 10 + (t[i] - Zero)]

\* The same argument.
LEMMA ReadsExist ==
  ASSUME NEW t, NEW n \in Nat PROVE \E g : Reads(g, t, n)
<1> DEFINE D == {m \in Nat : ~ \E g : Reads(g, t, m)}
<1>1. ASSUME D # {} PROVE FALSE
  <2>1. PICK x \in D : \A y \in D : x <= y
    <3>1. D \in SUBSET Nat
      OBVIOUS
    <3> HIDE DEF D
    <3> QED BY <1>1, <3>1, Smallest
  <2>2. x \in Nat /\ ~ \E g : Reads(g, t, x)
    OBVIOUS
  <2>3. x # 0
    <3>1. Reads([i \in 0..0 |-> 0], t, 0)
      BY DEF Reads
    <3> QED BY <2>2, <3>1
  <2>4. x - 1 \in Nat /\ ~(x <= x - 1)
    BY <2>2, <2>3
  <2>5. PICK g : Reads(g, t, x - 1)
    BY <2>1, <2>4
  <2> DEFINE h == [i \in 0..x |-> IF i = x THEN g[x - 1] * 10 + (t[x] - Zero) ELSE g[i]]
  <2>6. \A i \in 0..(x - 1) : h[i] = g[i]
    BY <2>2, <2>4
  <2>7. \A i \in 0..(x - 1) : g[i] = IF i = 0 THEN 0 ELSE g[i - 1] * 10 + (t[i] - Zero)
    BY <2>5 DEF Reads
  <2>8. ASSUME NEW i \in 0..x PROVE h[i] = IF i = 0 THEN 0 ELSE h[i - 1] * 10 + (t[i] - Zero)
    <3>1. CASE i = x
      <4>1. h[i] = g[x - 1] * 10 + (t[x] - Zero) /\ x - 1 \in 0..(x - 1)
        BY <2>2, <2>4, <3>1
      <4> QED BY <2>3, <2>6, <3>1, <4>1
    <3>2. CASE i # x
      <4>1. i \in 0..(x - 1) /\ (i # 0 => i - 1 \in 0..(x - 1))
        BY <2>2, <3>2
      <4> QED BY <2>6, <2>7, <4>1
    <3> QED BY <3>1, <3>2
  <2>9. Reads(h, t, x)
    <3>1. h = [i \in 0..x |-> h[i]]
      OBVIOUS
    <3> HIDE DEF h
    <3> QED BY <2>8, <3>1 DEF Reads
  <2> QED BY <2>2, <2>9
<1> QED BY <1>1


\* Trailing is a recursive function: some solution of that equation.
LEMMA TrailingChosen ==
  \A m : Trailing(m) = CHOOSE g : Trails(g, Strings(m), End(m), Len(Strings(m)),
                                         Len(Strings(m)))
BY Zenon DEF Trailing, Trails, Join

\* Trailing, string by string.
LEMMA TrailingStep ==
  ASSUME NEW m, NEW l \in Nat, l = Len(Strings(m))
  PROVE  /\ Trailing(m)[0] = <<>>
         /\ \A i \in 1..l :
              Trailing(m)[i] = Strings(m)[l - (i - 1)] \o (End(m) \o Trailing(m)[i - 1])
<1> DEFINE f == Trailing(m)
           s == Strings(m)
           e == End(m)
<1>2. Trails(f, s, e, l, l)
  <2>1. f = CHOOSE g : Trails(g, s, e, l, l)
    BY TrailingChosen
  <2>2. \E g : Trails(g, s, e, l, l)
    BY TrailsExist
  <2> HIDE DEF f, s, e
  <2> QED BY <2>1, <2>2
<1> HIDE DEF f, s, e
<1>3. \A i \in 0..l : f[i] = IF i = 0 THEN <<>> ELSE Join(s[l - (i - 1)], e, f[i - 1])
  BY <1>2 DEF Trails
<1>4. 0 \in 0..l /\ \A i \in 1..l : i \in 0..l /\ i # 0
  OBVIOUS
<1>5. f[0] = <<>> /\ \A i \in 1..l : f[i] = Join(s[l - (i - 1)], e, f[i - 1])
  BY <1>3, <1>4
<1> QED BY <1>5 DEF f, s, e, Join

\* Value, digit by digit.
LEMMA ValueStep ==
  ASSUME NEW t, NEW l \in Nat, l = Len(t)
  PROVE  /\ Value(t)[0] = 0
         /\ \A i \in 1..l : Value(t)[i] = Value(t)[i - 1] * 10 + (t[i] - Zero)
<1> DEFINE f == Value(t)
<1>1. f = CHOOSE g : Reads(g, t, l)
  BY DEF Value, Reads
<1>2. Reads(f, t, l)
  BY <1>1, ReadsExist
<1> HIDE DEF f
<1>3. \A i \in 0..l : f[i] = IF i = 0 THEN 0 ELSE f[i - 1] * 10 + (t[i] - Zero)
  BY <1>2 DEF Reads
<1>4. 0 \in 0..l /\ \A i \in 1..l : i \in 0..l /\ i # 0
  OBVIOUS
<1> QED BY <1>3, <1>4 DEF f

\* The equation that defines DigitsIn(10), for the numbers up to m.
Writes(g, m) ==
  g = [i \in 0..m |-> IF i < 10 THEN <<Digit(i)>> ELSE Append(g[i \div 10], Digit(i % 10))]

\* A number without its last digit is a smaller one.
LEMMA Tenth ==
  ASSUME NEW i \in Nat
  PROVE  /\ i \div 10 \in Nat /\ i % 10 \in 0..9 /\ i = (i \div 10) * 10 + (i % 10)
         /\ i >= 10 => i \div 10 < i
BY Z3

\* Such a table of digits exists for every bound.
LEMMA WritesExist ==
  ASSUME NEW n \in Nat PROVE \E g : Writes(g, n)
<1> DEFINE D == {m \in Nat : ~ \E g : Writes(g, m)}
<1>1. ASSUME D # {} PROVE FALSE
  <2>1. PICK x \in D : \A y \in D : x <= y
    <3>1. D \in SUBSET Nat
      OBVIOUS
    <3> HIDE DEF D
    <3> QED BY <1>1, <3>1, Smallest
  <2>2. x \in Nat /\ ~ \E g : Writes(g, x)
    OBVIOUS
  <2>3. x # 0
    <3> DEFINE z == [i \in 0..0 |-> <<Digit(i)>>]
    <3>1. \A i \in 0..0 : i < 10
      OBVIOUS
    <3>2. Writes(z, 0)
      BY <3>1 DEF Writes
    <3> QED BY <2>2, <3>2
  <2>4. x - 1 \in Nat /\ ~(x <= x - 1)
    BY <2>2, <2>3
  <2>5. PICK g : Writes(g, x - 1)
    BY <2>1, <2>4
  <2> DEFINE Body(f, i) == IF i < 10 THEN <<Digit(i)>> ELSE Append(f[i \div 10], Digit(i % 10))
             h == [i \in 0..x |-> IF i = x THEN Body(g, x) ELSE g[i]]
  <2>6. \A i \in 0..(x - 1) : h[i] = g[i]
    BY <2>2, <2>4
  <2>7. \A i \in 0..(x - 1) : g[i] = Body(g, i)
    BY <2>5 DEF Writes
  <2>8. ASSUME NEW i \in 0..x PROVE h[i] = Body(h, i)
    <3> DEFINE d == i \div 10
    <3>1. i >= 10 => d \in 0..(x - 1)
      <4>1. d \in Nat /\ (i >= 10 => d < i)
        BY Tenth
      <4> HIDE DEF d
      <4> QED BY <2>2, <4>1
    <3>2. i >= 10 => h[d] = g[d]
      BY <2>6, <3>1
    <3>3. Body(h, i) = Body(g, i)
      <4>1. CASE i < 10
        BY <4>1
      <4>2. CASE ~(i < 10)
        <5>1. i >= 10
          BY <2>2, <4>2
        <5>2. h[d] = g[d]
          BY <3>2, <5>1
        <5> HIDE DEF h
        <5> QED BY <4>2, <5>2
      <4> QED BY <4>1, <4>2
    <3>4. h[i] = Body(g, i)
      <4>1. CASE i = x
        BY <4>1
      <4>2. CASE i # x
        <5>1. i \in 0..(x - 1)
          BY <2>2, <4>2
        <5>2. h[i] = g[i] /\ g[i] = Body(g, i)
          BY <2>6, <2>7, <5>1
        <5> HIDE DEF h, Body
        <5> QED BY <5>2
      <4> QED BY <4>1, <4>2
    <3> HIDE DEF h, Body
    <3> QED BY <3>3, <3>4
  <2>9. Writes(h, x)
    <3>1. h = [i \in 0..x |-> h[i]]
      OBVIOUS
    <3> HIDE DEF h
    <3>2. \A i \in 0..x :
            h[i] = IF i < 10 THEN <<Digit(i)>> ELSE Append(h[i \div 10], Digit(i % 10))
      BY <2>8
    <3> QED BY <3>1, <3>2 DEF Writes
  <2> QED BY <2>2, <2>9
<1> QED BY <1>1

\* A digit more.
LEMMA ValueAppend ==
  ASSUME NEW t \in Seq(Int), NEW c \in Int
  PROVE  Value(Append(t, c))[Len(t) + 1] = Value(t)[Len(t)] * 10 + (c - Zero)
<1> DEFINE l == Len(t)
           u == Append(t, c)
           f == Value(t)
           g == Value(u)
<1>1. /\ l \in Nat /\ Len(u) = l + 1 /\ u[l + 1] = c
      /\ \A i \in 1..l : u[i] = t[i]
  BY AppendProperties, LenProperties
<1>2. f[0] = 0 /\ \A i \in 1..l : f[i] = f[i - 1] * 10 + (t[i] - Zero)
  BY <1>1, ValueStep
<1>3. g[0] = 0 /\ \A i \in 1..(l + 1) : g[i] = g[i - 1] * 10 + (u[i] - Zero)
  <2> DEFINE k == l + 1
  <2>1. k \in Nat /\ k = Len(u)
    BY <1>1
  <2> HIDE DEF k, l, u
  <2>2. Value(u)[0] = 0 /\ \A i \in 1..k : Value(u)[i] = Value(u)[i - 1] * 10 + (u[i] - Zero)
    BY <2>1, ValueStep
  <2> QED BY <2>2 DEF k
<1> HIDE DEF l, u, f, g
<1>4. \A i \in 0..l : g[i] = f[i]
  <2> DEFINE G == {i \in Nat : g[i] = f[i]}
  <2>1. 0 \in G /\ G \in SUBSET Nat
    BY <1>2, <1>3
  <2>2. ASSUME NEW i \in 1..l, i - 1 \in G PROVE i \in G
    <3>1. i \in 1..(l + 1) /\ i \in Nat
      BY <1>1
    <3>2. g[i] = g[i - 1] * 10 + (u[i] - Zero) /\ f[i] = f[i - 1] * 10 + (t[i] - Zero)
      BY <1>2, <1>3, <3>1
    <3>3. g[i - 1] = f[i - 1] /\ u[i] = t[i]
      BY <1>1, <2>2
    <3> QED BY <3>1, <3>2, <3>3
  <2>3. \A i \in 0..l : i \in G
    <3> HIDE DEF G
    <3> QED BY <1>1, <2>1, <2>2, Induct
  <2> QED BY <2>3
<1>5. l + 1 \in 1..(l + 1) /\ (l + 1) - 1 = l /\ l \in 0..l
  BY <1>1
<1>6. g[l + 1] = g[l] * 10 + (c - Zero) /\ g[l] = f[l]
  BY <1>1, <1>3, <1>4, <1>5
<1> QED BY <1>6 DEF l, u, f, g

(***************************************************************************)
(* Numbers.                                                                *)
(***************************************************************************)
\* The width of an uint16_t, and of an int16_t.
LEMMA WordFact == Word \in Nat /\ Word > 32768 /\ Word <= 100000 /\ Word - 1 \in Nat
BY DEF Word

\* Half of the numbers of 16 bits are negative.
LEMMA HalfFact == Half \in Nat /\ Half >= 1 /\ Word = 2 * Half
BY DEF Word, Half

Decimals == {c \in Nat : IsDigit(c)}
Ten == DigitsIn(10)

\* DigitsIn(10), digit by digit.
LEMMA DigitsStep ==
  \A i \in Nat : i < Word =>
    Ten[i] = IF i < 10 THEN <<Digit(i)>> ELSE Append(Ten[i \div 10], Digit(i % 10))
<1>1. Ten = CHOOSE g : Writes(g, Word - 1)
  BY Zenon DEF Ten, DigitsIn, Writes
<1>2. Writes(Ten, Word - 1)
  BY <1>1, WritesExist, WordFact
<1>3. \A i \in 0..(Word - 1) :
        Ten[i] = IF i < 10 THEN <<Digit(i)>> ELSE Append(Ten[i \div 10], Digit(i % 10))
  BY <1>2 DEF Writes
<1>4. \A i \in Nat : i < Word => i \in 0..(Word - 1)
  BY WordFact
<1> QED BY <1>3, <1>4

\* A decimal digit as a byte, and back.
LEMMA DigitFact == \A d \in 0..9 : Digit(d) \in Decimals /\ Digit(d) - Zero = d
BY DEF Digit, Decimals, IsDigit, Zero

\* What is written is read back.
Readback(n) ==
  /\ Ten[n] \in Seq(Decimals) /\ Ten[n] # <<>>
  /\ Value(Ten[n])[Len(Ten[n])] = n

\* If the digits of n \div 10 are read back as that number, so are those of n.
LEMMA ReadbackStep ==
  ASSUME NEW n \in Nat, n < Word, n >= 10 => Readback(n \div 10) PROVE Readback(n)
<1>1. CASE n < 10
  <2> DEFINE c == Digit(n)
             t == <<c>>
  <2>1. Ten[n] = t
    BY <1>1, DigitsStep
  <2>2. n \in 0..9
    BY <1>1
  <2>3. c \in Decimals /\ c - Zero = n
    BY <2>2, DigitFact
  <2>4. c \in Int /\ Zero \in Int
    BY <2>3 DEF Decimals, Zero
  <2> HIDE DEF c
  <2>5. t \in Seq(Decimals) /\ t # <<>> /\ Len(t) = 1 /\ t[1] = c
    BY <2>3, One
  <2> HIDE DEF t
  <2>6. Value(t)[1] = Value(t)[1 - 1] * 10 + (t[1] - Zero) /\ Value(t)[0] = 0
    <3>1. Value(t)[0] = 0 /\ \A i \in 1..1 : Value(t)[i] = Value(t)[i - 1] * 10 + (t[i] - Zero)
      BY <2>5, ValueStep
    <3> QED BY <3>1
  <2> HIDE DEF t
  <2>7. Value(t)[1] = n
    BY <2>3, <2>4, <2>5, <2>6
  <2> QED BY <2>1, <2>5, <2>7 DEF Readback
<1>2. CASE ~(n < 10)
  <2> DEFINE d == n \div 10
             r == n % 10
             c == Digit(r)
             s == Ten[d]
  <2>1. n >= 10
    BY <1>2
  <2>2. /\ d \in Nat /\ r \in 0..9 /\ n = d * 10 + r
        /\ Readback(d) /\ Ten[n] = Append(s, c)
    <3>1. d \in Nat /\ r \in 0..9 /\ n = d * 10 + r
      BY Tenth
    <3>2. Readback(d)
      BY <2>1
    <3>3. Ten[n] = Append(s, c)
      BY <1>2, DigitsStep
    <3> QED BY <3>1, <3>2, <3>3
  <2>3. s \in Seq(Decimals) /\ Value(s)[Len(s)] = d
    BY <2>2 DEF Readback
  <2> HIDE DEF d, r, s
  <2>4. c \in Decimals /\ c - Zero = r /\ c \in Int
    <3>1. Digit(r) \in Decimals /\ Digit(r) - Zero = r
      BY <2>2, DigitFact
    <3>2. Decimals \subseteq Int
      BY DEF Decimals
    <3> QED BY <3>1, <3>2
  <2> HIDE DEF c
  <2>5. s \in Seq(Int)
    <3>1. Decimals \subseteq Int
      BY DEF Decimals
    <3> QED BY <2>3, <3>1, SeqMonotonic
  <2>6. Value(Append(s, c))[Len(s) + 1] = d * 10 + (c - Zero)
    BY <2>3, <2>4, <2>5, ValueAppend
  <2>7. /\ Append(s, c) \in Seq(Decimals) /\ Len(Append(s, c)) = Len(s) + 1
        /\ Append(s, c) # <<>>
    BY <2>3, <2>4, AppendProperties
  <2> QED BY <2>2, <2>4, <2>6, <2>7 DEF Readback
<1> QED BY <1>1, <1>2

\* The digits of every uint16_t are read back as that number.
LEMMA ReadbackAll == \A n \in Nat : n < Word => Readback(n)
<1> DEFINE D == {n \in Nat : n < Word /\ ~Readback(n)}
<1>1. ASSUME D # {} PROVE FALSE
  <2>1. PICK x \in D : \A y \in D : x <= y
    <3>1. D \in SUBSET Nat
      OBVIOUS
    <3> HIDE DEF D
    <3> QED BY <1>1, <3>1, Smallest
  <2>2. x \in Nat /\ x < Word /\ ~Readback(x)
    OBVIOUS
  <2>3. ASSUME x >= 10 PROVE Readback(x \div 10)
    <3> DEFINE d == x \div 10
    <3>1. d \in Nat /\ d < x
      BY <2>2, <2>3, Tenth
    <3> HIDE DEF d
    <3>2. d < Word /\ ~(x <= d)
      BY <2>2, <3>1, WordFact
    <3>3. d \notin D
      BY <2>1, <3>2
    <3>4. Readback(d)
      BY <3>1, <3>2, <3>3
    <3> QED BY <3>4 DEF d
  <2> QED BY <2>2, <2>3, ReadbackStep
<1> QED BY <1>1

\* At most five digits.
LEMMA DigitsLength == \A n \in Nat : n < Word => Len(Ten[n]) <= 5
<1>1. \A n \in Nat : n < Word => Ten[n] \in Seq(Decimals) /\ Len(Ten[n]) \in Nat
  BY ReadbackAll, LenProperties DEF Readback
<1>2. \A n \in Nat : n < Word /\ n < 10 => Len(Ten[n]) <= 1
  <2> TAKE n \in Nat
  <2> HAVE n < Word /\ n < 10
  <2>1. Ten[n] = <<Digit(n)>>
    BY DigitsStep
  <2>2. Len(<<Digit(n)>>) = 1
    OBVIOUS
  <2> QED BY <2>1, <2>2
<1> DEFINE Short(m, k) == \A n \in Nat : n < Word /\ n < m => Len(Ten[n]) <= k
<1>3. ASSUME NEW k \in Nat, NEW m \in Nat, m >= 1, Short(m, k)
      PROVE  Short(10 * m, k + 1)
  <2> TAKE n \in Nat
  <2> HAVE n < Word /\ n < 10 * m
  <2>1. CASE n < 10
    <3>1. Len(Ten[n]) <= 1 /\ Len(Ten[n]) \in Nat
      BY <1>1, <1>2, <2>1
    <3> QED BY <3>1
  <2>2. CASE ~(n < 10)
    <3> DEFINE d == n \div 10
               c == Digit(n % 10)
    <3>1. /\ d \in Nat /\ (n % 10) \in 0..9 /\ n = d * 10 + (n % 10) /\ d < n
      BY <2>2, Tenth
    <3>2. Ten[n] = Append(Ten[d], c) /\ c \in Decimals
      BY <2>2, <3>1, DigitsStep, DigitFact
    <3> DEFINE r == n % 10
    <3> HIDE DEF d, c, r
    <3>3. d < Word /\ d < m
      <4>1. r \in 0..9 /\ n = d * 10 + r
        BY <3>1 DEF r
      <4> QED BY <3>1, <4>1, <1>3, WordFact
    <3>4. Ten[d] \in Seq(Decimals) /\ Len(Ten[d]) \in Nat /\ Len(Ten[d]) <= k
      BY <1>1, <1>3, <3>1, <3>3
    <3>5. Len(Append(Ten[d], c)) = Len(Ten[d]) + 1
      BY <3>2, <3>4, AppendProperties
    <3> DEFINE x == Len(Ten[d])
    <3> HIDE DEF x
    <3>6. x + 1 <= k + 1
      BY <3>4, <1>3 DEF x
    <3> QED BY <3>2, <3>5, <3>6 DEF x
  <2> QED BY <2>1, <2>2
<1> HIDE DEF Short
<1>4. \A k, m \in Nat : m >= 1 /\ Short(m, k) => Short(10 * m, k + 1)
  BY <1>3
<1>5. Short(10, 1) /\ 10 * 10 = 100 /\ 10 * 100 = 1000 /\ 10 * 1000 = 10000 /\ 10 * 10000 = 100000
  BY <1>2 DEF Short
<1>6. Short(100, 1 + 1)
  BY <1>4, <1>5
<1>7. Short(1000, 2 + 1)
  BY <1>4, <1>5, <1>6
<1>8. Short(10000, 3 + 1)
  BY <1>4, <1>5, <1>7
<1>9. Short(100000, 4 + 1)
  BY <1>4, <1>5, <1>8
<1> QED BY <1>9, WordFact DEF Short

\* A string without NUL, and the string in front of the first one.
LEMMA CStringSame ==
  ASSUME NEW s, \A i \in 1..Len(s) : s[i] # NUL PROVE CString(s) = s
BY DEF CString

\* A string and its NUL.
LEMMA CStringCut ==
  ASSUME NEW s \in Seq(Int \ {NUL}) PROVE CString(Append(s, NUL)) = s
<1> DEFINE t == Append(s, NUL)
           n == Len(s)
           ends == {i \in 1..Len(t) : t[i] = NUL}
<1>1. s \in Seq(Int) /\ NUL \in Int
  <2>1. Int \ {NUL} \subseteq Int /\ NUL \in Int
    BY DEF NUL
  <2> QED BY <2>1, SeqMonotonic
<1>2. /\ n \in Nat /\ Len(t) = n + 1 /\ t[n + 1] = NUL
      /\ \A i \in 1..n : t[i] = s[i] /\ s[i] # NUL
  BY <1>1, AppendProperties, LenProperties, ElementOfSeq
<1>3. ends = {n + 1}
  BY <1>2
<1>4. (CHOOSE i \in ends : \A j \in ends : i <= j) = n + 1
  BY <1>2, <1>3
<1>5. SubSeq(t, 1, n) = s
  <2>1. \A i \in 1..n : t[i] \in Int
    BY <1>1, <1>2, ElementOfSeq
  <2>2. 1 \in Int /\ n \in Int
    BY <1>2
  <2>3. /\ SubSeq(t, 1, n) \in Seq(Int) /\ Len(SubSeq(t, 1, n)) = (IF 1 <= n THEN n - 1 + 1 ELSE 0)
        /\ \A i \in 1..(n - 1 + 1) : SubSeq(t, 1, n)[i] = t[1 + i - 1]
    <3> HIDE DEF t, n
    <3> QED BY <2>1, <2>2, SubSeqProperties
  <2> DEFINE u == SubSeq(t, 1, n)
  <2>4. u \in Seq(Int) /\ Len(u) = n /\ \A i \in 1..n : u[i] = t[i]
    <3> HIDE DEF t, n
    <3> QED BY <1>2, <2>3
  <2> HIDE DEF u
  <2>5. u = s
    BY <1>1, <1>2, <2>4, SeqEqual
  <2> QED BY <2>5 DEF u
<1>6. ends # {} /\ (CHOOSE i \in ends : \A j \in ends : i <= j) - 1 = n
  <2> HIDE DEF ends, t, n
  <2> QED BY <1>2, <1>3, <1>4
<1>7. CString(t) = IF ends = {} THEN t
                   ELSE SubSeq(t, 1, (CHOOSE i \in ends : \A j \in ends : i <= j) - 1)
  BY DEF CString
<1> HIDE DEF ends
<1> QED BY <1>5, <1>6, <1>7

\* atoi reads a string of digits to its end.
LEMMA DigitCountAll ==
  ASSUME NEW t \in Seq(Decimals) PROVE DigitCount(t) = Len(t)
<1> DEFINE n == Len(t)
           P(k) == /\ \A i \in 1..k : IsDigit(t[i])
                   /\ k < n => ~IsDigit(t[k + 1])
<1>1. n \in Nat /\ \A i \in 1..n : IsDigit(t[i])
  BY LenProperties, ElementOfSeq DEF Decimals
<1>2. DigitCount(t) = CHOOSE k \in 0..n : P(k)
  BY DEF DigitCount
<1> HIDE DEF n
<1>3. n \in 0..n /\ P(n)
  BY <1>1
<1>4. ASSUME NEW k \in 0..n, P(k) PROVE k = n
  <2>1. k < n => k + 1 \in 1..n
    BY <1>1
  <2>2. ~(k < n)
    BY <1>1, <1>4, <2>1
  <2> QED BY <1>1, <2>2
<1> HIDE DEF P
<1>5. (CHOOSE k \in 0..n : P(k)) = n
  BY <1>3, <1>4
<1> QED BY <1>2, <1>5 DEF n

\* The bytes that are no white space.
LEMMA VisibleFact ==
  /\ Decimals \subseteq Visible /\ Minus \in Visible /\ Visible \subseteq Byte \ {NUL, CR, LF}
  /\ Byte \ {NUL} \subseteq Byte /\ Byte \subseteq Int /\ Minus \notin Decimals
  /\ Space \in Byte \ {NUL} /\ CR \in Byte \ {NUL} /\ LF \in Byte \ {NUL}
  /\ \A c \in Visible : c > Space
<1>1. \A c \in Decimals : c \in Nat /\ c >= 48 /\ c <= 57
  BY DEF Decimals, IsDigit, Zero
<1>2. \A c \in Nat : c >= 48 /\ c <= 57 => c \in 0..255 /\ c > 32
  OBVIOUS
<1>3. Decimals \subseteq Visible
  BY <1>1, <1>2 DEF Visible, Byte, Space
<1>4. Minus \notin Decimals
  BY <1>1 DEF Minus
<1>5. Minus \in Visible
  BY DEF Visible, Byte, Space, Minus
<1> QED BY <1>3, <1>4, <1>5 DEF Visible, Byte, Space, NUL, CR, LF

\* The text of a number: itoa without a NUL in it.
Text(i) == IF i < 0 THEN <<Minus>> \o Ten[-i] ELSE Ten[i]

\* 16-bit wrap-around of a number in range, and of a negative one.
LEMMA ModWord == ASSUME NEW n \in Nat \ {0}, NEW x \in Int, 0 <= x, x < n PROVE x % n = x
BY Z3

\* A negative number and its 16-bit pattern.
LEMMA ModWordNegative ==
  ASSUME NEW n \in Nat \ {0}, NEW x \in Int, 0 < x, x < n PROVE (-x) % n = n - x
BY Z3

\* What uart_putint sends: visible bytes, at most six of them.
LEMMA TextFact ==
  ASSUME NEW i \in Int16
  PROVE  /\ putint(i) = Text(i) /\ Text(i) \in Seq(Visible)
         /\ Text(i) # <<>> /\ Len(Text(i)) <= 6
<1>1. i \in Int /\ -Half <= i /\ i < Half
  BY HalfFact DEF Int16
<1>2. CASE i < 0
  <2> DEFINE n == -i
             t == Ten[n]
  <2>1. n \in Nat /\ n < Word
    BY <1>1, <1>2, HalfFact
  <2>2. t \in Seq(Decimals) /\ Len(t) \in Nat /\ Len(t) <= 5
    BY <2>1, ReadbackAll, DigitsLength, LenProperties DEF Readback
  <2>3. t \in Seq(Visible) /\ <<Minus>> \in Seq(Visible) /\ Len(<<Minus>>) = 1
    BY <2>2, VisibleFact, SeqMonotonic, One
  <2> HIDE DEF t
  <2>4. /\ <<Minus>> \o t \in Seq(Visible) /\ Len(<<Minus>> \o t) = 1 + Len(t)
    BY <2>3, ConcatProperties
  <2>5. <<Minus>> \o t # <<>> /\ Len(<<Minus>> \o t) <= 6
    <3>1. 1 + Len(t) <= 6 /\ 1 + Len(t) # 0
      BY <2>2
    <3> QED BY <2>4, <3>1, EmptySeq
  <2>6. Text(i) = <<Minus>> \o t
    BY <1>2 DEF Text, t
  <2>7. itoa(i, 10) = <<Minus>> \o t
    BY <1>2 DEF itoa, utoa, t, Ten
  <2>8. \A j \in 1..Len(<<Minus>> \o t) : (<<Minus>> \o t)[j] # NUL
    BY <2>4, VisibleFact, ElementOfSeq
  <2>9. putint(i) = <<Minus>> \o t
    BY <2>7, <2>8, CStringSame DEF putint, putstr
  <2> QED BY <2>4, <2>5, <2>6, <2>9
<1>3. CASE ~(i < 0)
  <2> DEFINE t == Ten[i]
  <2>1. i \in Nat /\ i < Word /\ 0 <= i /\ Word \in Nat \ {0}
    BY <1>1, <1>3, HalfFact
  <2>2. t \in Seq(Decimals) /\ Len(t) \in Nat /\ Len(t) <= 5 /\ t # <<>>
    BY <2>1, ReadbackAll, DigitsLength, LenProperties DEF Readback
  <2>3. t \in Seq(Visible)
    BY <2>2, VisibleFact, SeqMonotonic
  <2>4. Text(i) = t
    BY <1>3 DEF Text
  <2>5. i % Word = i
    BY <1>1, <2>1, ModWord
  <2>6. itoa(i, 10) = t
    BY <1>3, <2>5 DEF itoa, utoa, Ten
  <2> HIDE DEF t
  <2>7. \A j \in 1..Len(t) : t[j] # NUL
    BY <2>3, VisibleFact, ElementOfSeq
  <2>8. putint(i) = t
    BY <2>6, <2>7, CStringSame DEF putint, putstr
  <2>9. Len(t) <= 6
    BY <2>2
  <2> QED BY <2>2, <2>3, <2>4, <2>8, <2>9
<1> QED BY <1>2, <1>3

\* uart_getint reads back what uart_putint has written.
LEMMA ReadNumber == ASSUME NEW i \in Int16 PROVE atoi(putint(i)) = i
<1>1. i \in Int /\ -Half <= i /\ i < Half
  BY HalfFact DEF Int16
<1> DEFINE s == putint(i)
           neg == s # <<>> /\ Head(s) = Minus
           t == IF neg THEN Tail(s) ELSE s
           v == Value(t)[DigitCount(t)]
           w == (IF neg THEN -v ELSE v) % Word
<1>2. atoi(s) = IF w >= Half THEN w - Word ELSE w
  BY DEF atoi
<1>3. CASE i < 0
  <2> DEFINE n == -i
             u == Ten[n]
  <2>1. n \in Nat /\ n < Word /\ 0 < n /\ n <= Half /\ Word \in Nat \ {0}
    BY <1>1, <1>3, HalfFact
  <2>2. u \in Seq(Decimals) /\ Value(u)[Len(u)] = n
    BY <2>1, ReadbackAll DEF Readback
  <2>3. s = <<Minus>> \o u
    BY <1>3, TextFact DEF Text
  <2> HIDE DEF u, s
  <2>4. neg /\ t = u
    <3>1. Minus \in Int /\ u \in Seq(Int)
      <4>1. Decimals \subseteq Int /\ Minus \in Int
        BY VisibleFact
      <4> QED BY <2>2, <4>1, SeqMonotonic
    <3>2. <<Minus>> \in Seq(Int) /\ Len(<<Minus>>) = 1 /\ <<Minus>>[1] = Minus
      BY <3>1, One
    <3>3. /\ s \in Seq(Int) /\ Len(s) = 1 + Len(u) /\ Len(u) \in Nat
          /\ \A j \in 1..(1 + Len(u)) : s[j] = IF j <= 1 THEN <<Minus>>[j] ELSE u[j - 1]
      BY <2>3, <3>1, <3>2, ConcatProperties, LenProperties
    <3>4. s # <<>> /\ Head(s) = s[1] /\ s[1] = Minus
      <4>1. 1 \in 1..(1 + Len(u)) /\ 1 + Len(u) # 0
        BY <3>3
      <4> QED BY <3>2, <3>3, <4>1, EmptySeq
    <3>5. s = <<Head(s)>> \o Tail(s) /\ Tail(s) \in Seq(Int)
      BY <3>3, <3>4, HeadTail
    <3>6. Tail(s) = u
      BY <2>3, <3>1, <3>4, <3>5, ConsEqual
    <3> QED BY <3>4, <3>6
  <2>5. v = n
    BY <2>2, <2>4, DigitCountAll
  <2> HIDE DEF t, neg, v
  <2>6. w = (-n) % Word
    BY <2>4, <2>5
  <2> HIDE DEF n
  <2>7. (-n) % Word = Word - n
    <3>1. n \in Int
      BY <2>1
    <3> QED BY <2>1, <3>1, ModWordNegative
  <2> HIDE DEF w
  <2>8. w >= Half /\ w - Word = -n
    BY <2>1, <2>6, <2>7, HalfFact
  <2>9. i = -n
    BY <1>1 DEF n
  <2> QED BY <1>2, <2>8, <2>9 DEF s
<1>4. CASE ~(i < 0)
  <2>1. i \in Nat /\ i < Word /\ 0 <= i /\ Word \in Nat \ {0}
    BY <1>1, <1>4, HalfFact
  <2>2. s \in Seq(Decimals) /\ s # <<>> /\ Value(s)[Len(s)] = i
    <3>1. s = Ten[i]
      BY <1>4, TextFact DEF Text
    <3> QED BY <2>1, <3>1, ReadbackAll DEF Readback
  <2> HIDE DEF s
  <2>3. ~neg /\ t = s
    BY <2>2, HeadTail, VisibleFact
  <2>4. v = i
    BY <2>2, <2>3, DigitCountAll
  <2> HIDE DEF t, neg, v
  <2>5. w = i % Word
    BY <2>3, <2>4
  <2>6. i % Word = i
    BY <1>1, <2>1, ModWord
  <2> HIDE DEF w
  <2> QED BY <1>1, <1>2, <2>5, <2>6, HalfFact DEF s
<1> QED BY <1>3, <1>4

(***************************************************************************)
(* What is sent.                                                           *)
(***************************************************************************)
Chars == Byte \ {NUL}
TextModes == {"text", "lines", "words", "numbers"}
StringModes == {"lines", "words", "numbers"}

\* The bytes that may stand in a text.
LEMMA CharsFact ==
  /\ Chars \subseteq Byte /\ Visible \subseteq Chars /\ NUL \notin Chars
  /\ Byte \ {NUL, CR, LF} \subseteq Chars /\ CR \in Chars /\ LF \in Chars /\ Space \in Chars
BY VisibleFact DEF Chars

\* The strings that are sent hold no NUL; words and numbers no white space and
\* at least one byte, lines no CR and no LF.
LEMMA StringsFact ==
  ASSUME NEW m \in TextModes
  PROVE  /\ Strings(m) \in Seq(Seq(Chars)) /\ Len(Strings(m)) \in Nat
         /\ m \in {"words", "numbers"} =>
              \A i \in 1..Len(Strings(m)) : Strings(m)[i] \in Seq(Visible) /\ Strings(m)[i] # <<>>
         /\ m \in {"text", "lines"} =>
              \A i \in 1..Len(Strings(m)) : Strings(m)[i] \in Seq(Byte \ {NUL, CR, LF})
<1>1. /\ Lines \in Seq(Seq(Byte \ {NUL, CR, LF})) /\ Words \in Seq(Seq(Visible) \ {<<>>})
      /\ Numbers \in Seq(Int16)
  BY InputAssumption
<1>2. Seq(Byte \ {NUL, CR, LF}) \subseteq Seq(Chars) /\ Seq(Visible) \subseteq Seq(Chars)
  BY CharsFact, SeqMonotonic
<1>3. CASE m \in {"text", "lines"}
  <2>1. Strings(m) = Lines /\ m \notin {"words", "numbers"}
    BY <1>3 DEF Strings
  <2>2. Lines \in Seq(Seq(Chars)) /\ Len(Lines) \in Nat
    BY <1>1, <1>2, SeqMonotonic, LenProperties
  <2>3. \A i \in 1..Len(Lines) : Lines[i] \in Seq(Byte \ {NUL, CR, LF})
    BY <1>1, ElementOfSeq
  <2> QED BY <2>1, <2>2, <2>3
<1>4. CASE m = "words"
  <2>1. Strings(m) = Words /\ m \notin {"text", "lines"}
    BY <1>4 DEF Strings
  <2>2. Words \in Seq(Seq(Chars)) /\ Len(Words) \in Nat
    <3>1. Seq(Visible) \ {<<>>} \subseteq Seq(Chars)
      BY <1>2
    <3> QED BY <1>1, <3>1, SeqMonotonic, LenProperties
  <2>3. \A i \in 1..Len(Words) : Words[i] \in Seq(Visible) \ {<<>>}
    BY <1>1, ElementOfSeq
  <2>4. \A i \in 1..Len(Words) : Words[i] \in Seq(Visible) /\ Words[i] # <<>>
    BY <2>3
  <2> QED BY <2>1, <2>2, <2>4
<1>5. CASE m = "numbers"
  <2> DEFINE s == [i \in 1..Len(Numbers) |-> putint(Numbers[i])]
             n == Len(Numbers)
  <2>1. Strings(m) = s /\ m \notin {"text", "lines"}
    BY <1>5 DEF Strings
  <2>2. n \in Nat /\ \A i \in 1..n : Numbers[i] \in Int16
    BY <1>1, LenProperties, ElementOfSeq
  <2>3. \A i \in 1..n : s[i] = putint(Numbers[i])
    OBVIOUS
  <2>4. \A i \in 1..n : s[i] \in Seq(Visible) /\ s[i] # <<>>
    <3> TAKE i \in 1..n
    <3>1. Numbers[i] \in Int16 /\ s[i] = putint(Numbers[i])
      BY <2>2, <2>3
    <3> HIDE DEF s, n
    <3> QED BY <3>1, TextFact
  <2>5. s \in [1..n -> Seq(Chars)]
    <3>1. s = [i \in 1..n |-> s[i]]
      OBVIOUS
    <3> HIDE DEF s, n
    <3> QED BY <1>2, <2>4, <3>1
  <2>6. s \in Seq(Seq(Chars)) /\ Len(s) = n
    <3> HIDE DEF s, n
    <3> QED BY <2>2, <2>5
  <2> HIDE DEF s, n
  <2> QED BY <2>1, <2>2, <2>4, <2>6
<1> QED BY <1>3, <1>4, <1>5 DEF TextModes

\* What is sent behind each string.
LEMMA EndFact ==
  ASSUME NEW m
  PROVE  /\ End(m) \in Seq(Chars) /\ Tail(End(m)) \in Seq(Chars)
         /\ m = "words" => End(m) = <<Space>> \o Tail(End(m)) /\ Tail(End(m)) = <<>>
         /\ m # "words" => End(m) = <<CR>> \o Tail(End(m)) /\ Tail(End(m)) = <<LF>>
<1>1. CR \in Chars /\ LF \in Chars /\ Space \in Chars
  BY CharsFact
<1>2. CASE m = "words"
  <2>1. End(m) = <<Space>>
    BY <1>2 DEF End
  <2>2. <<Space>> \in Seq(Chars) /\ <<Space>> # <<>> /\ Head(<<Space>>) = Space
    BY <1>1, One
  <2>3. Tail(<<Space>>) = <<>>
    OBVIOUS
  <2> QED BY <1>2, <2>1, <2>2, <2>3, EmptySeq, ConcatEmptySeq
<1>3. CASE m # "words"
  <2>1. End(m) = <<CR, LF>>
    BY <1>3 DEF End
  <2>2. /\ <<CR, LF>> \in Seq(Chars) /\ <<LF>> \in Seq(Chars)
        /\ <<CR, LF>> # <<>> /\ Head(<<CR, LF>>) = CR
    BY <1>1, One
  <2>3. Tail(<<CR, LF>>) = <<LF>>
    OBVIOUS
  <2>4. <<CR, LF>> = <<CR>> \o <<LF>>
    BY <2>2, <2>3, HeadTail
  <2> QED BY <1>3, <2>1, <2>2, <2>3, <2>4
<1> QED BY <1>2, <1>3

\* The strings that are left hold no NUL.
LEMMA TrailingFact ==
  ASSUME NEW m \in TextModes
  PROVE  \A i \in 0..Len(Strings(m)) : Trailing(m)[i] \in Seq(Chars)
<1> DEFINE f == Trailing(m)
           s == Strings(m)
           e == End(m)
           l == Len(s)
<1>1. l \in Nat /\ s \in Seq(Seq(Chars)) /\ e \in Seq(Chars)
  BY StringsFact, EndFact
<1>2. f[0] = <<>> /\ \A i \in 1..l : f[i] = s[l - (i - 1)] \o (e \o f[i - 1])
  BY <1>1, TrailingStep
<1>3. \A i \in 1..l : s[i] \in Seq(Chars)
  BY <1>1, ElementOfSeq
<1> HIDE DEF f, s, e, l
<1> DEFINE G == {i \in Nat : f[i] \in Seq(Chars)}
<1>4. 0 \in G /\ G \in SUBSET Nat
  BY <1>2, EmptySeq
<1>5. ASSUME NEW i \in 1..l, i - 1 \in G PROVE i \in G
  <2>1. l - (i - 1) \in 1..l /\ i \in Nat
    BY <1>1
  <2>2. s[l - (i - 1)] \in Seq(Chars) /\ f[i - 1] \in Seq(Chars)
    BY <1>3, <1>5, <2>1
  <2>3. s[l - (i - 1)] \o (e \o f[i - 1]) \in Seq(Chars)
    BY <1>1, <2>2, ConcatProperties
  <2> QED BY <1>2, <2>1, <2>3
<1>6. \A i \in 0..l : i \in G
  <2> HIDE DEF G
  <2> QED BY <1>1, <1>4, <1>5, Induct
<1> QED BY <1>6 DEF f, l, s

\* What is sent are bytes, and in the text modes no NUL.
LEMMA SentFact ==
  /\ \A m \in TextModes : Sent(m) \in Seq(Chars)
  /\ \A m \in Modes : Sent(m) \in Seq(Byte)
<1>1. ASSUME NEW m \in TextModes PROVE Sent(m) \in Seq(Chars)
  <2> DEFINE n == Len(Strings(m))
  <2>1. n \in Nat /\ m # "data"
    BY StringsFact DEF TextModes
  <2>2. n \in 0..n
    BY <2>1
  <2>3. Trailing(m)[n] \in Seq(Chars)
    BY <2>2, TrailingFact
  <2> QED BY <2>1, <2>3 DEF Sent
<1>2. \A m \in Modes : m = "data" \/ m \in TextModes
  BY DEF Modes, TextModes
<1>3. Sent("data") \in Seq(Byte)
  BY InputAssumption DEF Sent
<1>4. Seq(Chars) \subseteq Seq(Byte)
  BY CharsFact, SeqMonotonic
<1> QED BY <1>1, <1>2, <1>3, <1>4

USE DEF ring, locals, history

(***************************************************************************)
(* Arithmetic on a ring of n slots.                                        *)
(***************************************************************************)
\* Below n the remainder is the number itself, below 2 n it is n less, and a
\* negative number is moved up by n.
LEMMA ModBelow ==
  ASSUME NEW n \in Nat \ {0}, NEW x \in 0..(n - 1) PROVE x % n = x
BY Z3

\* Between n and 2 n the remainder is n less.
LEMMA ModAbove ==
  ASSUME NEW n \in Nat \ {0}, NEW x \in n..(2 * n - 1) PROVE x % n = x - n
BY Z3

\* A negative number is moved up by n.
LEMMA ModNegative ==
  ASSUME NEW n \in Nat \ {0}, NEW x \in (-n)..(-1) PROVE x % n = x + n
BY Z3

\* The slot after h, and the number of slots from t to h.
LEMMA Wrap ==
  ASSUME NEW n \in Nat, n >= 2
  PROVE  \A x \in (-n)..(2 * n - 1) :
           /\ x % n \in 0..(n - 1)
           /\ x < 0 => x % n = x + n
           /\ x \in 0..(n - 1) => x % n = x
           /\ x >= n => x % n = x - n
<1> TAKE x \in (-n)..(2 * n - 1)
<1>1. n \in Nat \ {0} /\ x \in Int
  OBVIOUS
<1>2. CASE x \in (-n)..(-1)
  <2>1. x % n = x + n
    BY ONLY <1>1, <1>2, ModNegative, Zenon
  <2> QED BY <1>2, <2>1
<1>3. CASE x \in 0..(n - 1)
  <2>1. x % n = x
    BY ONLY <1>1, <1>3, ModBelow, Zenon
  <2> QED BY <1>3, <2>1
<1>4. CASE x \in n..(2 * n - 1)
  <2>1. x % n = x - n
    BY ONLY <1>1, <1>4, ModAbove, Zenon
  <2> QED BY <1>4, <2>1
<1> QED BY <1>1, <1>2, <1>3, <1>4

\* The next slot.
LEMMA Succ ==
  ASSUME NEW n \in Nat, n >= 2
  PROVE  \A x \in 0..(n - 1) : (x + 1) % n = IF x = n - 1 THEN 0 ELSE x + 1
<1> TAKE x \in 0..(n - 1)
<1> DEFINE d == x + 1
<1>1. d \in (-n)..(2 * n - 1) /\ d = x + 1
  OBVIOUS
<1> HIDE DEF d
<1>2. (d \in 0..(n - 1) => d % n = d) /\ (d >= n => d % n = d - n)
  BY <1>1, Wrap
<1> QED BY <1>1, <1>2 DEF d

\* What the ring holds: from the slot after t up to h.
Used(h, t, n) == IF h >= t THEN h - t ELSE h - t + n

\* An index and the number of bytes, when one is written or taken.
LEMMA Moves ==
  ASSUME NEW n \in Nat, n >= 2, NEW h \in 0..(n - 1), NEW t \in 0..(n - 1)
  PROVE  /\ (h - t) % n = Used(h, t, n) /\ Used(h, t, n) \in 0..(n - 1)
         /\ Used(h, t, n) = 0 <=> h = t
         /\ (h + 1) % n \in 0..(n - 1) /\ (t + 1) % n \in 0..(n - 1)
         /\ (h + 1) % n # h
         /\ (h + 1) % n # t => Used((h + 1) % n, t, n) = Used(h, t, n) + 1
         /\ h # t => Used(h, (t + 1) % n, n) = Used(h, t, n) - 1
<1>1. (h - t) % n = Used(h, t, n)
  <2> DEFINE d == h - t
  <2>1. d \in (-n)..(2 * n - 1) /\ d = h - t
    OBVIOUS
  <2> HIDE DEF d
  <2>2. (d < 0 => d % n = d + n) /\ (d \in 0..(n - 1) => d % n = d)
    BY <2>1, Wrap
  <2> QED BY <2>1, <2>2 DEF Used, d
<1>2. \A x \in 0..(n - 1) : (x + 1) % n = IF x = n - 1 THEN 0 ELSE x + 1
  BY Succ
<1> QED BY <1>1, <1>2 DEF Used

(***************************************************************************)
(* The copies of the driver.                                               *)
(***************************************************************************)
\* The size of the ring followed.
LEMMA Sizes == ASSUME TypeOK PROVE Size \in Nat /\ Size >= 2 /\ Size = RxSize[port]
<1>1. port \in 0..3
  BY PortsAssumption DEF TypeOK
<1>2. Size \in {2, 4, 8, 16, 32, 64, 128, 256}
  BY <1>1, SizeAssumption DEF Size
<1> QED BY <1>2 DEF Size

\* Every copy works with the size of its own ring.
LEMMA Copies ==
  /\ RX_ISR => RX(Size)
  /\ GetByte => Test \/ Read(Size) \/ Take
  /\ ReadString => gets \/ getln \/ getword \/ getint
<1>1. RX_ISR => RX(Size)
  BY DEF RX_ISR, RX0_ISR, RX1_ISR, RX2_ISR, RX3_ISR, Size
<1>2. GetByte => Test \/ Read(Size) \/ Take
  BY DEF GetByte, Get, Size, uart0_getc, uart1_getc, uart2_getc, uart3_getc,
         uart0_getData, uart1_getData, uart2_getData, uart3_getData,
         uart0_LoadData, uart1_LoadData, uart2_LoadData, uart3_LoadData
<1>3. ReadString => gets \/ getln \/ getword \/ getint
  BY DEF ReadString, uart0_gets, uart1_gets, uart2_gets, uart3_gets,
         uart0_getln, uart1_getln, uart2_getln, uart3_getln,
         uart0_getlnToFirstWhiteSpace, uart1_getlnToFirstWhiteSpace,
         uart2_getlnToFirstWhiteSpace, uart3_getlnToFirstWhiteSpace,
         uart0_getint, uart1_getint, uart2_getint, uart3_getint
<1> QED BY <1>1, <1>2, <1>3

\* uart_init leaves an empty ring.
LEMMA InitRing == Init => RingInv
<1> SUFFICES ASSUME Init PROVE RingInv
  OBVIOUS
<1>1. Size \in Nat /\ Size >= 2
  <2>1. port \in 0..3
    BY PortsAssumption DEF Init
  <2>2. Size \in {2, 4, 8, 16, 32, 64, 128, 256}
    BY <2>1, SizeAssumption DEF Size
  <2> QED BY <2>2
<1>2. 0 \in 0..(Size - 1) /\ 0 \in Byte /\ 0 \in -1..255 /\ 0 \in 0..MaxLost
  BY <1>1, MaxLostAssumption DEF Byte
<1>3. /\ <<>> \in Seq(Byte) /\ <<>> \in Seq(-1..255) /\ Len(<<>>) = 0
  BY EmptySeq
<1>4. wire \in Seq(Byte)
  BY SentFact DEF Init
<1>5. TypeOK
  <2>1. tx_full \in BOOLEAN /\ roomy \in BOOLEAN
    BY DEF Init
  <2> QED BY <1>2, <1>3, <1>4, <2>1 DEF Init, TypeOK
<1>6. ArrayKept /\ GetterSees /\ RoomLeft
  BY <1>3 DEF Init, ArrayKept, GetterSees, RoomLeft
<1> QED BY <1>5, <1>6 DEF RingInv

(***************************************************************************)
(* The interrupt and the getters.                                          *)
(***************************************************************************)
\* What the readers keep is not their concern.
LEMMA SameArray ==
  ASSUME ArrayKept, RoomLeft, UNCHANGED <<op, phase, limit, size, buffer>>,
         at' = "user" => at = "user", at = "user" => at' = "user"
  PROVE  ArrayKept' /\ RoomLeft'
BY DEF ArrayKept, RoomLeft

\* A byte arrives.
LEMMA ArriveStep == ASSUME RingInv, Arrive PROVE RingInv'
<1> USE DEF RingInv
<1>1. UNCHANGED <<port, mode, rx_Head, rx_Tail, rx_buffer, at, op, phase, tail, tmp, limit, size,
                  buffer, taken, roomy, tx_full>> /\ Size' = Size
  BY DEF Arrive, Size
<1>2. wire' \in Seq(Byte) /\ Head(wire) \in Byte
  BY HeadTailProperties DEF Arrive, TypeOK
<1>3. udr' \in Seq(Byte) /\ Len(udr') <= 2 /\ lost' \in 0..MaxLost
  <2>1. CASE Len(udr) < 2 /\ udr' = Append(udr, Head(wire)) /\ lost' = lost
    <3> DEFINE n == Len(udr)
               m == Len(udr')
    <3>1. udr' \in Seq(Byte) /\ m = n + 1 /\ n \in Nat
      BY <1>2, <2>1, AppendProperties, LenProperties DEF TypeOK
    <3>2. n < 2
      BY <2>1
    <3> HIDE DEF n, m
    <3>3. m <= 2
      BY <3>1, <3>2
    <3> QED BY <2>1, <3>1, <3>3 DEF TypeOK, m
  <2>2. CASE Len(udr) = 2 /\ lost < MaxLost /\ lost' = lost + 1 /\ udr' = udr
    <3>1. lost \in 0..MaxLost /\ udr \in Seq(Byte) /\ Len(udr) <= 2
      BY DEF TypeOK
    <3>2. lost' \in 0..MaxLost
      <4>1. lost < MaxLost /\ lost' = lost + 1
        BY <2>2
      <4> QED BY <3>1, <4>1, MaxLostAssumption
    <3> QED BY <2>2, <3>1, <3>2
  <2> QED BY <2>1, <2>2 DEF Arrive
<1>4. TypeOK'
  BY <1>1, <1>2, <1>3 DEF TypeOK
<1>5. GetterSees'
  BY <1>1 DEF GetterSees
<1>6. ArrayKept' /\ RoomLeft'
  BY <1>1, SameArray
<1> QED BY <1>4, <1>5, <1>6

\* RX: the byte goes into a free slot, which no getter looks at.
LEMMA RxStep == ASSUME RingInv, RX(Size) PROVE RingInv'
<1> USE DEF RingInv
<1> DEFINE head == (rx_Head + 1) % Size
<1>1. /\ udr # <<>> /\ udr' = Tail(udr) /\ Size' = Size
      /\ UNCHANGED <<port, mode, wire, rx_Tail, at, op, phase, tail, tmp, limit, size,
                     buffer, taken, roomy, tx_full>>
  BY DEF RX, Size
<1>2. Size \in Nat /\ Size >= 2 /\ rx_Head \in 0..(Size - 1) /\ rx_Tail \in 0..(Size - 1)
  BY Sizes DEF TypeOK
<1>3. head \in 0..(Size - 1) /\ (rx_Tail + 1) % Size \in 0..(Size - 1)
  BY <1>2, Moves
<1>4. rx_Tail # rx_Head => (rx_Tail + 1) % Size # head
  <2>1. \A x \in 0..(Size - 1) : (x + 1) % Size = IF x = Size - 1 THEN 0 ELSE x + 1
    BY <1>2, Succ
  <2> QED BY <1>2, <2>1
<1>5. udr' \in Seq(Byte) /\ Len(udr') <= 2 /\ Head(udr) \in Byte
  <2>1. /\ Tail(udr) \in Seq(Byte) /\ Len(Tail(udr)) = Len(udr) - 1 /\ Len(udr) \in Nat
        /\ Head(udr) \in Byte /\ Len(udr) <= 2
    BY <1>1, HeadTailProperties, LenProperties DEF TypeOK
  <2> DEFINE n == Len(udr)
             m == Len(Tail(udr))
  <2>2. n \in Nat /\ n <= 2 /\ m = n - 1
    BY <2>1
  <2> HIDE DEF n, m
  <2>3. m <= 2
    BY <2>2
  <2> QED BY <1>1, <2>1, <2>3 DEF m
<1> HIDE DEF head
<1>6. ArrayKept' /\ RoomLeft'
  BY <1>1, SameArray
<1>7. CASE rx_Tail # head /\ rx_Head' = head /\ lost' = lost
           /\ rx_buffer' = [rx_buffer EXCEPT ![head] = Head(udr)]
  <2>1. TypeOK'
    BY <1>1, <1>3, <1>5, <1>7 DEF TypeOK
  <2>2. GetterSees'
    <3>1. ASSUME at = "take" PROVE tmp = rx_buffer'[tail]
      <4>1. tail # head /\ tail \in 0..(Size - 1) /\ tmp = rx_buffer[tail]
        BY <1>3, <1>4, <3>1 DEF GetterSees
      <4> QED BY <1>7, <4>1 DEF TypeOK
    <3> QED BY <1>1, <1>7, <3>1 DEF GetterSees
  <2> QED BY <1>6, <2>1, <2>2
<1>8. CASE rx_Tail = head /\ lost < MaxLost /\ lost' = lost + 1
           /\ UNCHANGED <<rx_Head, rx_buffer>>
  <2>1. lost' \in 0..MaxLost
    BY <1>8, MaxLostAssumption DEF TypeOK
  <2>2. TypeOK'
    BY <1>1, <1>5, <1>8, <2>1 DEF TypeOK
  <2>3. GetterSees'
    BY <1>1, <1>8 DEF GetterSees
  <2> QED BY <1>6, <2>2, <2>3
<1> QED BY <1>7, <1>8 DEF RX, head

\* The three accesses of a getter.
LEMMA GetStep == ASSUME RingInv, Test \/ Read(Size) \/ Take PROVE RingInv'
<1> USE DEF RingInv
<1>1. /\ UNCHANGED <<port, mode, wire, udr, rx_Head, rx_buffer, op, phase, limit, size,
                     buffer, lost, roomy, tx_full>>
      /\ at # "user" /\ at' # "user" /\ Size' = Size
  BY DEF Test, Read, Take, shared, caller, Size
<1>2. ArrayKept' /\ RoomLeft'
  BY <1>1, SameArray
<1>3. /\ Size \in Nat /\ Size >= 2 /\ rx_Tail \in 0..(Size - 1) /\ tail \in 0..(Size - 1)
      /\ rx_Head \in 0..(Size - 1) /\ rx_buffer \in [0..(Size - 1) -> Byte]
  BY Sizes DEF TypeOK
<1>4. CASE Test
  <2>1. rx_Tail' = rx_Tail /\ taken' = taken /\ tail' = rx_Tail
        /\ \/ rx_Tail = rx_Head /\ at' = "result"
           \/ rx_Tail # rx_Head /\ at' = "read"
    BY <1>4 DEF Test
  <2>2. tmp' \in -1..255
    <3>1. tmp' = 0 \/ tmp' = -1 \/ tmp' = tmp
      BY <1>4, Zenon DEF Test
    <3>2. tmp \in -1..255
      BY DEF TypeOK
    <3>3. 0 \in -1..255 /\ -1 \in -1..255
      OBVIOUS
    <3> QED BY <3>1, <3>2, <3>3, Zenon
  <2>3. TypeOK'
    BY <1>1, <1>3, <2>1, <2>2 DEF TypeOK
  <2>4. GetterSees'
    BY <1>1, <2>1 DEF GetterSees
  <2> QED BY <1>2, <2>3, <2>4
<1>5. CASE Read(Size)
  <2> DEFINE next == (tail + 1) % Size
  <2>1. /\ at = "read" /\ at' = "take" /\ rx_Tail' = rx_Tail /\ taken' = taken
        /\ tail' = next /\ tmp' = rx_buffer[next]
    BY <1>5 DEF Read
  <2>2. next \in 0..(Size - 1)
    BY <1>3, Moves
  <2>3. next = (rx_Tail + 1) % Size /\ rx_Tail # rx_Head
    BY <2>1 DEF GetterSees
  <2> HIDE DEF next
  <2>4. tmp' \in -1..255
    <3>1. rx_buffer[next] \in Byte
      BY <1>3, <2>2
    <3> QED BY <2>1, <3>1 DEF Byte
  <2>5. TypeOK'
    BY <1>1, <2>1, <2>2, <2>4 DEF TypeOK
  <2>6. GetterSees'
    BY <1>1, <2>1, <2>3 DEF GetterSees
  <2> QED BY <1>2, <2>5, <2>6
<1>6. CASE Take
  <2>1. /\ at = "take" /\ at' = "result" /\ rx_Tail' = tail /\ taken' = Append(taken, tmp)
        /\ UNCHANGED <<tail, tmp>>
    BY <1>6 DEF Take
  <2>2. tmp \in Byte
    BY <1>3, <2>1 DEF GetterSees
  <2>3. taken' \in Seq(Byte)
    BY <2>1, <2>2, AppendProperties DEF TypeOK
  <2>4. TypeOK'
    BY <1>1, <1>3, <2>1, <2>3 DEF TypeOK
  <2>5. GetterSees'
    BY <2>1 DEF GetterSees
  <2> QED BY <1>2, <2>4, <2>5
<1> QED BY <1>4, <1>5, <1>6

(***************************************************************************)
(* The readers.                                                            *)
(***************************************************************************)
\* They leave the ring alone.
LEMMA ReaderFrame ==
  ASSUME TypeOK, UNCHANGED Driver, at' \in {"user", "test"}, tail' \in {0, tail}, tmp' \in {0, tmp},
         limit' \in Byte, size' \in Byte, buffer' \in Seq(-1..255), roomy' \in BOOLEAN,
         tx_full' \in BOOLEAN
  PROVE  TypeOK' /\ GetterSees'
<1>1. UNCHANGED <<port, mode, wire, udr, rx_Head, rx_buffer, rx_Tail, taken, lost>> /\ Size' = Size
  BY DEF Driver, shared, Size
<1>2. tail' \in 0..(Size - 1)
  BY Sizes DEF TypeOK
<1>3. tmp' \in -1..255
  <2>1. tmp \in -1..255 /\ 0 \in -1..255
    BY DEF TypeOK
  <2> QED BY <2>1, Zenon
<1>4. TypeOK'
  BY <1>1, <1>2, <1>3 DEF TypeOK
<1>5. GetterSees'
  BY DEF GetterSees
<1> QED BY <1>4, <1>5

\* The byte is handed to the caller.
LEMMA DeliverStep ==
  ASSUME RingInv, NEW got, Deliver(got), tx_full' \in BOOLEAN PROVE RingInv'
<1> USE DEF RingInv
<1>1. /\ at' = "user" /\ tail' = 0 /\ tmp' = 0 /\ UNCHANGED Driver
      /\ UNCHANGED <<op, phase, limit, size, buffer, roomy>>
  BY DEF Deliver, GetterDone
<1>2. TypeOK' /\ GetterSees'
  BY <1>1, ReaderFrame DEF TypeOK
<1>3. ArrayKept' /\ RoomLeft'
  BY <1>1 DEF ArrayKept, RoomLeft
<1> QED BY <1>2, <1>3

\* The getter is called again, in the same loop or in the one behind the body.
LEMMA AgainStep ==
  ASSUME RingInv, at = "result", NEW p, Again(p),
         \/ p = phase
         \/ p = "eol" /\ phase = "body"
         \/ op \notin {"gets", "getln", "getword", "getint"}
  PROVE  RingInv'
<1> USE DEF RingInv
<1>1. /\ at' = "test" /\ phase' = p /\ tail' = 0 /\ tmp' = 0 /\ UNCHANGED Driver
      /\ UNCHANGED <<op, limit, size, buffer, roomy, tx_full>>
  BY DEF Again, GetterDone
<1>2. TypeOK' /\ GetterSees'
  BY <1>1, ReaderFrame DEF TypeOK
<1>3. ArrayKept'
  BY <1>1 DEF ArrayKept
<1>4. RoomLeft'
  BY <1>1 DEF RoomLeft
<1> QED BY <1>2, <1>3, <1>4

\* The final NUL needs one more place.
LEMMA TerminateStep ==
  ASSUME RingInv, NEW b \in Seq(-1..255), Len(b) + 1 <= size, NEW got, Terminate(b, got)
  PROVE  RingInv'
<1> USE DEF RingInv
<1>1. /\ at' = "user" /\ tail' = 0 /\ tmp' = 0 /\ UNCHANGED Driver
      /\ buffer' = Append(b, NUL) /\ UNCHANGED <<op, phase, limit, size, roomy, tx_full>>
  BY DEF Terminate, GetterDone
<1>2. buffer' \in Seq(-1..255) /\ Len(buffer') = Len(b) + 1
  <2>1. NUL \in -1..255
    BY DEF NUL
  <2> QED BY <1>1, <2>1, AppendProperties
<1>3. TypeOK' /\ GetterSees'
  BY <1>1, <1>2, ReaderFrame DEF TypeOK
<1>4. ArrayKept' /\ RoomLeft'
  BY <1>1, <1>2 DEF ArrayKept, RoomLeft
<1> QED BY <1>3, <1>4

\* One more byte in the array.
LEMMA LoopStep ==
  ASSUME RingInv, NEW b \in Seq(-1..255), NEW n \in Nat, n >= 1, Len(b) + n = size,
         NEW got, Loop(b, n, got)
  PROVE  RingInv'
<1> USE DEF RingInv
<1> DEFINE m == Len(b)
<1>1. m \in Nat /\ m + n = size /\ size \in 0..255
  BY LenProperties DEF TypeOK, Byte
<1> HIDE DEF m
<1>2. CASE n = 1 /\ Terminate(b, got)
  <2>1. m + 1 <= size
    BY <1>1, <1>2
  <2> QED BY <1>2, <2>1, TerminateStep DEF m
<1>3. CASE n # 1 /\ ~(n = 1 /\ Terminate(b, got))
  <2>1. /\ at' = "test" /\ phase' = "body" /\ buffer' = b /\ limit' = (n - 1) % 256
        /\ tail' = 0 /\ tmp' = 0 /\ UNCHANGED Driver
        /\ UNCHANGED <<op, size, roomy, tx_full>>
    BY <1>3 DEF Loop, GetterDone
  <2>2. limit' = n - 1
    <3> DEFINE d == n - 1
    <3>1. d \in 0..255
      BY <1>1
    <3> HIDE DEF d
    <3>2. d % 256 = d
      BY <3>1, Z3
    <3> QED BY <2>1, <3>2 DEF d
  <2>3. n - 1 \in Byte /\ n - 1 >= 1 /\ m + (n - 1) = size - 1 /\ m <= size
    BY <1>1, <1>3 DEF Byte
  <2>4. TypeOK' /\ GetterSees'
    BY <2>1, <2>2, <2>3, ReaderFrame DEF TypeOK
  <2>5. ArrayKept'
    BY <2>1, <2>3 DEF ArrayKept, m
  <2>6. RoomLeft'
    BY <2>1, <2>2, <2>3 DEF RoomLeft, m
  <2> QED BY <2>4, <2>5, <2>6
<1> QED BY <1>2, <1>3 DEF Loop

\* What a reader that is asked to store knows of its array.
LEMMA Stores ==
  ASSUME RingInv, at = "result", op \in {"gets", "getln", "getword", "getint"}
  PROVE  /\ buffer \in Seq(-1..255) /\ Append(buffer, tmp) \in Seq(-1..255)
         /\ limit \in Nat /\ Len(buffer) + 1 <= size
         /\ phase \in {"body", "eol"} =>
              /\ limit >= 1 /\ Len(Append(buffer, tmp)) + limit = size
              /\ Len(Append(buffer, tmp)) + 1 <= size
         /\ phase = "skip" =>
              /\ limit - 1 \in Nat /\ limit - 1 >= 1
              /\ Len(Append(buffer, tmp)) + (limit - 1) = size
         /\ op \in {"gets", "getln"} => phase \in {"body", "eol"}
         /\ phase \in {"body", "eol", "skip"}
<1> DEFINE m == Len(buffer)
           k == Len(Append(buffer, tmp))
<1>1. /\ buffer \in Seq(-1..255) /\ tmp \in -1..255 /\ limit \in 0..255 /\ size \in 0..255
      /\ \/ /\ op \in {"getword", "getint"} /\ phase = "skip"
            /\ buffer = <<>> /\ limit = size /\ size >= 2
         \/ phase \in {"body", "eol"} /\ limit >= 1 /\ m + limit = size - 1
  BY DEF RingInv, TypeOK, RoomLeft, Byte
<1>2. Append(buffer, tmp) \in Seq(-1..255) /\ k = m + 1 /\ m \in Nat
  BY <1>1, AppendProperties, LenProperties
<1>3. buffer = <<>> => m = 0
  BY EmptySeq
<1> HIDE DEF m, k
<1>4. CASE /\ op \in {"getword", "getint"} /\ phase = "skip"
           /\ buffer = <<>> /\ limit = size /\ size >= 2
  <2>1. m + 1 <= size /\ limit - 1 \in Nat /\ limit - 1 >= 1 /\ k + (limit - 1) = size
    BY <1>1, <1>2, <1>3, <1>4
  <2> QED BY <1>1, <1>2, <1>4, <2>1 DEF m, k
<1>5. CASE phase \in {"body", "eol"} /\ limit >= 1 /\ m + limit = size - 1
  <2>1. m + 1 <= size /\ limit >= 1 /\ k + limit = size /\ k + 1 <= size
    BY <1>1, <1>2, <1>5
  <2> QED BY <1>1, <1>2, <1>5, <2>1 DEF m, k
<1> QED BY <1>1, <1>4, <1>5

\* uart_gets.
LEMMA GetsStep == ASSUME RingInv, gets PROVE RingInv'
<1> DEFINE b == Append(buffer, tmp)
<1>1. at = "result" /\ op = "gets"
  BY DEF gets
<1>2. b \in Seq(-1..255) /\ limit \in Nat /\ limit >= 1 /\ Len(b) + limit = size /\ Len(b) + 1 <= size
  BY <1>1, Stores
<1>3. Terminate(b, CString(b)) \/ Loop(b, limit, CString(b))
  BY DEF gets
<1> HIDE DEF b
<1> QED BY <1>2, <1>3, TerminateStep, LoopStep

\* uart_getln.
LEMMA GetlnStep == ASSUME RingInv, getln PROVE RingInv'
<1> DEFINE b == Append(buffer, tmp)
<1>1. at = "result" /\ op = "getln"
  BY DEF getln
<1>2. /\ b \in Seq(-1..255) /\ limit \in Nat /\ limit >= 1 /\ Len(b) + limit = size
      /\ buffer \in Seq(-1..255) /\ Len(buffer) + 1 <= size
  BY <1>1, Stores
<1>3. \/ Again(phase) \/ Terminate(buffer, <<buffer>>) \/ (phase = "body" /\ Again("eol"))
      \/ Loop(b, limit, <<b>>)
  BY DEF getln
<1> HIDE DEF b
<1> QED BY <1>1, <1>2, <1>3, AgainStep, TerminateStep, LoopStep

\* uart_getlnToFirstWhiteSpace, for its own caller and for uart_getint.
LEMMA WordStep == ASSUME RingInv, getword \/ getint PROVE RingInv'
<1> DEFINE b == Append(buffer, tmp)
<1>1. at = "result" /\ op \in {"getword", "getint"}
  BY DEF getword, getint
<1>2. /\ b \in Seq(-1..255) /\ limit \in Nat
      /\ buffer \in Seq(-1..255) /\ Len(buffer) + 1 <= size
      /\ phase = "body" => limit >= 1 /\ Len(b) + limit = size
      /\ phase = "skip" => limit - 1 \in Nat /\ limit - 1 >= 1 /\ Len(b) + (limit - 1) = size
  BY <1>1, Stores
<1>3. \/ Again(phase)
      \/ phase = "body" /\ Again("eol")
      \/ \E got : Terminate(buffer, got)
      \/ \E got : phase = "skip" /\ Loop(b, limit - 1, got)
      \/ \E got : phase = "body" /\ Loop(b, limit, got)
  <2>1. CASE getword
    BY <2>1 DEF getword, getlnToFirstWhiteSpace
  <2>2. CASE getint
    BY <2>2 DEF getint, getlnToFirstWhiteSpace
  <2> QED BY <2>1, <2>2
<1> HIDE DEF b
<1>4. CASE Again(phase) \/ (phase = "body" /\ Again("eol"))
  BY <1>1, <1>4, AgainStep
<1>5. ASSUME NEW got, Terminate(buffer, got) PROVE RingInv'
  BY <1>2, <1>5, TerminateStep
<1>6. ASSUME NEW got, phase = "skip", Loop(b, limit - 1, got) PROVE RingInv'
  <2> DEFINE n == limit - 1
  <2>1. n \in Nat /\ n >= 1 /\ Len(b) + n = size /\ Loop(b, n, got)
    BY <1>2, <1>6
  <2> HIDE DEF n
  <2> QED BY <1>2, <2>1, LoopStep
<1>7. ASSUME NEW got, phase = "body", Loop(b, limit, got) PROVE RingInv'
  BY <1>2, <1>7, LoopStep
<1> QED BY <1>3, <1>4, <1>5, <1>6, <1>7

\* uart_getc, uart_getData, uart_LoadData and uart_getchar.
LEMMA ByteStep == ASSUME RingInv, getc \/ getData \/ uart_getchar PROVE RingInv'
<1>0. tx_full \in BOOLEAN
  BY DEF RingInv, TypeOK
<1>1. \/ \E got : Deliver(got) /\ tx_full' \in BOOLEAN
      \/ at = "result" /\ op = "getchar" /\ Again("body")
  <2>1. CASE getc
    BY <1>0, <2>1, Zenon DEF getc
  <2>2. CASE getData
    BY <1>0, <2>2, Zenon DEF getData
  <2>3. CASE uart_getchar
    BY <2>3, Zenon DEF uart_getchar, Echoing
  <2> QED BY <2>1, <2>2, <2>3
<1>2. ASSUME NEW got, Deliver(got), tx_full' \in BOOLEAN PROVE RingInv'
  BY <1>2, DeliverStep
<1>3. CASE at = "result" /\ op = "getchar" /\ Again("body")
  BY <1>3, AgainStep
<1> QED BY <1>1, <1>2, <1>3

\* The task calls a reader with an array of n bytes.
LEMMA CallStep ==
  ASSUME RingInv, NEW o, NEW n \in Limits \cup {0, 7}, Call(o, n) PROVE RingInv'
<1> USE DEF RingInv
<1>1. /\ at = "user" /\ at' = "test" /\ op' = o /\ size' = n /\ buffer' = <<>>
      /\ roomy' \in BOOLEAN /\ UNCHANGED <<tail, tmp, tx_full>> /\ UNCHANGED Driver
      /\ \/ o \in {"getword", "getint"} /\ phase' = "skip" /\ limit' = n
         \/ o \in {"gets", "getln"} /\ phase' = "body" /\ limit' = n - 1
         \/ /\ o \in {"getc", "getData", "LoadData", "getchar"}
            /\ phase' = "body" /\ limit' = 0
  BY DEF Call
<1>2. /\ o = "getint" => n = 7
      /\ o \in {"gets", "getln", "getword"} => n \in Limits
  BY DEF Call
<1>3. n \in 0..255 /\ (o \in {"gets", "getln", "getword", "getint"} => n >= 2)
  BY <1>2, LimitsAssumption
<1>4. size' \in Byte /\ limit' \in Byte
  <2>1. n \in Byte /\ 0 \in Byte /\ (n >= 2 => n - 1 \in Byte)
    BY <1>3 DEF Byte
  <2> QED BY <1>1, <1>3, <2>1
<1>5. <<>> \in Seq(-1..255) /\ Len(<<>>) = 0
  BY EmptySeq
<1>6. TypeOK' /\ GetterSees'
  <2>1. tx_full' \in BOOLEAN
    BY <1>1 DEF TypeOK
  <2> QED BY <1>1, <1>4, <1>5, <2>1, ReaderFrame
<1>7. ArrayKept'
  BY <1>1, <1>3, <1>5 DEF ArrayKept
<1>8. RoomLeft'
  <2> SUFFICES ASSUME o \in {"gets", "getln", "getword", "getint"}
               PROVE  \/ /\ o \in {"getword", "getint"} /\ phase' = "skip"
                         /\ buffer' = <<>> /\ limit' = size' /\ size' >= 2
                      \/ /\ phase' \in {"body", "eol"}
                         /\ limit' >= 1 /\ Len(buffer') + limit' = size' - 1
    BY <1>1 DEF RoomLeft
  <2>1. n - 1 >= 1 /\ 0 + (n - 1) = n - 1
    BY <1>3
  <2> QED BY <1>1, <1>3, <1>5, <2>1
<1> QED BY <1>6, <1>7, <1>8

\* Every step keeps RingInv.
LEMMA NextRing == RingInv /\ [Next]_vars => RingInv'
<1> SUFFICES ASSUME RingInv, [Next]_vars PROVE RingInv'
  OBVIOUS
<1>1. CASE Arrive
  BY <1>1, ArriveStep
<1>2. CASE RX_ISR
  BY <1>2, Copies, RxStep
<1>3. CASE GetByte
  BY <1>3, Copies, GetStep
<1>4. CASE ReadString
  BY <1>4, Copies, GetsStep, GetlnStep, WordStep
<1>5. CASE getc \/ getData \/ uart_getchar
  BY <1>5, ByteStep
<1>6. ASSUME NEW o, NEW n \in Limits \cup {0, 7}, Call(o, n) PROVE RingInv'
  BY <1>6, CallStep
<1>7. CASE UNCHANGED vars
  BY <1>7 DEF vars, RingInv, TypeOK, ArrayKept, GetterSees, RoomLeft, Size
<1>8. CASE Transmit \/ Output
  <2>1. UNCHANGED <<port, mode, wire, udr, ring, at, locals, history>> /\ tx_full' \in BOOLEAN
    BY <1>8 DEF Transmit, Output
  <2>2. TypeOK'
    BY <2>1 DEF ring, locals, history, RingInv, TypeOK, Size
  <2>3. ArrayKept' /\ GetterSees' /\ RoomLeft'
    BY <2>1 DEF ring, locals, RingInv, ArrayKept, GetterSees, RoomLeft, Size
  <2> QED BY <2>2, <2>3 DEF RingInv
<1> QED BY <1>1, <1>2, <1>3, <1>4, <1>5, <1>6, <1>7, <1>8 DEF Next, Task

\* RX interrupt and readers: the indices stay inside the ring, what a getter has
\* found stays there until it takes it, and no reader stores outside the array
\* it was given, for any input and timing.
LEMMA RingInvariant == Spec => []RingInv
<1> QED BY InitRing, NextRing, PTL DEF Spec

(***************************************************************************)
(* The queue.                                                              *)
(***************************************************************************)
\* The numbers of the ring.
Indices ==
  /\ Size \in Nat /\ Size >= 2 /\ rx_Head \in 0..(Size - 1) /\ rx_Tail \in 0..(Size - 1)

Stored == Used(rx_Head, rx_Tail, Size)

\* The ring as a sequence.
Readable ==
  /\ Indices /\ Stored \in 0..(Size - 1)
  /\ Pending \in Seq(Byte) /\ Len(Pending) = Stored
  /\ \A i \in 1..Stored : Pending[i] = rx_buffer[(rx_Tail + i) % Size]

\* Under RingInv the ring is a sequence of Stored bytes.
LEMMA PendingSeq == RingInv => Readable
<1> SUFFICES ASSUME RingInv PROVE Readable
  OBVIOUS
<1>1. Indices /\ rx_buffer \in [0..(Size - 1) -> Byte]
  BY Sizes DEF RingInv, TypeOK, Indices
<1>2. (rx_Head - rx_Tail) % Size = Stored /\ Stored \in 0..(Size - 1)
  BY <1>1, Moves DEF Stored, Indices
<1>3. ASSUME NEW i \in 1..Stored PROVE rx_buffer[(rx_Tail + i) % Size] \in Byte
  <2> DEFINE x == rx_Tail + i
  <2>1. x \in (-Size)..(2 * Size - 1)
    BY <1>1, <1>2 DEF Indices
  <2> HIDE DEF x
  <2>2. x % Size \in 0..(Size - 1)
    BY <1>1, <2>1, Wrap DEF Indices
  <2> QED BY <1>1, <2>2 DEF x
<1>4. Pending = [i \in 1..Stored |-> rx_buffer[(rx_Tail + i) % Size]]
  BY <1>2 DEF Pending, AvailableBytes
<1>5. Pending \in [1..Stored -> Byte]
  BY <1>3, <1>4
<1>6. Pending \in Seq(Byte) /\ Len(Pending) = Stored
  BY <1>2, <1>5
<1> QED BY <1>1, <1>2, <1>4, <1>6 DEF Readable

\* A store into the slot after the newest byte is none of them.
LEMMA StorePending ==
  ASSUME Readable, NEW i \in 1..Stored
  PROVE  (rx_Tail + i) % Size # (rx_Head + 1) % Size /\ (rx_Tail + i) % Size \in 0..(Size - 1)
<1> DEFINE n == Size
           x == rx_Tail + i
<1>1. /\ n \in Nat /\ n >= 2 /\ rx_Head \in 0..(n - 1) /\ rx_Tail \in 0..(n - 1)
      /\ Stored = IF rx_Head >= rx_Tail THEN rx_Head - rx_Tail ELSE rx_Head - rx_Tail + n
  BY DEF Readable, Indices, Stored, Used
<1>2. x \in 0..(2 * n - 1) /\ x >= rx_Tail + 1
      /\ x <= (IF rx_Head >= rx_Tail THEN rx_Head ELSE rx_Head + n)
  BY <1>1
<1> HIDE DEF x, n
<1>3. x % n = IF x < n THEN x ELSE x - n
  <2>1. x \in (-n)..(2 * n - 1)
    BY <1>1, <1>2
  <2>2. /\ x \in 0..(n - 1) => x % n = x
        /\ x >= n => x % n = x - n
    BY <1>1, <2>1, Wrap
  <2> QED BY <1>1, <1>2, <2>2
<1>4. (rx_Head + 1) % n = IF rx_Head = n - 1 THEN 0 ELSE rx_Head + 1
  BY <1>1, Succ
<1>5. x % n # (rx_Head + 1) % n /\ x % n \in 0..(n - 1)
  BY <1>1, <1>2, <1>3, <1>4
<1> QED BY <1>5 DEF x, n

\* The interrupt stores a byte behind the newest one.
LEMMA RxPending ==
  ASSUME Readable, Readable', UNCHANGED <<port, rx_Tail>>,
         rx_Head' = (rx_Head + 1) % Size, rx_Head' # rx_Tail, NEW b \in Byte,
         rx_buffer \in [0..(Size - 1) -> Byte],
         rx_buffer' = [rx_buffer EXCEPT ![(rx_Head + 1) % Size] = b]
  PROVE  Pending' = Append(Pending, b) /\ Stored < Size - 1 /\ Size' = Size
<1>0. Size' = Size
  BY DEF Size
<1>1. /\ Size \in Nat /\ Size >= 2 /\ rx_Head \in 0..(Size - 1) /\ rx_Tail \in 0..(Size - 1)
      /\ Stored \in 0..(Size - 1) /\ Stored' \in 0..(Size - 1)
  BY <1>0 DEF Readable, Indices
<1>2. Stored' = Stored + 1
  BY <1>0, <1>1, Moves DEF Stored
<1>3. (rx_Tail + (Stored + 1)) % Size = rx_Head'
  <2> DEFINE x == rx_Tail + (Stored + 1)
  <2>1. x \in 0..(2 * Size - 1)
        /\ x = IF rx_Head >= rx_Tail THEN rx_Head + 1 ELSE rx_Head + 1 + Size
    BY <1>1, <1>2 DEF Stored, Used
  <2> HIDE DEF x
  <2>2. x \in (-Size)..(2 * Size - 1)
    BY <1>1, <2>1
  <2>3. /\ x \in 0..(Size - 1) => x % Size = x
        /\ x >= Size => x % Size = x - Size
    BY <1>1, <2>2, Wrap
  <2>4. rx_Head' = IF rx_Head = Size - 1 THEN 0 ELSE rx_Head + 1
    BY <1>1, Succ
  <2>5. x % Size = rx_Head'
    BY <1>1, <2>1, <2>3, <2>4
  <2> QED BY <2>5 DEF x
<1>4. /\ Pending \in Seq(Byte) /\ Len(Pending) = Stored
      /\ \A i \in 1..Stored : Pending[i] = rx_buffer[(rx_Tail + i) % Size]
      /\ Pending' \in Seq(Byte) /\ Len(Pending') = Stored + 1
      /\ \A i \in 1..(Stored + 1) : Pending'[i] = rx_buffer'[(rx_Tail + i) % Size]
  BY <1>0, <1>2 DEF Readable
<1>5. \A i \in 1..Stored : rx_buffer'[(rx_Tail + i) % Size] = rx_buffer[(rx_Tail + i) % Size]
  BY StorePending
<1>6. rx_buffer'[rx_Head'] = b
  <2>1. rx_Head' \in 0..(Size - 1)
    BY <1>0 DEF Readable, Indices
  <2> QED BY <2>1
<1>7. /\ Append(Pending, b) \in Seq(Byte) /\ Len(Append(Pending, b)) = Stored + 1
      /\ \A i \in 1..Stored : Append(Pending, b)[i] = Pending[i]
      /\ Append(Pending, b)[Stored + 1] = b
  BY <1>4, AppendProperties
<1>8. Pending'[Stored + 1] = b
  BY <1>1, <1>3, <1>4, <1>6
<1>9. ASSUME NEW i \in 1..(Stored + 1) PROVE Pending'[i] = Append(Pending, b)[i]
  <2>1. i \in 1..Stored \/ i = Stored + 1
    BY <1>1
  <2> QED BY <1>4, <1>7, <1>8, <1>5, <2>1
<1>10. Pending' = Append(Pending, b)
  BY <1>4, <1>7, <1>9, SeqEqual
<1> QED BY <1>0, <1>1, <1>2, <1>10

\* A getter takes the oldest byte.
LEMMA TakePending ==
  ASSUME Readable, Readable', UNCHANGED <<port, rx_Head, rx_buffer>>,
         rx_Tail' = (rx_Tail + 1) % Size, rx_Tail # rx_Head
  PROVE  /\ Pending # <<>> /\ Pending' = Tail(Pending) /\ Size' = Size
         /\ Head(Pending) = rx_buffer[rx_Tail']
<1>0. Size' = Size
  BY DEF Size
<1>1. /\ Size \in Nat /\ Size >= 2 /\ rx_Head \in 0..(Size - 1) /\ rx_Tail \in 0..(Size - 1)
      /\ Stored \in 0..(Size - 1) /\ Stored' \in 0..(Size - 1)
  BY <1>0 DEF Readable, Indices
<1>2. Stored' = Stored - 1 /\ Stored # 0
  BY <1>0, <1>1, Moves DEF Stored
<1>3. /\ Pending \in Seq(Byte) /\ Len(Pending) = Stored
      /\ \A i \in 1..Stored : Pending[i] = rx_buffer[(rx_Tail + i) % Size]
      /\ Pending' \in Seq(Byte) /\ Len(Pending') = Stored - 1
      /\ \A i \in 1..(Stored - 1) : Pending'[i] = rx_buffer[(rx_Tail' + i) % Size]
  BY <1>0, <1>2 DEF Readable
<1>4. Pending # <<>> /\ Head(Pending) = Pending[1]
  <2>1. Len(<<>>) = 0
    BY EmptySeq
  <2> QED BY <1>2, <1>3, <2>1
<1>5. Pending[1] = rx_buffer[rx_Tail']
  BY <1>1, <1>2, <1>3
<1>6. /\ Tail(Pending) \in Seq(Byte) /\ Len(Tail(Pending)) = Stored - 1
      /\ \A i \in 1..(Stored - 1) : Tail(Pending)[i] = Pending[i + 1]
  BY <1>3, <1>4, HeadTailProperties
<1>7. ASSUME NEW i \in 1..(Stored - 1) PROVE Pending'[i] = Tail(Pending)[i]
  <2> DEFINE x == rx_Tail + (i + 1)
             y == rx_Tail' + i
  <2>0. rx_Tail' = IF rx_Tail = Size - 1 THEN 0 ELSE rx_Tail + 1
    BY <1>1, Succ
  <2>1. /\ x \in (-Size)..(2 * Size - 1) /\ y \in (-Size)..(2 * Size - 1)
        /\ x \in Nat /\ y \in Nat /\ (x = y \/ x = y + Size)
    BY <1>1, <2>0
  <2> HIDE DEF x, y
  <2>2. /\ x \in 0..(Size - 1) => x % Size = x
        /\ x >= Size => x % Size = x - Size
        /\ y \in 0..(Size - 1) => y % Size = y
        /\ y >= Size => y % Size = y - Size
    BY <1>1, <2>1, Wrap
  <2>3. x % Size = y % Size
    BY <1>1, <2>1, <2>2
  <2>4. i + 1 \in 1..Stored
    BY <1>1
  <2>5. Pending[i + 1] = rx_buffer[x % Size]
    BY <1>3, <2>4 DEF x
  <2>6. Pending'[i] = rx_buffer[y % Size]
    BY <1>3 DEF y
  <2> QED BY <1>6, <2>3, <2>5, <2>6
<1>8. Pending' = Tail(Pending)
  BY <1>3, <1>6, <1>7, SeqEqual
<1> QED BY <1>0, <1>4, <1>5, <1>8

\* What a step does to the bytes received: nothing, one is accepted, or one is
\* taken.
Kept == UNCHANGED <<port, rx_Head, rx_Tail, rx_buffer, taken>>
Publishes(b) ==
  /\ UNCHANGED <<port, rx_Tail, taken>>
  /\ rx_Head' = (rx_Head + 1) % Size /\ rx_Head' # rx_Tail
  /\ rx_buffer' = [rx_buffer EXCEPT ![(rx_Head + 1) % Size] = b]
Takes ==
  /\ UNCHANGED <<port, rx_Head, rx_buffer>>
  /\ rx_Tail # rx_Head /\ rx_Tail' = (rx_Tail + 1) % Size
  /\ taken' = Append(taken, rx_buffer[rx_Tail'])

\* Every step is one of these three.
LEMMA StepKinds ==
  ASSUME RingInv, [Next]_vars PROVE Kept \/ Takes \/ \E b \in Byte : Publishes(b)
<1>1. CASE Arrive
  BY <1>1 DEF Arrive, Kept
<1>2. CASE RX_ISR
  <2>1. RX(Size) /\ Head(udr) \in Byte
    <3>1. RX(Size) /\ udr # <<>> /\ udr \in Seq(Byte)
      BY <1>2, Copies DEF RX, RingInv, TypeOK
    <3> QED BY <3>1, HeadTailProperties
  <2>2. Kept \/ Publishes(Head(udr))
    BY <2>1 DEF RX, Kept, Publishes
  <2> QED BY <2>1, <2>2
<1>3. CASE GetByte
  <2>1. Test \/ Read(Size) \/ Take
    BY <1>3, Copies
  <2>2. CASE Test \/ Read(Size)
    BY <2>2 DEF Test, Read, shared, Kept
  <2>3. CASE Take
    BY <2>3 DEF Take, shared, RingInv, GetterSees, Takes
  <2> QED BY <2>1, <2>2, <2>3
<1>4. CASE UNCHANGED Driver
  BY <1>4 DEF Driver, shared, Kept
<1>5. CASE ReadString
  <2>1. ASSUME NEW b, NEW got, Terminate(b, got) PROVE UNCHANGED Driver
    BY <2>1 DEF Terminate
  <2>2. ASSUME NEW b, NEW n, NEW got, Loop(b, n, got) PROVE UNCHANGED Driver
    BY <2>1, <2>2 DEF Loop
  <2>3. ASSUME NEW p, Again(p) PROVE UNCHANGED Driver
    BY <2>3 DEF Again
  <2>4. gets \/ getln \/ getword \/ getint
    BY <1>5, Copies
  <2>5. CASE gets
    BY <1>4, <2>1, <2>2, <2>5 DEF gets
  <2>6. CASE getln
    BY <1>4, <2>1, <2>2, <2>3, <2>6 DEF getln
  <2>7. CASE getword
    BY <1>4, <2>1, <2>2, <2>3, <2>7 DEF getword, getlnToFirstWhiteSpace
  <2>8. CASE getint
    BY <1>4, <2>1, <2>2, <2>3, <2>8 DEF getint, getlnToFirstWhiteSpace
  <2> QED BY <2>4, <2>5, <2>6, <2>7, <2>8
<1>6. CASE getc \/ getData \/ uart_getchar
  <2>1. UNCHANGED Driver
    BY <1>6 DEF getc, getData, uart_getchar, Echoing, Deliver, Again
  <2> QED BY <1>4, <2>1
<1>7. ASSUME NEW o, NEW n, Call(o, n) PROVE Kept
  BY <1>7 DEF Call, Driver, shared, Kept
<1>8. CASE UNCHANGED vars
  BY <1>8 DEF vars, ring, Kept
<1>9. CASE Transmit \/ Output
  BY <1>9 DEF Transmit, Output, ring, history, Kept
<1> QED BY <1>1, <1>2, <1>3, <1>5, <1>6, <1>7, <1>8, <1>9 DEF Next, Task

\* RX interrupt and getters: the ring is a queue of Size - 1 bytes; one step of
\* the interrupt accepts a byte, one step of a getter takes the oldest, all the
\* others leave the queue alone.
THEOREM QueueRefinement == Spec => ImplementsQueue
<1>1. Init => Queue!Init
  <2> SUFFICES ASSUME Init PROVE Queue!Init
    OBVIOUS
  <2>1. Readable /\ rx_Head = rx_Tail /\ taken = <<>>
    BY InitRing, PendingSeq DEF Init
  <2>2. Stored = 0
    BY <2>1, Moves DEF Readable, Indices, Stored
  <2>3. Pending = <<>>
    BY <2>1, <2>2, EmptySeq DEF Readable
  <2>4. Size - 1 \in Nat
    BY <2>1 DEF Readable, Indices
  <2> QED BY <2>1, <2>3, <2>4 DEF Queue!Init
<1>2. RingInv /\ RingInv' /\ [Next]_vars => [Queue!Next]_<<Size - 1, Pending, taken>>
  <2> SUFFICES ASSUME RingInv, RingInv', [Next]_vars
               PROVE  [Queue!Next]_<<Size - 1, Pending, taken>>
    OBVIOUS
  <2>1. Readable /\ Readable'
    BY PendingSeq, PTL
  <2>2. CASE Kept
    BY <2>2 DEF Kept, Pending, AvailableBytes, Size
  <2>3. CASE Takes
    <3>1. Pending # <<>> /\ Pending' = Tail(Pending) /\ Size' = Size
          /\ Head(Pending) = rx_buffer[rx_Tail']
      BY <2>1, <2>3, TakePending DEF Takes
    <3>2. taken' = Append(taken, Head(Pending))
      BY <2>3, <3>1 DEF Takes
    <3> QED BY <3>1, <3>2 DEF Queue!Next, Queue!Take
  <2>4. ASSUME NEW b \in Byte, Publishes(b) PROVE Queue!Accept(b)
    <3>1. Pending' = Append(Pending, b) /\ Stored < Size - 1 /\ Size' = Size
      BY <2>1, <2>4, RxPending DEF Publishes, RingInv, TypeOK
    <3>2. Len(Pending) < Size - 1
      BY <2>1, <3>1 DEF Readable
    <3> QED BY <2>4, <3>1, <3>2 DEF Queue!Accept, Publishes
  <2> QED BY <2>2, <2>3, <2>4, StepKinds DEF Queue!Next
<1> QED BY <1>1, <1>2, RingInvariant, PTL DEF Spec, ImplementsQueue, Queue!Spec

\* uart_AvailableBytes / uart_peek: what was counted and seen stays there until
\* the task itself takes it, whatever the interrupt does in between.
THEOREM PeekTheorem == Spec => PeekHolds
<1> DEFINE Holds == AvailableBytes > 0 /\ taken' = taken
                      => AvailableBytes' >= AvailableBytes /\ peek' = peek
<1>1. RingInv /\ RingInv' /\ [Next]_vars => [Holds]_vars
  <2> SUFFICES ASSUME RingInv, RingInv', [Next]_vars, AvailableBytes > 0, taken' = taken
               PROVE  AvailableBytes' >= AvailableBytes /\ peek' = peek
    OBVIOUS
  <2>1. Readable /\ Readable'
    BY PendingSeq, PTL
  <2>2. /\ Size \in Nat /\ Size >= 2 /\ rx_Head \in 0..(Size - 1) /\ rx_Tail \in 0..(Size - 1)
        /\ AvailableBytes = Stored /\ Stored \in 0..(Size - 1)
    BY <2>1, Moves DEF Readable, Indices, AvailableBytes, Stored
  <2>3. CASE Kept
    <3>1. AvailableBytes' = AvailableBytes /\ peek' = peek
      BY <2>3 DEF Kept, AvailableBytes, peek, Size
    <3> QED BY <2>2, <3>1
  <2>4. CASE Takes
    <3>1. rx_Tail' \in 0..(Size - 1)
      BY <2>2, <2>4, Moves DEF Takes
    <3>2. rx_buffer[rx_Tail'] \in Byte /\ taken \in Seq(Byte)
      BY <3>1 DEF RingInv, TypeOK
    <3> DEFINE n == Len(taken)
               m == Len(taken')
    <3>3. m = n + 1 /\ n \in Nat
      BY <2>4, <3>2, AppendProperties, LenProperties DEF Takes
    <3>4. m = n
      OBVIOUS
    <3> HIDE DEF n, m
    <3> QED BY <3>3, <3>4
  <2>5. ASSUME NEW b \in Byte, Publishes(b)
        PROVE  AvailableBytes' >= AvailableBytes /\ peek' = peek
    <3>1. Size' = Size /\ rx_Tail' = rx_Tail
      BY <2>5 DEF Publishes, Size
    <3>2. AvailableBytes' = Stored + 1
      <4> DEFINE h == (rx_Head + 1) % Size
      <4>1. h \in 0..(Size - 1) /\ h # rx_Tail /\ rx_Head' = h
        BY <2>2, <2>5, Moves DEF Publishes
      <4>2. Used(h, rx_Tail, Size) = Stored + 1
        BY <2>2, <4>1, Moves DEF Stored
      <4> HIDE DEF h
      <4>3. (h - rx_Tail) % Size = Used(h, rx_Tail, Size)
        BY <2>2, <4>1, Moves
      <4> QED BY <3>1, <4>1, <4>2, <4>3 DEF AvailableBytes
    <3>3. 1 \in 1..Stored
      BY <2>2
    <3>4. (rx_Tail + 1) % Size # (rx_Head + 1) % Size /\ (rx_Tail + 1) % Size \in 0..(Size - 1)
      BY <2>1, <3>3, StorePending
    <3>5. peek' = peek
      BY <2>5, <3>1, <3>4 DEF Publishes, peek, RingInv, TypeOK
    <3> QED BY <2>2, <3>2, <3>5
  <2> QED BY <2>3, <2>4, <2>5, StepKinds
<1> QED BY <1>1, RingInvariant, PTL DEF Spec, PeekHolds

(***************************************************************************)
(* The readers' positions in what is sent: r is what is left to read, b    *)
(* what is stored of the string behind the first k.                        *)
(***************************************************************************)
Count(m) == Len(Strings(m))
Codes == -1..255

\* What a getter may return.
LEMMA CodesFact ==
  /\ Chars \subseteq Codes /\ Byte \subseteq Codes /\ Codes \subseteq Int
  /\ Space \in Codes /\ CR \in Codes /\ LF \in Codes /\ NUL \in Codes
BY DEF Chars, Byte, Codes, Space, CR, LF, NUL

\* Left, Between, InString, InEnd and Fits of the model, without the variables.
LeftOf(m, k) == Trailing(m)[Count(m) - k]

BetweenOf(m, k, r) ==
  \/ r = LeftOf(m, k)
  \/ m # "lines" /\ r \in {End(m) \o LeftOf(m, k), Tail(End(m)) \o LeftOf(m, k)}

InStringOf(m, k, b, r) ==
  /\ k < Count(m) => Len(b) <= Len(Strings(m)[k + 1])
  /\ b \o r = LeftOf(m, k)

InEndOf(m, k, b, r) ==
  /\ m # "words" /\ k < Count(m) /\ b = Strings(m)[k + 1]
  /\ r = Tail(End(m)) \o LeftOf(m, k + 1)

FitsOf(m, k, z) ==
  k <= Count(m) => z >= Len(Strings(m)[k]) + (IF m = "lines" THEN 2 ELSE 1)

\* The strings that are left, one by one.
LEMMA LeftFact ==
  ASSUME NEW m \in StringModes
  PROVE  /\ Count(m) \in Nat /\ LeftOf(m, Count(m)) = <<>>
         /\ \A k \in 0..Count(m) : LeftOf(m, k) \in Seq(Codes)
         /\ \A k \in 0..Count(m) : k < Count(m) =>
              /\ Strings(m)[k + 1] \in Seq(Codes)
              /\ LeftOf(m, k) = Strings(m)[k + 1] \o (End(m) \o LeftOf(m, k + 1))
<1> DEFINE n == Count(m)
           s == Strings(m)
           f == Trailing(m)
<1>0. m \in TextModes
  BY DEF StringModes, TextModes
<1>1. n \in Nat /\ s \in Seq(Seq(Chars)) /\ n = Len(s)
  BY <1>0, StringsFact DEF Count
<1>2. /\ f[0] = <<>>
      /\ \A i \in 1..n : f[i] = s[n - (i - 1)] \o (End(m) \o f[i - 1])
      /\ \A i \in 0..n : f[i] \in Seq(Chars)
  BY <1>0, <1>1, TrailingStep, TrailingFact
<1>3. Seq(Chars) \subseteq Seq(Codes)
  <2>1. Chars \subseteq Codes
    BY CodesFact
  <2> QED BY <2>1, SeqMonotonic
<1>4. \A i \in 1..n : s[i] \in Seq(Chars)
  BY <1>1, ElementOfSeq
<1>5. \A k : LeftOf(m, k) = f[n - k]
  BY DEF LeftOf
<1> HIDE DEF n, s, f
<1>6. LeftOf(m, n) = <<>>
  <2>1. n - n = 0
    BY <1>1
  <2> QED BY <1>2, <1>5, <2>1
<1>7. ASSUME NEW k \in 0..n PROVE LeftOf(m, k) \in Seq(Codes)
  <2>1. n - k \in 0..n
    BY <1>1
  <2> QED BY <1>2, <1>3, <1>5, <2>1
<1>8. ASSUME NEW k \in 0..n, k < n
      PROVE  s[k + 1] \in Seq(Codes) /\ LeftOf(m, k) = s[k + 1] \o (End(m) \o LeftOf(m, k + 1))
  <2> DEFINE i == n - k
  <2>1. i \in 1..n /\ n - (i - 1) = k + 1 /\ i - 1 = n - (k + 1) /\ k + 1 \in 1..n
    BY <1>1, <1>8
  <2> HIDE DEF i
  <2>2. f[i] = s[n - (i - 1)] \o (End(m) \o f[i - 1])
    BY <1>2, <2>1
  <2>3. LeftOf(m, k) = f[i] /\ LeftOf(m, k + 1) = f[i - 1]
    <3>1. LeftOf(m, k) = f[n - k]
      BY <1>5
    <3>2. LeftOf(m, k + 1) = f[n - (k + 1)]
      BY <1>5
    <3> QED BY <2>1, <3>1, <3>2 DEF i
  <2>4. s[k + 1] \in Seq(Codes)
    BY <1>3, <1>4, <2>1
  <2>5. s[n - (i - 1)] = s[k + 1]
    BY <2>1
  <2> QED BY <2>2, <2>3, <2>4, <2>5
<1> QED BY <1>1, <1>6, <1>7, <1>8 DEF n, s

\* What ends a string.
LEMMA Ends ==
  ASSUME NEW m
  PROVE  /\ End(m) \in Seq(Codes) /\ Tail(End(m)) \in Seq(Codes)
         /\ m = "words" => Tail(End(m)) = <<>>
         /\ m # "words" => Tail(End(m)) = <<LF>>
         /\ \A x \in Seq(Codes) :
              End(m) \o x = <<IF m = "words" THEN Space ELSE CR>> \o (Tail(End(m)) \o x)
<1>1. Chars \subseteq Codes /\ Space \in Codes /\ CR \in Codes
  BY CodesFact
<1>2. Seq(Chars) \subseteq Seq(Codes) /\ <<Space>> \in Seq(Codes) /\ <<CR>> \in Seq(Codes)
  BY <1>1, SeqMonotonic, One
<1>3. End(m) \in Seq(Codes) /\ Tail(End(m)) \in Seq(Codes)
  BY <1>2, EndFact
<1>4. CASE m = "words"
  BY <1>2, <1>3, <1>4, EndFact, ConcatAssociative
<1>5. CASE m # "words"
  BY <1>2, <1>3, <1>5, EndFact, ConcatAssociative
<1> QED BY <1>3, <1>4, <1>5

\* NextByte and ConsEqual for them.
LEMMA CodeNext ==
  ASSUME NEW b \in Seq(Codes), NEW s \in Seq(Codes), NEW c \in Codes, NEW x \in Seq(Codes),
         NEW y \in Seq(Codes), b \o (<<c>> \o x) = s \o y, Len(b) <= Len(s)
  PROVE  \/ Len(b) < Len(s) /\ c = s[Len(b) + 1]
         \/ b = s /\ <<c>> \o x = y
BY NextByte

\* Equal first bytes, equal rests.
LEMMA CodeCons ==
  ASSUME NEW a \in Codes, NEW b \in Codes, NEW x \in Seq(Codes), NEW y \in Seq(Codes),
         <<a>> \o x = <<b>> \o y
  PROVE  a = b /\ x = y
BY ConsEqual

\* Nothing is left: there is no byte to read.
LEMMA NoByte ==
  ASSUME NEW b \in Seq(Codes), NEW c \in Codes, NEW r \in Seq(Codes) PROVE b \o (<<c>> \o r) # <<>>
<1>1. <<c>> \o r \in Seq(Codes) /\ <<c>> \in Seq(Codes) /\ <<c>> # <<>>
  BY One, ConcatProperties
<1>2. <<c>> \o r # <<>>
  BY <1>1, ConcatSimplifications
<1> QED BY <1>1, <1>2, ConcatSimplifications

\* A byte of the body of a string, or the first byte of its end.
LEMMA BodyByte ==
  ASSUME NEW m \in StringModes, NEW k \in 0..Count(m), NEW b \in Seq(Codes), NEW c \in Codes,
         NEW r \in Seq(Codes), InStringOf(m, k, b, <<c>> \o r)
  PROVE  /\ k < Count(m)
         /\ \/ /\ Len(b) < Len(Strings(m)[k + 1]) /\ c = Strings(m)[k + 1][Len(b) + 1]
               /\ InStringOf(m, k, Append(b, c), r)
            \/ /\ b = Strings(m)[k + 1] /\ c = (IF m = "words" THEN Space ELSE CR)
               /\ r = Tail(End(m)) \o LeftOf(m, k + 1)
<1> DEFINE n == Count(m)
           s == Strings(m)[k + 1]
           y == End(m) \o LeftOf(m, k + 1)
<1>1. n \in Nat /\ LeftOf(m, n) = <<>>
  BY LeftFact
<1>2. k < n
  <2>1. LeftOf(m, k) # <<>>
    BY NoByte DEF InStringOf
  <2>2. k # n
    BY <1>1, <2>1
  <2> HIDE DEF n
  <2> QED BY <1>1, <2>2 DEF n
<1>3. s \in Seq(Codes) /\ LeftOf(m, k) = s \o y
  BY <1>2, LeftFact
<1>4. LeftOf(m, k + 1) \in Seq(Codes)
  <2>1. k + 1 \in 0..n
    <3> HIDE DEF n
    <3> QED BY <1>1, <1>2 DEF n
  <2> QED BY <2>1, LeftFact
<1>5. End(m) \in Seq(Codes) /\ y \in Seq(Codes)
  BY <1>4, Ends, ConcatProperties
<1>6. Len(b) <= Len(s) /\ b \o (<<c>> \o r) = s \o y
  <2>1. /\ k < n => Len(b) <= Len(s)
        /\ b \o (<<c>> \o r) = LeftOf(m, k)
    BY DEF InStringOf
  <2> HIDE DEF y, s
  <2> QED BY <1>2, <1>3, <2>1
<1> HIDE DEF y, s
<1>7. \/ Len(b) < Len(s) /\ c = s[Len(b) + 1]
      \/ b = s /\ <<c>> \o r = y
  <2>1. /\ b \in Seq(Codes) /\ c \in Codes /\ r \in Seq(Codes)
        /\ s \in Seq(Codes) /\ y \in Seq(Codes)
    BY <1>3, <1>5
  <2> QED BY ONLY <1>6, <2>1, CodeNext
<1>8. CASE Len(b) < Len(s) /\ c = s[Len(b) + 1]
  <2>1. Append(b, c) \o r = LeftOf(m, k)
    <3>1. Append(b, c) \o r = b \o (<<c>> \o r)
      BY Shifted
    <3> QED BY <1>3, <1>6, <3>1
  <2>2. Len(Append(b, c)) <= Len(s)
    <3>1. Len(Append(b, c)) = Len(b) + 1
      BY AppendProperties
    <3>2. Len(b) \in Nat /\ Len(s) \in Nat
      BY <1>3, LenProperties
    <3> QED BY <1>8, <3>1, <3>2
  <2>3. InStringOf(m, k, Append(b, c), r)
    BY <2>1, <2>2 DEF InStringOf, s
  <2> QED BY <1>2, <1>8, <2>3 DEF s
<1>9. CASE b = s /\ <<c>> \o r = y
  <2> DEFINE e == IF m = "words" THEN Space ELSE CR
             x == Tail(End(m)) \o LeftOf(m, k + 1)
  <2>1. y = <<e>> \o x
    BY <1>4, Ends DEF y
  <2>2. x \in Seq(Codes) /\ e \in Codes
    <3>1. x \in Seq(Codes)
      BY <1>4, Ends, ConcatProperties
    <3>2. Space \in Codes /\ CR \in Codes
      BY CodesFact
    <3> QED BY <3>1, <3>2
  <2> HIDE DEF e, x
  <2>3. c = e /\ r = x
    <3>1. <<c>> \o r = <<e>> \o x /\ c \in Codes /\ r \in Seq(Codes)
      BY <1>9, <2>1
    <3> QED BY ONLY <2>2, <3>1, CodeCons
  <2> QED BY <1>2, <1>9, <2>3 DEF e, x, s
<1> QED BY <1>7, <1>8, <1>9

\* The number of the next string.
LEMMA NextIndex ==
  ASSUME NEW m \in StringModes, NEW k \in 0..Count(m), k < Count(m)
  PROVE  k + 1 \in 0..Count(m) /\ k + 1 \in 1..Count(m)
<1>1. Count(m) \in Nat
  BY LeftFact
<1> QED BY <1>1

\* The LF behind the CR.
LEMMA EndByte ==
  ASSUME NEW m \in StringModes, NEW k \in 0..Count(m), NEW b, NEW c \in Codes,
         NEW r \in Seq(Codes), InEndOf(m, k, b, <<c>> \o r)
  PROVE  k < Count(m) /\ b = Strings(m)[k + 1] /\ r = LeftOf(m, k + 1) /\ k + 1 \in 0..Count(m)
<1> DEFINE x == LeftOf(m, k + 1)
<1>1. k < Count(m) /\ b = Strings(m)[k + 1] /\ m # "words" /\ <<c>> \o r = Tail(End(m)) \o x
  BY DEF InEndOf
<1>2. k + 1 \in 0..Count(m)
  BY <1>1, NextIndex
<1>3. x \in Seq(Codes)
  BY <1>2, LeftFact
<1>4. LF \in Codes /\ Tail(End(m)) = <<LF>>
  BY <1>1, Ends, CodesFact
<1> HIDE DEF x
<1>5. r = x
  <2>1. <<c>> \o r = <<LF>> \o x
    BY <1>1, <1>4
  <2>2. c \in Codes /\ r \in Seq(Codes)
    OBVIOUS
  <2> QED BY ONLY <1>3, <1>4, <2>1, <2>2, CodeCons
<1> QED BY <1>1, <1>2, <1>5 DEF x

\* A string that is stored completely.
LEMMA AllStored ==
  ASSUME NEW m \in StringModes, NEW k \in 0..Count(m), NEW b \in Seq(Codes),
         NEW r \in Seq(Codes), InStringOf(m, k, b, r), k < Count(m),
         Len(b) = Len(Strings(m)[k + 1])
  PROVE  b = Strings(m)[k + 1] /\ r = End(m) \o LeftOf(m, k + 1) /\ k + 1 \in 0..Count(m)
<1> DEFINE s == Strings(m)[k + 1]
           y == End(m) \o LeftOf(m, k + 1)
<1>1. k + 1 \in 0..Count(m)
  BY NextIndex
<1>2. s \in Seq(Codes) /\ LeftOf(m, k) = s \o y /\ LeftOf(m, k + 1) \in Seq(Codes)
  BY <1>1, LeftFact
<1>3. y \in Seq(Codes)
  BY <1>2, Ends, ConcatProperties
<1>4. b \o r = s \o y /\ Len(b) = Len(s)
  BY <1>2 DEF InStringOf
<1>5. b \in Seq(Codes) /\ r \in Seq(Codes)
  OBVIOUS
<1> HIDE DEF s, y
<1>6. s \in Seq(Codes)
  BY <1>2
<1>7. b = s /\ r = y
  BY ONLY <1>3, <1>4, <1>5, <1>6, CutEqual
<1> QED BY <1>1, <1>7 DEF s, y

\* The byte uart_getlnToFirstWhiteSpace finds while it skips white space: one of
\* the end in front, or the first byte of the next string.
LEMMA SkipByte ==
  ASSUME NEW m \in {"words", "numbers"}, NEW k \in 0..Count(m), NEW c \in Codes,
         NEW r \in Seq(Codes), BetweenOf(m, k, <<c>> \o r)
  PROVE  /\ c <= Space => BetweenOf(m, k, r)
         /\ c > Space => InStringOf(m, k, <<c>>, r) /\ k < Count(m)
<1> DEFINE x == LeftOf(m, k)
           e == Tail(End(m))
<1>0. m \in StringModes /\ m \in TextModes
  BY DEF StringModes, TextModes
<1>1. x \in Seq(Codes) /\ e \in Seq(Codes) /\ e \o x \in Seq(Codes)
  BY <1>0, LeftFact, Ends, ConcatProperties
<1>2. c \in Int /\ Space = 32 /\ CR = 13 /\ LF = 10 /\ c \in Codes /\ r \in Seq(Codes)
  BY CodesFact DEF Space, CR, LF
<1>3. CASE <<c>> \o r = End(m) \o x
  <2> DEFINE a == IF m = "words" THEN Space ELSE CR
             z == e \o x
  <2>1. End(m) \o x = <<a>> \o z /\ z \in Seq(Codes)
    BY <1>1, Ends
  <2>2. a <= Space /\ a \in Codes
    BY <1>2, CodesFact
  <2> HIDE DEF a, z
  <2>3. <<c>> \o r = <<a>> \o z /\ c \in Codes /\ r \in Seq(Codes)
    BY <1>3, <2>1
  <2>4. c = a /\ r = z
    BY ONLY <2>1, <2>2, <2>3, CodeCons
  <2>5. BetweenOf(m, k, r)
    BY <2>4 DEF BetweenOf, z, x, e
  <2>6. ~(c > Space)
    BY <1>2, <2>2, <2>4
  <2> QED BY <2>5, <2>6
<1>4. CASE <<c>> \o r = x
  <2> DEFINE n == Count(m)
             s == Strings(m)[k + 1]
             y == End(m) \o LeftOf(m, k + 1)
  <2>1. n \in Nat /\ LeftOf(m, n) = <<>>
    BY <1>0, LeftFact
  <2>2. k < n
    <3>1. <<c>> \o r # <<>>
      <4>1. <<>> \in Seq(Codes) /\ <<>> \o (<<c>> \o r) # <<>>
        BY EmptySeq, NoByte
      <4>2. <<c>> \o r \in Seq(Codes)
        BY <1>1, <1>4
      <4> QED BY <4>1, <4>2, ConcatEmptySeq
    <3>2. k # n
      BY <1>4, <2>1, <3>1
    <3> HIDE DEF n
    <3> QED BY <2>1, <3>2 DEF n
  <2>3. s \in Seq(Codes) /\ x = s \o y
    BY <1>0, <2>2, LeftFact
  <2>4. s \in Seq(Visible) /\ s # <<>>
    <3>1. k + 1 \in 1..n
      <4> HIDE DEF n
      <4> QED BY <2>1, <2>2 DEF n
    <3> QED BY <1>0, <3>1, StringsFact DEF Count
  <2>5. Head(s) \in Visible /\ Head(s) \in Codes /\ Tail(s) \in Seq(Codes)
        /\ s = <<Head(s)>> \o Tail(s) /\ Len(s) \in Nat \ {0}
    BY <2>3, <2>4, HeadTail, EmptySeq
  <2>6. LeftOf(m, k + 1) \in Seq(Codes)
    <3>1. k + 1 \in 0..n
      <4> HIDE DEF n
      <4> QED BY <2>1, <2>2 DEF n
    <3> QED BY <1>0, <3>1, LeftFact
  <2>7. y \in Seq(Codes)
    BY <2>6, Ends, ConcatProperties
  <2> DEFINE h == Head(s)
             t == Tail(s)
             z == t \o y
  <2>8. x = <<h>> \o z /\ z \in Seq(Codes) /\ h \in Codes
    <3> HIDE DEF y
    <3>1. <<h>> \in Seq(Codes)
      BY <2>5, One
    <3> HIDE DEF s
    <3>2. z \in Seq(Codes)
      BY <2>5, <2>7, ConcatProperties
    <3>3. (<<h>> \o t) \o y = <<h>> \o (t \o y)
      BY <2>5, <2>7, <3>1, ConcatAssociative
    <3> QED BY <2>3, <2>5, <3>2, <3>3
  <2> HIDE DEF h, z, x
  <2>9. c = h /\ r = z
    <3>1. <<c>> \o r = <<h>> \o z
      BY <1>4, <2>8
    <3> QED BY ONLY <1>2, <2>8, <3>1, CodeCons
  <2>10. c > Space
    BY <2>5, <2>9, VisibleFact DEF h
  <2>11. ~(c <= Space)
    BY <1>2, <2>10
  <2>12. Len(<<c>>) <= Len(s)
    <3>1. Len(<<c>>) = 1
      OBVIOUS
    <3> HIDE DEF s
    <3> QED BY <2>5, <3>1
  <2>13. InStringOf(m, k, <<c>>, r)
    BY <1>4, <2>12 DEF InStringOf, x
  <2> QED BY <2>2, <2>11, <2>13
<1>5. CASE <<c>> \o r = e \o x
  <2>1. CASE m = "words"
    <3>1. e \o x = x
      BY <1>1, <2>1, Ends, ConcatEmptySeq
    <3> HIDE DEF e, x
    <3> QED BY <1>4, <1>5, <3>1
  <2>2. CASE m # "words"
    <3>1. <<c>> \o r = <<LF>> \o x /\ LF \in Codes
      BY <1>5, <2>2, Ends, CodesFact
    <3> HIDE DEF x
    <3>2. x \in Seq(Codes)
      BY <1>1
    <3>3. c = LF /\ r = x
      BY ONLY <1>2, <3>1, <3>2, CodeCons
    <3>4. BetweenOf(m, k, r)
      BY <3>3 DEF BetweenOf, x
    <3>5. ~(c > Space)
      BY <1>2, <3>3
    <3> QED BY <3>4, <3>5
  <2> QED BY <2>1, <2>2
<1> QED BY <1>3, <1>4, <1>5 DEF BetweenOf

(***************************************************************************)
(* What the task should get.                                               *)
(***************************************************************************)
\* Expected, mode by mode.
LEMMA ExpectedFact ==
  /\ Expected("lines") = Lines /\ Expected("words") = Words /\ Expected("numbers") = Numbers
  /\ Expected("data") = Sent("data") /\ Expected("text") = Sent("text")
BY Zenon DEF Expected

\* What the task should get, string by string: uart_getint gets the number
\* uart_putint wrote.
LEMMA Answers ==
  ASSUME NEW m \in StringModes
  PROVE  /\ \E S : Expected(m) \in Seq(S)
         /\ Len(Expected(m)) = Count(m)
         /\ m # "numbers" => \A i \in 1..Count(m) : Expected(m)[i] = Strings(m)[i]
         /\ m = "numbers" => \A i \in 1..Count(m) : Expected(m)[i] = atoi(Strings(m)[i])
<1>1. /\ Lines \in Seq(Seq(Byte \ {NUL, CR, LF})) /\ Words \in Seq(Seq(Visible) \ {<<>>})
      /\ Numbers \in Seq(Int16)
  BY InputAssumption
<1>2. CASE m = "lines"
  <2>1. Expected(m) = Lines /\ Strings(m) = Lines /\ m # "numbers"
    BY <1>2, ExpectedFact DEF Strings
  <2> QED BY <1>1, <2>1 DEF Count
<1>3. CASE m = "words"
  <2>1. Expected(m) = Words /\ Strings(m) = Words /\ m # "numbers"
    BY <1>3, ExpectedFact DEF Strings
  <2> QED BY <1>1, <2>1 DEF Count
<1>4. CASE m = "numbers"
  <2> DEFINE s == [i \in 1..Len(Numbers) |-> putint(Numbers[i])]
             n == Len(Numbers)
  <2>1. Expected(m) = Numbers /\ Strings(m) = s
    BY <1>4, ExpectedFact DEF Strings
  <2>2. n \in Nat /\ \A i \in 1..n : Numbers[i] \in Int16
    BY <1>1, LenProperties, ElementOfSeq
  <2>3. \A i \in 1..n : s[i] = putint(Numbers[i])
    OBVIOUS
  <2>4. m \in TextModes
    BY DEF StringModes, TextModes
  <2>5. Len(s) = n
    <3>1. Len(s) \in Nat /\ DOMAIN s = 1..Len(s)
      BY <2>1, <2>4, StringsFact, LenProperties
    <3>2. DOMAIN s = 1..n
      OBVIOUS
    <3> HIDE DEF s, n
    <3> DEFINE l == Len(s)
    <3>3. l \in Nat /\ 1..l = 1..n
      BY <3>1, <3>2
    <3> HIDE DEF l
    <3>4. (l \in 1..n \/ l = 0) /\ (n \in 1..l \/ n = 0)
      BY <2>2, <3>3
    <3>5. l = n
      BY <2>2, <3>3, <3>4
    <3> QED BY <3>5 DEF l
  <2>6. \A i \in 1..n : Numbers[i] = atoi(s[i])
    <3> TAKE i \in 1..n
    <3>1. Numbers[i] \in Int16 /\ s[i] = putint(Numbers[i])
      BY <2>2, <2>3
    <3> HIDE DEF s, n
    <3> QED BY <3>1, ReadNumber
  <2> HIDE DEF s
  <2> QED BY <1>1, <1>4, <2>1, <2>5, <2>6 DEF Count
<1> QED BY <1>2, <1>3, <1>4 DEF StringModes

\* One result more.
LEMMA Grow ==
  ASSUME NEW m \in StringModes, NEW k \in 0..Count(m), k < Count(m)
  PROVE  /\ SubSeq(Expected(m), 1, k) \o <<Expected(m)[k + 1]>> = SubSeq(Expected(m), 1, k + 1)
         /\ Len(SubSeq(Expected(m), 1, k + 1)) = k + 1
<1> DEFINE e == Expected(m)
           j == k + 1
<1>1. PICK S : e \in Seq(S)
  BY Answers
<1>2. Len(e) = Count(m) /\ Count(m) \in Nat
  BY Answers, LeftFact
<1> HIDE DEF e
<1>3. 1 \in 1..Len(e) /\ j \in 1..Len(e) /\ j - 1 = k
  BY <1>2
<1> HIDE DEF j
<1>4. SubSeq(e, 1, j) = SubSeq(e, 1, j - 1) \o <<e[j]>>
  BY <1>1, <1>3, SubSeqRecursiveSecond
<1>5. \A i \in 1..j : e[i] \in S
  <2>1. \A i \in 1..j : i \in 1..Len(e)
    BY <1>2, <1>3
  <2> QED BY <1>1, <2>1, ElementOfSeq
<1>6. Len(SubSeq(e, 1, j)) = j
  <2>1. 1 \in Int /\ j \in Int /\ 1 <= j
    BY <1>2, <1>3
  <2>2. Len(SubSeq(e, 1, j)) = (IF 1 <= j THEN j - 1 + 1 ELSE 0)
    BY ONLY <1>5, <2>1, SubSeqProperties
  <2> QED BY <2>1, <2>2
<1> QED BY <1>3, <1>4, <1>6 DEF e, j

(***************************************************************************)
(* The reader's state, without the variables.                              *)
(***************************************************************************)
StringsOf(m, res, a, ph, b, r, z) ==
  /\ Len(res) \in 0..Count(m) /\ res = SubSeq(Expected(m), 1, Len(res))
  /\ a = "user" => BetweenOf(m, Len(res), r)
  /\ a # "user" =>
       /\ FitsOf(m, Len(res) + 1, z)
       /\ ph = "skip" => BetweenOf(m, Len(res), r)
       /\ ph = "body" => InStringOf(m, Len(res), b, r)
       /\ ph = "eol" => InEndOf(m, Len(res), b, r)

\* StringsInOrder says this of the variables, before a step and after it.
LEMMA StringsNow ==
  StringsInOrder <=> (mode \notin {"data", "text"} =>
                        StringsOf(mode, results, at, phase, buffer, Rest, size))
BY DEF StringsInOrder, StringsOf, Between, BetweenOf, InString, InStringOf, InEnd, InEndOf,
       Fits, FitsOf, Left, LeftOf, Count

\* The same after the step.
LEMMA StringsThen ==
  StringsInOrder' <=> (mode' \notin {"data", "text"} =>
                         StringsOf(mode', results', at', phase', buffer', Rest', size'))
BY DEF StringsInOrder, StringsOf, Between, BetweenOf, InString, InStringOf, InEnd, InEndOf,
       Fits, FitsOf, Left, LeftOf, Count

\* The call returns the next string.
LEMMA Returned ==
  ASSUME NEW m \in StringModes, NEW res, NEW ph, NEW b, NEW r, NEW z, NEW res2,
         Len(res) \in 0..Count(m), Len(res) < Count(m),
         res = SubSeq(Expected(m), 1, Len(res)),
         res2 = res \o <<Expected(m)[Len(res) + 1]>>, BetweenOf(m, Len(res) + 1, r)
  PROVE  StringsOf(m, res2, "user", ph, b, r, z)
<1> DEFINE k == Len(res)
<1>1. k \in 0..Count(m) /\ k < Count(m) /\ Count(m) \in Nat
  BY LeftFact
<1> HIDE DEF k
<1>2. res2 = SubSeq(Expected(m), 1, k + 1) /\ Len(res2) = k + 1
  <2>1. /\ SubSeq(Expected(m), 1, k) \o <<Expected(m)[k + 1]>> = SubSeq(Expected(m), 1, k + 1)
        /\ Len(SubSeq(Expected(m), 1, k + 1)) = k + 1
    BY <1>1, Grow
  <2> QED BY <2>1 DEF k
<1>3. k + 1 \in 0..Count(m)
  BY <1>1
<1> QED BY <1>2, <1>3 DEF StringsOf, k

\* The array is full: the string is stored, and uart_getln does not come here.
LEMMA FullArray ==
  ASSUME NEW m \in StringModes, NEW k \in 0..Count(m), k < Count(m), NEW b \in Seq(Codes),
         NEW r \in Seq(Codes), NEW z \in Nat, InStringOf(m, k, b, r), FitsOf(m, k + 1, z),
         Len(b) + 1 = z
  PROVE  m # "lines" /\ b = Strings(m)[k + 1] /\ BetweenOf(m, k + 1, r)
<1> DEFINE s == Strings(m)[k + 1]
           x == Len(b)
           y == Len(s)
<1>1. x \in Nat /\ y \in Nat
  BY LeftFact, LenProperties
<1>2. x <= y
  BY DEF InStringOf
<1>3. k + 1 <= Count(m)
  <2>1. Count(m) \in Nat
    BY LeftFact
  <2> QED BY <2>1
<1>4. (m = "lines" => z >= y + 2) /\ (m # "lines" => z >= y + 1)
  BY <1>3 DEF FitsOf
<1>5. x + 1 = z
  OBVIOUS
<1> HIDE DEF x, y
<1>6. m # "lines" /\ x = y
  BY <1>1, <1>2, <1>4, <1>5
<1>7. b = s /\ r = End(m) \o LeftOf(m, k + 1)
  BY <1>6, AllStored DEF x, y
<1> QED BY <1>6, <1>7 DEF BetweenOf

(***************************************************************************)
(* The byte in the getter's hands.                                         *)
(***************************************************************************)
\* The bytes behind it.
Behind == Pending \o (udr \o wire)

\* They are bytes.
LEMMA BehindFact == ASSUME RingInv PROVE Behind \in Seq(Byte) /\ Behind \in Seq(Codes)
<1>1. Pending \in Seq(Byte) /\ udr \in Seq(Byte) /\ wire \in Seq(Byte)
  BY PendingSeq DEF Readable, RingInv, TypeOK
<1>2. Behind \in Seq(Byte)
  <2>1. udr \o wire \in Seq(Byte)
    BY <1>1, ConcatProperties
  <2> QED BY <1>1, <2>1, ConcatProperties DEF Behind
<1> QED BY <1>2, CodesFact, SeqMonotonic

\* A reader that has looked at the byte leaves the ones behind it.
LEMMA Hand ==
  ASSUME RingInv, at = "result", UNCHANGED Driver, at' # "result"
  PROVE  /\ Rest' \in Seq(Byte) /\ Rest' \in Seq(Codes) /\ tmp \in Codes
         /\ tmp = Nothing => Rest' = Rest
         /\ tmp # Nothing => Rest = <<tmp>> \o Rest'
<1>1. UNCHANGED <<port, wire, udr, rx_Head, rx_Tail, rx_buffer>>
  BY DEF Driver, shared
<1>2. Behind' = Behind
  BY <1>1 DEF Behind, Pending, AvailableBytes, Size
<1>3. Behind \in Seq(Byte) /\ Behind \in Seq(Codes)
  BY BehindFact
<1>4. Rest' = Behind
  <2>1. Rest' = InHand' \o Behind'
    BY DEF Rest, Behind
  <2>2. InHand' = <<>>
    BY DEF InHand
  <2> QED BY <1>2, <1>3, <2>1, <2>2, ConcatEmptySeq
<1>5. Rest = InHand \o Behind
  BY DEF Rest, Behind
<1>6. tmp = Nothing => Rest = Behind
  <2>1. tmp = Nothing => InHand = <<>>
    BY DEF InHand
  <2> QED BY <1>3, <1>5, <2>1, ConcatEmptySeq
<1>7. tmp # Nothing => Rest = <<tmp>> \o Behind
  BY <1>5 DEF InHand
<1>8. tmp \in Codes
  BY DEF RingInv, TypeOK, Codes
<1> QED BY <1>3, <1>4, <1>6, <1>7, <1>8

\* What is sent in each mode.
Alphabet(m) == IF m = "data" THEN Byte ELSE Byte \ {NUL}

\* A sequence of such bytes, its first one and the others.
LEMMA AlphabetTail ==
  ASSUME NEW A, A \subseteq Byte, NEW c \in Codes, NEW r \in Seq(Codes), <<c>> \o r \in Seq(A)
  PROVE  c \in A /\ r \in Seq(A)
<1> DEFINE s == <<c>> \o r
<1>1. s # <<>>
  <2>1. <<c>> \in Seq(Codes) /\ <<c>> # <<>>
    BY One
  <2> QED BY <2>1, ConcatSimplifications, ConcatProperties
<1>2. s = <<Head(s)>> \o Tail(s) /\ Head(s) \in A /\ Tail(s) \in Seq(A)
  BY <1>1, HeadTail
<1>3. Head(s) \in Codes /\ Tail(s) \in Seq(Codes)
  <2>1. A \subseteq Codes
    BY CodesFact
  <2> QED BY <1>2, <2>1, SeqMonotonic
<1> DEFINE h == Head(s)
           t == Tail(s)
<1>4. <<c>> \o r = <<h>> \o t /\ h \in Codes /\ t \in Seq(Codes) /\ c \in Codes /\ r \in Seq(Codes)
  BY <1>2, <1>3
<1> HIDE DEF h, t, s
<1>5. c = h /\ r = t
  BY ONLY <1>4, CodeCons
<1> QED BY <1>2, <1>5 DEF h, t

\* What a getter returns on an empty ring.
LEMMA NothingFact ==
  ASSUME mode \in Modes
  PROVE  /\ mode = "data" => Nothing = -1
         /\ mode # "data" => Nothing = NUL
BY DEF Nothing

\* The byte in the getter's hands is one that was sent, and so are the others.
LEMMA HandAlphabet ==
  ASSUME RingInv, InputInv, at = "result", UNCHANGED Driver, at' # "result", lost = 0
  PROVE  /\ Rest' \in Seq(Alphabet(mode))
         /\ tmp # Nothing => tmp \in Alphabet(mode)
<1>1. Rest \in Seq(Alphabet(mode)) /\ Alphabet(mode) \subseteq Byte
  BY DEF InputInv, Alphabet
<1>2. CASE tmp = Nothing
  BY <1>1, <1>2, Hand
<1>3. CASE tmp # Nothing
  <2>1. Rest = <<tmp>> \o Rest' /\ tmp \in Codes /\ Rest' \in Seq(Codes)
    BY <1>3, Hand
  <2> QED BY <1>1, <2>1, AlphabetTail
<1> QED BY <1>2, <1>3

\* A reader step, when the reader's own position is right.
LEMMA ReaderInput ==
  ASSUME RingInv, InputInv, at = "result", UNCHANGED Driver, at' # "result",
         UNCHANGED <<op, roomy>>,
         lost = 0 /\ roomy => BytesInOrder' /\ StringsInOrder'
  PROVE  InputInv'
<1>1. mode' = mode /\ lost' = lost
  BY DEF Driver, shared
<1>2. (at' # "user" => op' \in Operations(mode'))
  BY <1>1 DEF InputInv
<1>3. lost = 0 => Rest' \in Seq(Alphabet(mode))
  BY HandAlphabet
<1> QED BY <1>1, <1>2, <1>3 DEF InputInv, Alphabet

(***************************************************************************)
(* The readers of strings.                                                 *)
(***************************************************************************)
\* The operations, mode by mode.
LEMMA OperationsFact ==
  /\ Operations("data") = {"getData", "LoadData", "getchar"}
  /\ Operations("text") = {"getc", "gets"}
  /\ Operations("lines") = {"getln"}
  /\ Operations("words") = {"getword"}
  /\ Operations("numbers") = {"getint"}
BY Zenon DEF Operations

\* Where the reader is: behind the first k strings.
Place(k) ==
  /\ k \in 0..Count(mode) /\ k = Len(results) /\ results = SubSeq(Expected(mode), 1, k)
  /\ FitsOf(mode, k + 1, size)
  /\ phase = "skip" => BetweenOf(mode, k, Rest)
  /\ phase = "body" => InStringOf(mode, k, buffer, Rest)
  /\ phase = "eol" => InEndOf(mode, k, buffer, Rest)

\* InputInv gives the reader's place.
LEMMA PlaceNow ==
  ASSUME InputInv, lost = 0, roomy, at = "result", mode \in StringModes
  PROVE  Place(Len(results))
<1>1. mode \notin {"data", "text"}
  BY DEF StringModes
<1>2. StringsOf(mode, results, at, phase, buffer, Rest, size)
  BY <1>1, StringsNow DEF InputInv
<1> QED BY <1>2 DEF StringsOf, Place

\* The getter is called again.
LEMMA AgainInput ==
  ASSUME mode \in StringModes, NEW k, Place(k), NEW p, Again(p),
         p = "skip" => BetweenOf(mode, k, Rest'),
         p = "body" => InStringOf(mode, k, buffer, Rest'),
         p = "eol" => InEndOf(mode, k, buffer, Rest')
  PROVE  BytesInOrder' /\ StringsInOrder'
<1>1. mode' = mode /\ at' = "test" /\ phase' = p /\ UNCHANGED <<size, buffer, results>>
  BY DEF Again, Driver, shared
<1>2. BytesInOrder'
  BY <1>1 DEF BytesInOrder, StringModes
<1>3. StringsOf(mode', results', at', phase', buffer', Rest', size')
  BY <1>1 DEF StringsOf, Place
<1> QED BY <1>2, <1>3, StringsThen

\* The string is complete.
LEMMA TerminateInput ==
  ASSUME mode \in StringModes, NEW k, Place(k), k < Count(mode), NEW b, NEW g,
         Terminate(b, <<g>>), g = Expected(mode)[k + 1], BetweenOf(mode, k + 1, Rest')
  PROVE  BytesInOrder' /\ StringsInOrder'
<1>1. mode' = mode /\ at' = "user" /\ results' = results \o <<g>>
  BY DEF Terminate, Driver, shared
<1>2. BytesInOrder'
  BY <1>1 DEF BytesInOrder, StringModes
<1>3. /\ Len(results) \in 0..Count(mode) /\ Len(results) < Count(mode)
      /\ results = SubSeq(Expected(mode), 1, Len(results))
      /\ results' = results \o <<Expected(mode)[Len(results) + 1]>>
      /\ BetweenOf(mode, Len(results) + 1, Rest')
  BY <1>1 DEF Place
<1>4. StringsOf(mode, results', "user", phase', buffer', Rest', size')
  BY <1>3, Returned
<1>5. StringsOf(mode', results', at', phase', buffer', Rest', size')
  BY <1>1, <1>4
<1> QED BY <1>2, <1>5, StringsThen

\* One more byte is stored; the array may be full then.
LEMMA LoopInput ==
  ASSUME mode \in StringModes, NEW k, Place(k), k < Count(mode), NEW b \in Seq(Codes),
         NEW n \in Nat, size \in Nat, Len(b) + n = size, NEW g, Loop(b, n, <<g>>),
         Rest' \in Seq(Codes), InStringOf(mode, k, b, Rest'),
         b = Strings(mode)[k + 1] => g = Expected(mode)[k + 1]
  PROVE  BytesInOrder' /\ StringsInOrder'
<1>1. CASE n = 1 /\ Terminate(b, <<g>>)
  <2>1. Len(b) + 1 = size /\ k \in 0..Count(mode) /\ FitsOf(mode, k + 1, size)
    BY <1>1 DEF Place
  <2>2. b = Strings(mode)[k + 1] /\ BetweenOf(mode, k + 1, Rest')
    BY <2>1, FullArray
  <2> QED BY <1>1, <2>2, TerminateInput
<1>2. CASE ~(n = 1 /\ Terminate(b, <<g>>))
  <2>1. mode' = mode /\ at' = "test" /\ phase' = "body" /\ buffer' = b
        /\ UNCHANGED <<size, results>>
    BY <1>2 DEF Loop, Driver, shared
  <2>2. BytesInOrder'
    BY <2>1 DEF BytesInOrder, StringModes
  <2>3. StringsOf(mode', results', at', phase', buffer', Rest', size')
    BY <2>1 DEF StringsOf, Place
  <2> QED BY <2>2, <2>3, StringsThen
<1> QED BY <1>1, <1>2

\* What every step of a reader leaves alone.
LEMMA ReaderKeeps ==
  /\ \A p : Again(p) => UNCHANGED Driver /\ UNCHANGED <<op, roomy>> /\ at' # "result"
  /\ \A b, g : Terminate(b, g) => UNCHANGED Driver /\ UNCHANGED <<op, roomy>> /\ at' # "result"
  /\ \A b, n, g : Loop(b, n, g) => UNCHANGED Driver /\ UNCHANGED <<op, roomy>> /\ at' # "result"
  /\ \A g : Deliver(g) => UNCHANGED Driver /\ UNCHANGED <<op, roomy>> /\ at' # "result"
BY DEF Again, Terminate, Loop, Deliver

\* Who reads what.
LEMMA ModeOf ==
  ASSUME RingInv, InputInv, at # "user"
  PROVE  /\ op = "getln" => mode = "lines"
         /\ op = "getword" => mode = "words"
         /\ op = "getint" => mode = "numbers"
         /\ op \in {"getc", "gets"} => mode = "text"
         /\ op \in {"getData", "LoadData", "getchar"} => mode = "data"
<1>1. mode \in {"data", "text", "lines", "words", "numbers"}
  BY DEF RingInv, TypeOK, Modes
<1>2. op \in Operations(mode)
  BY DEF InputInv
<1> QED BY <1>1, <1>2, OperationsFact

\* What a reader that is asked to store knows of its array.
LEMMA ArrayNow ==
  ASSUME RingInv, at = "result", op \in {"gets", "getln", "getword", "getint"}
  PROVE  /\ buffer \in Seq(Codes) /\ Append(buffer, tmp) \in Seq(Codes)
         /\ limit \in Nat /\ size \in Nat
         /\ phase \in {"body", "eol", "skip"}
         /\ op \in {"gets", "getln"} => phase \in {"body", "eol"}
         /\ phase \in {"body", "eol"} =>
              limit >= 1 /\ Len(Append(buffer, tmp)) + limit = size
         /\ phase = "skip" =>
              limit - 1 \in Nat /\ Len(Append(buffer, tmp)) + (limit - 1) = size
<1>1. size \in Nat
  <2>1. size \in 0..255
    BY DEF RingInv, TypeOK, Byte
  <2> QED BY <2>1
<1> QED BY <1>1, Stores DEF Codes

\* uart_getln.
LEMMA GetlnInput == ASSUME RingInv, InputInv, getln PROVE InputInv'
<1>1. at = "result" /\ op = "getln" /\ mode = "lines" /\ mode \in StringModes
  BY ModeOf DEF getln, StringModes
<1>2. UNCHANGED Driver /\ UNCHANGED <<op, roomy>> /\ at' # "result"
  BY ReaderKeeps DEF getln
<1> SUFFICES ASSUME lost = 0, roomy PROVE BytesInOrder' /\ StringsInOrder'
  BY <1>1, <1>2, ReaderInput
<1> DEFINE k == Len(results)
           b == Append(buffer, tmp)
<1>3. Place(k)
  BY <1>1, PlaceNow
<1> HIDE DEF k
<1>4. k \in 0..Count(mode)
  BY <1>3 DEF Place
<1>5. /\ Rest' \in Seq(Codes) /\ tmp \in Codes
      /\ tmp = NUL => Rest' = Rest
      /\ tmp # NUL => Rest = <<tmp>> \o Rest'
  BY <1>1, <1>2, Hand, NothingFact DEF RingInv, TypeOK
<1>6. /\ b \in Seq(Codes) /\ buffer \in Seq(Codes) /\ limit \in Nat /\ size \in Nat
      /\ limit >= 1 /\ Len(b) + limit = size
  BY <1>1, ArrayNow
<1>7. CASE tmp = NUL /\ Again(phase)
  BY <1>1, <1>3, <1>5, <1>7, AgainInput DEF Place
<1>8. CASE tmp # NUL /\ phase = "eol" /\ Terminate(buffer, <<buffer>>)
  <2>1. InEndOf(mode, k, buffer, <<tmp>> \o Rest')
    BY <1>3, <1>5, <1>8 DEF Place
  <2>2. k < Count(mode) /\ buffer = Strings(mode)[k + 1] /\ Rest' = LeftOf(mode, k + 1)
    BY <1>1, <1>4, <1>5, <2>1, EndByte
  <2>3. buffer = Expected(mode)[k + 1]
    BY <1>1, <1>4, <2>2, Answers, NextIndex
  <2>4. BetweenOf(mode, k + 1, Rest')
    BY <2>2 DEF BetweenOf
  <2> QED BY <1>1, <1>3, <1>8, <2>2, <2>3, <2>4, TerminateInput
<1>9. CASE phase = "body" /\ tmp # NUL
  <2>1. InStringOf(mode, k, buffer, <<tmp>> \o Rest')
    BY <1>3, <1>5, <1>9 DEF Place
  <2> DEFINE s == Strings(mode)[k + 1]
  <2>2. /\ k < Count(mode)
        /\ \/ /\ Len(buffer) < Len(s) /\ tmp = s[Len(buffer) + 1]
              /\ InStringOf(mode, k, b, Rest')
           \/ /\ buffer = s /\ tmp = CR
              /\ Rest' = Tail(End(mode)) \o LeftOf(mode, k + 1)
    <3>1. /\ mode \in StringModes /\ k \in 0..Count(mode) /\ buffer \in Seq(Codes)
          /\ tmp \in Codes /\ Rest' \in Seq(Codes)
      BY <1>1, <1>4, <1>5, <1>6
    <3>2. /\ k < Count(mode)
          /\ \/ /\ Len(buffer) < Len(s) /\ tmp = s[Len(buffer) + 1]
                /\ InStringOf(mode, k, b, Rest')
             \/ /\ buffer = s /\ tmp = (IF mode = "words" THEN Space ELSE CR)
                /\ Rest' = Tail(End(mode)) \o LeftOf(mode, k + 1)
      BY ONLY <2>1, <3>1, BodyByte
    <3>3. mode # "words"
      BY <1>1
    <3> HIDE DEF b, s
    <3> QED BY <3>2, <3>3
  <2>3. k + 1 \in 1..Count(mode)
    BY <1>1, <1>4, <2>2, NextIndex
  <2>4. s \in Seq(Byte \ {NUL, CR, LF})
    <3>1. mode \in TextModes /\ mode \in {"text", "lines"}
      BY <1>1 DEF TextModes
    <3> QED BY <2>3, <3>1, StringsFact DEF Count
  <2>5. Len(buffer) < Len(s) => s[Len(buffer) + 1] # CR
    <3> DEFINE i == Len(buffer) + 1
               n == Len(s)
    <3>1. Len(buffer) \in Nat /\ n \in Nat
      BY <1>6, <2>4, LenProperties
    <3> HIDE DEF n, s
    <3>2. Len(buffer) < n => i \in 1..n
      BY <3>1
    <3> HIDE DEF i
    <3>3. i \in 1..n => s[i] # CR
      BY <2>4, ElementOfSeq DEF n
    <3> QED BY <3>2, <3>3 DEF i, n
  <2>6. CASE tmp = CR /\ Again("eol")
    <3>1. buffer = s /\ Rest' = Tail(End(mode)) \o LeftOf(mode, k + 1)
      BY <2>2, <2>5, <2>6
    <3>2. InEndOf(mode, k, buffer, Rest')
      BY <1>1, <2>2, <3>1 DEF InEndOf
    <3> QED BY <1>1, <1>3, <2>6, <3>2, AgainInput
  <2>7. CASE tmp # CR /\ Loop(b, limit, <<b>>)
    <3>1. InStringOf(mode, k, b, Rest')
      BY <2>2, <2>7
    <3>2. b = s => b = Expected(mode)[k + 1]
      BY <1>1, <2>3, Answers
    <3>3. /\ mode \in StringModes /\ Place(k) /\ k < Count(mode) /\ b \in Seq(Codes)
          /\ limit \in Nat /\ size \in Nat /\ Len(b) + limit = size
          /\ Rest' \in Seq(Codes) /\ Loop(b, limit, <<b>>)
      BY <1>1, <1>3, <1>5, <1>6, <2>2, <2>7
    <3> HIDE DEF b
    <3> QED BY ONLY <3>1, <3>2, <3>3, LoopInput DEF s
  <2> QED BY <1>9, <2>6, <2>7 DEF getln
<1> QED BY <1>7, <1>8, <1>9 DEF getln, NUL, CR

\* What the caller of uart_getlnToFirstWhiteSpace makes of the string.
Got(s) == IF mode = "numbers" THEN atoi(s) ELSE s

\* uart_getlnToFirstWhiteSpace and uart_getint.
LEMMA WordInput == ASSUME RingInv, InputInv, getword \/ getint PROVE InputInv'
<1>1. /\ at = "result" /\ op \in {"getword", "getint"}
      /\ getword => mode = "words"
      /\ getint => mode = "numbers"
  BY ModeOf DEF getword, getint
<1>2. mode \in {"words", "numbers"} /\ mode \in StringModes
  BY <1>1 DEF StringModes
<1> DEFINE k == Len(results)
           b == Append(buffer, tmp)
<1>3. \/ tmp <= Space /\ phase = "skip" /\ Again("skip")
      \/ tmp > Space /\ phase = "skip" /\ Loop(b, limit - 1, <<Got(b)>>)
      \/ tmp = NUL /\ phase \in {"body", "eol"} /\ Again(phase)
      \/ tmp # NUL /\ phase = "eol" /\ Terminate(buffer, <<Got(buffer)>>)
      \/ tmp = CR /\ phase = "body" /\ Again("eol")
      \/ tmp \in (1..Space) \ {CR} /\ phase = "body" /\ Terminate(buffer, <<Got(buffer)>>)
      \/ tmp > Space /\ phase = "body" /\ Loop(b, limit, <<Got(b)>>)
  <2>1. CASE getword
    <3>1. \A s : Got(s) = s
      BY <1>1, <2>1 DEF Got
    <3> QED BY <2>1, <3>1, Zenon DEF getword, getlnToFirstWhiteSpace
  <2>2. CASE getint
    <3>1. \A s : Got(s) = atoi(s)
      BY <1>1, <2>2 DEF Got
    <3> QED BY <2>2, <3>1, Zenon DEF getint, getlnToFirstWhiteSpace
  <2> QED BY <2>1, <2>2
<1>4. UNCHANGED Driver /\ UNCHANGED <<op, roomy>> /\ at' # "result"
  BY <1>3, ReaderKeeps
<1> SUFFICES ASSUME lost = 0, roomy PROVE BytesInOrder' /\ StringsInOrder'
  BY <1>1, <1>4, ReaderInput
<1>5. Place(k)
  BY <1>1, <1>2, PlaceNow
<1> HIDE DEF k
<1>6. k \in 0..Count(mode)
  BY <1>5 DEF Place
<1>7. /\ Rest' \in Seq(Codes) /\ tmp \in Codes
      /\ tmp = NUL => Rest' = Rest
      /\ tmp # NUL => Rest = <<tmp>> \o Rest'
  BY <1>1, <1>2, <1>4, Hand, NothingFact DEF RingInv, TypeOK
<1>8. /\ b \in Seq(Codes) /\ buffer \in Seq(Codes) /\ limit \in Nat /\ size \in Nat
      /\ phase \in {"body", "eol"} => limit >= 1 /\ Len(b) + limit = size
      /\ phase = "skip" => limit - 1 \in Nat /\ Len(b) + (limit - 1) = size
  BY <1>1, ArrayNow
<1>9. k < Count(mode) => Got(Strings(mode)[k + 1]) = Expected(mode)[k + 1]
  BY <1>2, <1>6, Answers, NextIndex DEF Got
<1>10. ASSUME phase = "skip", tmp # NUL PROVE BetweenOf(mode, k, <<tmp>> \o Rest')
  BY <1>5, <1>7, <1>10 DEF Place
<1>11. CASE tmp <= Space /\ phase = "skip" /\ Again("skip")
  <2>1. BetweenOf(mode, k, Rest')
    <3>1. CASE tmp = NUL
      BY <1>5, <1>7, <1>11, <3>1 DEF Place
    <3>2. CASE tmp # NUL
      BY <1>2, <1>6, <1>7, <1>10, <1>11, <3>2, SkipByte
    <3> QED BY <3>1, <3>2
  <2> QED BY <1>2, <1>5, <1>11, <2>1, AgainInput
<1>12. CASE tmp > Space /\ phase = "skip" /\ Loop(b, limit - 1, <<Got(b)>>)
  <2>1. tmp # NUL
    BY <1>12 DEF NUL, Space
  <2>2. InStringOf(mode, k, <<tmp>>, Rest') /\ k < Count(mode)
    BY <1>2, <1>6, <1>7, <1>10, <1>12, <2>1, SkipByte
  <2>3. b = <<tmp>>
    <3>1. buffer = <<>>
      BY <1>1, <1>12 DEF RingInv, RoomLeft
    <3> QED BY <3>1
  <2> DEFINE n == limit - 1
  <2>4. /\ mode \in StringModes /\ Place(k) /\ k < Count(mode) /\ b \in Seq(Codes)
        /\ n \in Nat /\ size \in Nat /\ Len(b) + n = size
        /\ Rest' \in Seq(Codes) /\ Loop(b, n, <<Got(b)>>)
    BY <1>2, <1>5, <1>7, <1>8, <1>12, <2>2
  <2>5. InStringOf(mode, k, b, Rest')
    BY <2>2, <2>3
  <2>6. b = Strings(mode)[k + 1] => Got(b) = Expected(mode)[k + 1]
    BY <1>9, <2>2
  <2> HIDE DEF b, n
  <2> QED BY ONLY <2>4, <2>5, <2>6, LoopInput
<1>13. CASE tmp = NUL /\ phase \in {"body", "eol"} /\ Again(phase)
  BY <1>2, <1>5, <1>7, <1>13, AgainInput DEF Place
<1>14. CASE tmp # NUL /\ phase = "eol" /\ Terminate(buffer, <<Got(buffer)>>)
  <2>1. InEndOf(mode, k, buffer, <<tmp>> \o Rest')
    BY <1>5, <1>7, <1>14 DEF Place
  <2>2. k < Count(mode) /\ buffer = Strings(mode)[k + 1] /\ Rest' = LeftOf(mode, k + 1)
    BY <1>2, <1>6, <1>7, <2>1, EndByte
  <2>3. Got(buffer) = Expected(mode)[k + 1]
    BY <1>9, <2>2
  <2>4. BetweenOf(mode, k + 1, Rest')
    BY <2>2 DEF BetweenOf
  <2> QED BY <1>2, <1>5, <1>14, <2>2, <2>3, <2>4, TerminateInput
<1>15. CASE phase = "body" /\ tmp # NUL
  <2>1. InStringOf(mode, k, buffer, <<tmp>> \o Rest')
    BY <1>5, <1>7, <1>15 DEF Place
  <2> DEFINE s == Strings(mode)[k + 1]
  <2>2. /\ k < Count(mode)
        /\ \/ /\ Len(buffer) < Len(s) /\ tmp = s[Len(buffer) + 1]
              /\ InStringOf(mode, k, b, Rest')
           \/ /\ buffer = s /\ tmp = (IF mode = "words" THEN Space ELSE CR)
              /\ Rest' = Tail(End(mode)) \o LeftOf(mode, k + 1)
    <3>1. /\ mode \in StringModes /\ k \in 0..Count(mode) /\ buffer \in Seq(Codes)
          /\ tmp \in Codes /\ Rest' \in Seq(Codes)
      BY <1>2, <1>6, <1>7, <1>8
    <3> QED BY ONLY <2>1, <3>1, BodyByte
  <2>3. k + 1 \in 1..Count(mode)
    BY <1>2, <1>6, <2>2, NextIndex
  <2>4. s \in Seq(Visible)
    <3>1. mode \in TextModes
      BY <1>2 DEF TextModes
    <3> QED BY <1>2, <2>3, <3>1, StringsFact DEF Count
  <2>5. Len(buffer) < Len(s) => s[Len(buffer) + 1] > Space
    <3> DEFINE i == Len(buffer) + 1
               n == Len(s)
    <3>1. Len(buffer) \in Nat /\ n \in Nat
      BY <1>8, <2>4, LenProperties
    <3> HIDE DEF n, s
    <3>2. Len(buffer) < n => i \in 1..n
      BY <3>1
    <3> HIDE DEF i
    <3>3. i \in 1..n => s[i] > Space
      BY <2>4, ElementOfSeq DEF n, Visible
    <3> QED BY <3>2, <3>3 DEF i, n
  <2> HIDE DEF s, b
  <2>6. tmp \in Int /\ Space = 32 /\ CR = 13
    BY <1>7, CodesFact DEF Space, CR
  <2>7. CASE tmp > Space /\ Loop(b, limit, <<Got(b)>>)
    <3>1. InStringOf(mode, k, b, Rest')
      <4>1. tmp # (IF mode = "words" THEN Space ELSE CR)
        BY <2>6, <2>7
      <4> QED BY <2>2, <4>1
    <3>2. b = Strings(mode)[k + 1] => Got(b) = Expected(mode)[k + 1]
      BY <1>9, <2>2
    <3>3. /\ mode \in StringModes /\ Place(k) /\ k < Count(mode) /\ b \in Seq(Codes)
          /\ limit \in Nat /\ size \in Nat /\ Len(b) + limit = size
          /\ Rest' \in Seq(Codes) /\ Loop(b, limit, <<Got(b)>>)
      BY <1>2, <1>5, <1>7, <1>8, <1>15, <2>2, <2>7
    <3> QED BY ONLY <3>1, <3>2, <3>3, LoopInput
  <2>8. ASSUME tmp <= Space
        PROVE  /\ buffer = s /\ tmp = (IF mode = "words" THEN Space ELSE CR)
               /\ Rest' = Tail(End(mode)) \o LeftOf(mode, k + 1)
    <3>1. ~(tmp > Space)
      BY <2>6, <2>8
    <3>2. ~(Len(buffer) < Len(s) /\ tmp = s[Len(buffer) + 1])
      BY <2>5, <3>1
    <3> QED BY <2>2, <3>2
  <2>9. CASE tmp = CR /\ Again("eol")
    <3>1. tmp <= Space /\ tmp # Space
      BY <2>6, <2>9
    <3>2. buffer = s /\ mode # "words" /\ Rest' = Tail(End(mode)) \o LeftOf(mode, k + 1)
      BY <2>8, <3>1
    <3>3. InEndOf(mode, k, buffer, Rest')
      BY <2>2, <3>2 DEF InEndOf, s
    <3> QED BY <1>2, <1>5, <2>9, <3>3, AgainInput
  <2>10. CASE tmp \in (1..Space) \ {CR} /\ Terminate(buffer, <<Got(buffer)>>)
    <3>1. tmp <= Space /\ tmp # CR
      BY <2>6, <2>10
    <3>2. buffer = s /\ mode = "words" /\ Rest' = Tail(End(mode)) \o LeftOf(mode, k + 1)
      BY <2>8, <3>1
    <3>3. BetweenOf(mode, k + 1, Rest')
      <4>1. mode # "lines"
        BY <1>2
      <4> QED BY <3>2, <4>1 DEF BetweenOf
    <3>4. Got(buffer) = Expected(mode)[k + 1]
      BY <1>9, <2>2, <3>2 DEF s
    <3> QED BY <1>2, <1>5, <2>2, <2>10, <3>3, <3>4, TerminateInput
  <2> QED BY <1>3, <1>15, <2>7, <2>9, <2>10
<1>16. CR # NUL /\ NUL \notin (1..Space) /\ ~(NUL > Space)
  BY DEF CR, NUL, Space
<1> HIDE DEF b
<1> QED BY <1>3, <1>11, <1>12, <1>13, <1>14, <1>15, <1>16

(***************************************************************************)
(* The readers of bytes.                                                   *)
(***************************************************************************)
\* What the bytes in front of the rest are: h is handed over now, or kept.
LEMMA BytesOut ==
  ASSUME mode \in {"data", "text"}, mode' = mode, NEW h \in Seq(Byte), results \in Seq(Byte),
         Rest' \in Seq(Byte), results \o (h \o Rest') = Sent(mode),
         \/ results' = results \o h /\ at' = "user"
         \/ results' = results /\ at' # "user" /\ Held' = h /\ h \in Seq(Chars)
  PROVE  BytesInOrder' /\ StringsInOrder'
<1>1. StringsInOrder'
  BY DEF StringsInOrder
<1>2. CASE results' = results \o h /\ at' = "user"
  <2>1. Held' = <<>> /\ <<>> \in Seq(Chars) /\ results' \in Seq(Byte)
    <3>1. results \o h \in Seq(Byte)
      BY ConcatProperties
    <3> QED BY <1>2, <3>1, EmptySeq DEF Held
  <2>2. <<>> \o Rest' = Rest'
    BY ConcatEmptySeq
  <2>3. (results \o h) \o Rest' = results \o (h \o Rest')
    <3>1. results \in Seq(Byte) /\ h \in Seq(Byte) /\ Rest' \in Seq(Byte)
      OBVIOUS
    <3> QED BY ONLY <3>1, ConcatAssociative
  <2> QED BY <1>1, <1>2, <2>1, <2>2, <2>3 DEF BytesInOrder, Chars
<1>3. CASE results' = results /\ at' # "user" /\ Held' = h /\ h \in Seq(Chars)
  BY <1>1, <1>3 DEF BytesInOrder, Chars
<1> QED BY <1>2, <1>3

\* What is known in front of such a step.
LEMMA BytesNow ==
  ASSUME RingInv, InputInv, at = "result", UNCHANGED Driver, at' # "result", lost = 0, roomy,
         mode \in {"data", "text"}
  PROVE  /\ mode' = mode /\ results \in Seq(Byte) /\ Held \in Seq(Chars)
         /\ results \o (Held \o Rest) = Sent(mode)
         /\ Rest' \in Seq(Byte)
         /\ tmp = Nothing => Rest' = Rest
         /\ tmp # Nothing => Rest = <<tmp>> \o Rest' /\ tmp \in Alphabet(mode)
<1>1. mode' = mode
  BY DEF Driver, shared
<1>2. BytesInOrder
  BY DEF InputInv
<1> QED BY <1>1, <1>2, Hand, HandAlphabet DEF BytesInOrder, Chars

\* uart_gets.
LEMMA GetsInput == ASSUME RingInv, InputInv, gets PROVE InputInv'
<1>1. at = "result" /\ op = "gets" /\ mode = "text" /\ mode \in {"data", "text"}
  BY ModeOf DEF gets
<1>2. UNCHANGED Driver /\ UNCHANGED <<op, roomy>> /\ at' # "result"
  BY ReaderKeeps DEF gets
<1> SUFFICES ASSUME lost = 0, roomy PROVE BytesInOrder' /\ StringsInOrder'
  BY <1>1, <1>2, ReaderInput
<1>3. /\ mode' = mode /\ results \in Seq(Byte) /\ Held \in Seq(Chars)
      /\ results \o (Held \o Rest) = Sent(mode)
      /\ Rest' \in Seq(Byte)
      /\ tmp = Nothing => Rest' = Rest
      /\ tmp # Nothing => Rest = <<tmp>> \o Rest' /\ tmp \in Alphabet(mode)
  BY <1>1, <1>2, BytesNow
<1>4. Held = buffer
  BY <1>1 DEF Held
<1>5. Nothing = NUL /\ Alphabet(mode) = Chars
  BY <1>1 DEF Nothing, Alphabet, Chars
<1>6. Chars \subseteq Byte /\ NUL \notin Chars /\ Chars \subseteq Int \ {NUL}
  BY CharsFact DEF Chars, Byte
<1>7. buffer \in Seq(Chars) /\ buffer \in Seq(Byte) /\ buffer \in Seq(Int \ {NUL})
  BY <1>3, <1>4, <1>6, SeqMonotonic
<1> DEFINE b == Append(buffer, tmp)
<1>8. CASE tmp = NUL /\ Terminate(b, CString(b))
  <2>1. CString(b) = buffer
    BY <1>7, <1>8, CStringCut
  <2>2. results' = results \o buffer /\ at' = "user"
    BY <1>8, <2>1 DEF Terminate
  <2>3. results \o (buffer \o Rest') = Sent(mode)
    BY <1>3, <1>4, <1>5, <1>8
  <2> QED BY <1>1, <1>3, <1>7, <2>2, <2>3, BytesOut
<1>9. CASE tmp # NUL /\ Loop(b, limit, CString(b))
  <2>1. tmp \in Chars /\ Rest = <<tmp>> \o Rest'
    BY <1>3, <1>5, <1>9
  <2>2. b \in Seq(Chars) /\ b \in Seq(Byte)
    <3>1. b \in Seq(Chars)
      BY <1>7, <2>1, AppendProperties
    <3> QED BY <1>6, <3>1, SeqMonotonic
  <2>3. CString(b) = b
    <3>1. \A i \in 1..Len(b) : b[i] # NUL
      BY <1>6, <2>2, ElementOfSeq
    <3> HIDE DEF b
    <3> QED BY <3>1, CStringSame
  <2>4. results \o (b \o Rest') = Sent(mode)
    <3>1. tmp \in Byte /\ buffer \in Seq(Byte) /\ Rest' \in Seq(Byte)
      BY <1>3, <1>6, <1>7, <2>1
    <3>2. b \o Rest' = buffer \o (<<tmp>> \o Rest')
      BY ONLY <3>1, Shifted
    <3> QED BY <1>3, <1>4, <2>1, <3>2
  <2> HIDE DEF b
  <2>5. \/ results' = results \o b /\ at' = "user"
        \/ results' = results /\ at' # "user" /\ buffer' = b
    BY <1>9, <2>3 DEF Loop, Terminate
  <2>6. at' # "user" /\ buffer' = b => Held' = b
    BY <1>1, <1>2 DEF Held
  <2> QED BY <1>1, <1>3, <2>2, <2>4, <2>5, <2>6, BytesOut
<1> QED BY <1>8, <1>9 DEF gets

\* uart_getc, uart_getData, uart_LoadData and uart_getchar.
LEMMA ByteInput ==
  ASSUME RingInv, InputInv, getc \/ getData \/ uart_getchar PROVE InputInv'
<1>1. /\ at = "result" /\ mode \in {"data", "text"} /\ op # "gets"
      /\ getc => mode = "text"
      /\ getData \/ uart_getchar => mode = "data"
  BY ModeOf DEF getc, getData, uart_getchar, Echoing
<1>2. UNCHANGED Driver /\ UNCHANGED <<op, roomy>> /\ at' # "result"
  BY ReaderKeeps DEF getc, getData, uart_getchar, Echoing
<1> SUFFICES ASSUME lost = 0, roomy PROVE BytesInOrder' /\ StringsInOrder'
  BY <1>1, <1>2, ReaderInput
<1>3. /\ mode' = mode /\ results \in Seq(Byte) /\ Held \in Seq(Chars)
      /\ results \o (Held \o Rest) = Sent(mode)
      /\ Rest' \in Seq(Byte)
      /\ tmp = Nothing => Rest' = Rest
      /\ tmp # Nothing => Rest = <<tmp>> \o Rest' /\ tmp \in Alphabet(mode)
  BY <1>1, <1>2, BytesNow
<1>4. Held = <<>> /\ Held' = <<>>
  BY <1>1, <1>2 DEF Held
<1>5. CASE tmp = Nothing
  <2>1. results' = results \/ results' = results \o <<>>
    <3>1. CASE getc
      <4>1. CString(<<tmp>>) = <<>>
        <5>1. tmp = NUL
          BY <1>1, <1>5, <3>1 DEF Nothing
        <5>2. <<>> \in Seq(Int \ {NUL}) /\ Append(<<>>, NUL) = <<NUL>>
          BY EmptySeq
        <5>3. CString(Append(<<>>, NUL)) = <<>>
          BY ONLY <5>2, CStringCut
        <5> QED BY <5>1, <5>2, <5>3
      <4> QED BY <3>1, <4>1 DEF getc, Deliver
    <3>2. CASE getData \/ uart_getchar
      <4>1. tmp = -1 /\ tmp < 0 /\ ~(tmp >= 0)
        BY <1>1, <1>5, <3>2 DEF Nothing
      <4>2. CASE getData
        <5>1. Deliver(<<>>)
          BY <4>1, <4>2 DEF getData
        <5> QED BY <5>1 DEF Deliver
      <4>3. CASE uart_getchar
        <5>1. Again("body")
          BY <4>1, <4>3 DEF uart_getchar, Echoing
        <5> QED BY <5>1 DEF Again
      <4> QED BY <3>2, <4>2, <4>3
    <3> QED BY <3>1, <3>2
  <2>2. results' = results /\ results' = results \o <<>> /\ <<>> \in Seq(Byte) /\ <<>> \in Seq(Chars)
    BY <1>3, <2>1, ConcatEmptySeq, EmptySeq
  <2>3. results \o (<<>> \o Rest') = Sent(mode)
    BY <1>3, <1>4, <1>5
  <2> QED BY <1>1, <1>3, <1>4, <2>2, <2>3, BytesOut
<1>6. CASE tmp # Nothing
  <2>1. Rest = <<tmp>> \o Rest' /\ tmp \in Alphabet(mode) /\ tmp \in Byte
    BY <1>3, <1>6 DEF Alphabet
  <2>2. results' = results \o <<tmp>> /\ at' = "user"
    <3>1. CASE getc
      <4>1. CString(<<tmp>>) = <<tmp>>
        <5>1. tmp # NUL
          BY <1>1, <1>6, <3>1 DEF Nothing
        <5> QED BY <5>1, CStringSame
      <4> QED BY <3>1, <4>1 DEF getc, Deliver
    <3>2. CASE getData \/ uart_getchar
      <4>1. ~(tmp < 0)
        BY <2>1 DEF Byte
      <4> QED BY <3>2, <4>1 DEF getData, uart_getchar, Echoing, Deliver, Again
    <3> QED BY <3>1, <3>2
  <2>3. <<tmp>> \in Seq(Byte) /\ results \o (<<tmp>> \o Rest') = Sent(mode)
    <3>1. <<tmp>> \in Seq(Byte)
      BY <2>1, One
    <3>2. <<>> \o Rest = Rest
      BY <2>1, <3>1, <1>3, ConcatProperties, ConcatEmptySeq
    <3> QED BY <1>3, <1>4, <2>1, <3>1, <3>2
  <2> QED BY <1>1, <1>3, <2>2, <2>3, BytesOut
<1> QED BY <1>1, <1>5, <1>6

(***************************************************************************)
(* The steps in which no reader looks at a byte.                           *)
(***************************************************************************)
\* The bytes left, when the getter has none in its hands.
LEMMA RestNow ==
  ASSUME RingInv
  PROVE  Rest = InHand \o Behind /\ (InHand = <<>> => Rest = Behind)
<1>1. Rest = InHand \o Behind
  BY DEF Rest, Behind
<1> QED BY <1>1, BehindFact, ConcatEmptySeq

\* The bytes left are the same, and so is the reader.
LEMMA QuietInput ==
  ASSUME InputInv, UNCHANGED <<mode, op, phase, size, buffer, results, roomy>>,
         at = "user" <=> at' = "user", lost' = 0 => lost = 0 /\ Rest' = Rest
  PROVE  InputInv'
<1>1. at' # "user" => op' \in Operations(mode')
  BY DEF InputInv
<1>2. lost' = 0 => Rest' \in Seq(Alphabet(mode'))
  BY DEF InputInv, Alphabet
<1>3. ASSUME lost' = 0, roomy' PROVE BytesInOrder' /\ StringsInOrder'
  <2>1. BytesInOrder /\ StringsInOrder /\ Rest' = Rest
    BY <1>3 DEF InputInv
  <2>2. Held' = Held
    BY DEF Held
  <2>3. BytesInOrder'
    BY <2>1, <2>2 DEF BytesInOrder
  <2>4. ASSUME mode \notin {"data", "text"}
        PROVE  StringsOf(mode', results', at', phase', buffer', Rest', size')
    <3>1. StringsOf(mode, results, at, phase, buffer, Rest, size)
      BY <2>1, <2>4, StringsNow
    <3> QED BY <2>1, <3>1 DEF StringsOf
  <2> QED BY <2>3, <2>4, StringsThen
<1> QED BY <1>1, <1>2, <1>3 DEF InputInv, Alphabet

\* A byte arrives.
LEMMA ArriveInput == ASSUME RingInv, InputInv, Arrive PROVE InputInv'
<1>1. /\ UNCHANGED <<port, mode, rx_Head, rx_Tail, rx_buffer, at, op, phase, tmp, size, buffer,
                     results, roomy>>
      /\ wire # <<>> /\ wire' = Tail(wire)
  BY DEF Arrive
<1>2. wire \in Seq(Byte) /\ udr \in Seq(Byte) /\ lost \in Nat
  <2>1. lost \in 0..MaxLost
    BY DEF RingInv, TypeOK
  <2>2. lost \in Nat
    BY <2>1, MaxLostAssumption
  <2> QED BY <2>2 DEF RingInv, TypeOK
<1>3. ASSUME lost' = 0 PROVE lost = 0 /\ Rest' = Rest
  <2>1. udr' = Append(udr, Head(wire)) /\ lost = 0
    BY <1>2, <1>3 DEF Arrive
  <2>2. wire = <<Head(wire)>> \o Tail(wire) /\ Head(wire) \in Byte /\ Tail(wire) \in Seq(Byte)
    BY <1>1, <1>2, HeadTail
  <2> DEFINE h == Head(wire)
             t == Tail(wire)
  <2>3. udr \in Seq(Byte) /\ h \in Byte /\ t \in Seq(Byte)
    BY <1>2, <2>2
  <2> HIDE DEF h, t
  <2>4. Append(udr, h) \o t = udr \o (<<h>> \o t)
    BY ONLY <2>3, Shifted
  <2>5. udr' \o wire' = udr \o wire
    BY <1>1, <2>1, <2>2, <2>4 DEF h, t
  <2>6. Pending' = Pending /\ InHand' = InHand
    BY <1>1 DEF Pending, AvailableBytes, Size, InHand, Nothing
  <2> QED BY <2>1, <2>5, <2>6 DEF Rest
<1> QED BY <1>1, <1>3, QuietInput

\* The RX interrupt.
LEMMA RxInput == ASSUME RingInv, InputInv, RX(Size) PROVE InputInv'
<1> DEFINE head == (rx_Head + 1) % Size
           h == Head(udr)
           t == Tail(udr)
<1>1. /\ UNCHANGED <<port, mode, wire, rx_Tail, at, op, phase, tmp, size, buffer, results, roomy>>
      /\ udr # <<>> /\ udr' = t
  BY DEF RX
<1>2. wire \in Seq(Byte) /\ udr \in Seq(Byte) /\ lost \in Nat
  <2>1. lost \in 0..MaxLost
    BY DEF RingInv, TypeOK
  <2>2. lost \in Nat
    BY <2>1, MaxLostAssumption
  <2> QED BY <2>2 DEF RingInv, TypeOK
<1>3. ASSUME lost' = 0 PROVE lost = 0 /\ Rest' = Rest
  <2>1. /\ rx_Head' = head /\ rx_Head' # rx_Tail /\ lost = 0
        /\ rx_buffer' = [rx_buffer EXCEPT ![head] = h]
    BY <1>2, <1>3 DEF RX
  <2>2. udr = <<h>> \o t /\ h \in Byte /\ t \in Seq(Byte)
    BY <1>1, <1>2, HeadTail
  <2>3. Readable /\ Readable'
    <3>1. RingInv'
      BY RxStep
    <3> QED BY <3>1, PendingSeq, PTL
  <2>4. Pending' = Append(Pending, h)
    <3> HIDE DEF h, t
    <3> QED BY <1>1, <2>1, <2>2, <2>3, RxPending DEF RingInv, TypeOK
  <2>5. Pending \in Seq(Byte) /\ t \o wire \in Seq(Byte) /\ <<h>> \in Seq(Byte)
    <3>1. Pending \in Seq(Byte)
      BY <2>3 DEF Readable
    <3>2. t \o wire \in Seq(Byte)
      BY <1>2, <2>2, ConcatProperties
    <3>3. <<h>> \in Seq(Byte)
      BY <2>2, One
    <3> QED BY <3>1, <3>2, <3>3
  <2> HIDE DEF h, t
  <2>6. Append(Pending, h) \o (t \o wire) = Pending \o (<<h>> \o (t \o wire))
    <3> DEFINE x == t \o wire
    <3>1. Pending \in Seq(Byte) /\ h \in Byte /\ x \in Seq(Byte)
      BY <2>2, <2>5
    <3> HIDE DEF x
    <3>2. Append(Pending, h) \o x = Pending \o (<<h>> \o x)
      BY ONLY <3>1, Shifted
    <3> QED BY <3>2 DEF x
  <2>7. <<h>> \o (t \o wire) = (<<h>> \o t) \o wire
    BY ONLY <1>2, <2>2, <2>5, ConcatAssociative
  <2>8. InHand' = InHand
    BY <1>1 DEF InHand, Nothing
  <2>9. Pending' \o (udr' \o wire') = Pending \o (udr \o wire)
    BY <1>1, <2>2, <2>4, <2>6, <2>7
  <2> QED BY <2>1, <2>8, <2>9 DEF Rest
<1> QED BY <1>1, <1>3, QuietInput

\* The accesses of a getter.
LEMMA GetInput == ASSUME RingInv, InputInv, Test \/ Read(Size) \/ Take PROVE InputInv'
<1>1. /\ UNCHANGED <<port, mode, wire, udr, rx_Head, rx_buffer, op, phase, limit, size, buffer,
                     results, lost, roomy>>
      /\ at # "user" /\ at' # "user" /\ at # "result"
  BY DEF Test, Read, Take, shared, caller
<1>2. RingInv'
  BY GetStep
<1>3. Behind \in Seq(Byte) /\ Behind \in Seq(Codes) /\ Rest = Behind
  <2>1. InHand = <<>>
    BY <1>1 DEF InHand
  <2> QED BY <2>1, BehindFact, RestNow
<1>4. (InHand = <<>> => Rest = Behind)'
  BY <1>2, RestNow, PTL
<1>5. CASE Test \/ Read(Size)
  <2>1. Behind' = Behind
    <3>1. rx_Tail' = rx_Tail
      BY <1>5 DEF Test, Read
    <3> QED BY <1>1, <3>1 DEF Behind, Pending, AvailableBytes, Size
  <2>2. InHand' = <<>>
    <3>1. ASSUME at' = "result" PROVE tmp' = Nothing'
      <4>1. tmp' = (IF Getter = "getc" THEN 0 ELSE -1)
        BY <1>5, <3>1 DEF Test, Read
      <4>2. mode \in {"data", "text", "lines", "words", "numbers"} /\ op \in Operations(mode)
        BY <1>1 DEF RingInv, TypeOK, Modes, InputInv
      <4>3. CASE mode = "data"
        <5>1. op \in {"getData", "LoadData", "getchar"}
          BY <4>2, <4>3, OperationsFact
        <5>2. Getter # "getc"
          BY <5>1, Zenon DEF Getter
        <5> QED BY <1>1, <4>1, <4>3, <5>2 DEF Nothing
      <4>4. CASE mode # "data"
        <5>1. op \notin {"getData", "LoadData", "getchar"}
          BY <4>2, <4>4, OperationsFact
        <5>2. Getter = "getc"
          BY <5>1, Zenon DEF Getter
        <5> QED BY <1>1, <4>1, <4>4, <5>2 DEF Nothing, NUL
      <4> QED BY <4>3, <4>4
    <3> QED BY <3>1 DEF InHand
  <2>3. Rest' = Rest
    BY <1>3, <1>4, <2>1, <2>2
  <2> QED BY <1>1, <2>3, QuietInput
<1>6. CASE Take
  <2>1. /\ at' = "result" /\ rx_Tail' = tail /\ tmp' = tmp
        /\ tail = (rx_Tail + 1) % Size /\ tmp = rx_buffer[tail] /\ rx_Tail # rx_Head
    BY <1>6 DEF Take, RingInv, GetterSees
  <2>2. Readable /\ Readable'
    BY <1>2, PendingSeq, PTL
  <2>3. Pending # <<>> /\ Pending' = Tail(Pending) /\ Head(Pending) = tmp
    BY <1>1, <2>1, <2>2, TakePending
  <2> DEFINE p == Pending
             t == Tail(p)
             w == udr \o wire
  <2>4. p \in Seq(Byte) /\ w \in Seq(Byte)
    BY <2>2, ConcatProperties DEF Readable, RingInv, TypeOK
  <2>5. p = <<tmp>> \o t /\ tmp \in Byte /\ t \in Seq(Byte)
    <3> HIDE DEF p
    <3>1. p # <<>> /\ Head(p) = tmp
      BY <2>3 DEF p
    <3> QED BY <2>4, <3>1, HeadTail
  <2>6. <<tmp>> \in Seq(Byte) /\ t \o w \in Seq(Byte)
    <3> HIDE DEF p, t, w
    <3> QED BY <2>4, <2>5, ConcatProperties, One
  <2>7. Behind = <<tmp>> \o (t \o w) /\ Behind' = t \o w
    <3>1. Behind = p \o w /\ Behind' = t \o w
      BY <1>1, <2>3 DEF Behind
    <3> HIDE DEF p, t, w
    <3>2. (<<tmp>> \o t) \o w = <<tmp>> \o (t \o w)
      BY ONLY <2>4, <2>5, <2>6, ConcatAssociative
    <3> QED BY <2>5, <3>1, <3>2
  <2> HIDE DEF p, t, w
  <2>8. ASSUME lost = 0 PROVE Rest' = Rest
    <3>1. Behind \in Seq(Alphabet(mode)) /\ Alphabet(mode) \subseteq Byte
      BY <1>3, <2>8 DEF InputInv, Alphabet
    <3>2. tmp \in Codes /\ t \o w \in Seq(Codes)
      BY <2>5, <2>6, CodesFact, SeqMonotonic
    <3>3. tmp \in Alphabet(mode)
      BY <2>7, <3>1, <3>2, AlphabetTail
    <3>4. tmp # Nothing
      BY <3>3 DEF Alphabet, Nothing, Byte
    <3>5. InHand' = <<tmp>>
      BY <1>1, <2>1, <3>4 DEF InHand, Nothing
    <3>6. Rest' = InHand' \o Behind'
      BY DEF Rest, Behind
    <3> QED BY <1>3, <2>7, <3>5, <3>6
  <2> QED BY <1>1, <2>8, QuietInput
<1> QED BY <1>5, <1>6

(***************************************************************************)
(* The task calls a reader.                                                *)
(***************************************************************************)
\* The array a reader needs, for its next string.
LEMMA RoomFact ==
  /\ Len(results) + 1 <= Len(Lines) => Room("getln") = Len(Lines[Len(results) + 1]) + 2
  /\ Len(results) + 1 <= Len(Words) => Room("getword") = Len(Words[Len(results) + 1]) + 1
BY Zenon DEF Room

\* The array is as large as the next string needs.
LEMMA CallFits ==
  ASSUME mode \in StringModes, Len(results) \in 0..Count(mode), NEW o \in Operations(mode), NEW n,
         o = "getint" => n = 7, n >= Room(o)
  PROVE  FitsOf(mode, Len(results) + 1, n)
<1> DEFINE j == Len(results) + 1
<1> SUFFICES ASSUME j <= Count(mode)
             PROVE  n >= Len(Strings(mode)[j]) + (IF mode = "lines" THEN 2 ELSE 1)
  BY DEF FitsOf
<1>1. CASE mode = "lines"
  <2>1. o = "getln" /\ Strings(mode) = Lines /\ Count(mode) = Len(Lines)
    BY <1>1, OperationsFact DEF Strings, Count
  <2> QED BY <1>1, <2>1, RoomFact
<1>2. CASE mode = "words"
  <2>1. o = "getword" /\ Strings(mode) = Words /\ Count(mode) = Len(Words)
    BY <1>2, OperationsFact DEF Strings, Count
  <2> QED BY <1>2, <2>1, RoomFact
<1>3. CASE mode = "numbers"
  <2>1. o = "getint" /\ n = 7
    BY <1>3, OperationsFact
  <2>2. Expected(mode) = Numbers /\ Len(Numbers) = Count(mode) /\ Count(mode) \in Nat
    BY <1>3, ExpectedFact, Answers, LeftFact
  <2>3. j \in 1..Len(Numbers)
    BY <2>2
  <2> HIDE DEF j
  <2>4. Numbers[j] \in Int16
    BY <2>3, InputAssumption, ElementOfSeq
  <2>5. Strings(mode)[j] = putint(Numbers[j])
    BY <1>3, <2>3 DEF Strings
  <2> DEFINE l == Len(Strings(mode)[j])
  <2>6. l <= 6 /\ l \in Nat
    BY <2>4, <2>5, TextFact, LenProperties
  <2> HIDE DEF l
  <2>7. 7 >= l + 1
    BY <2>6
  <2> QED BY <1>3, <2>1, <2>7 DEF l
<1> QED BY <1>1, <1>2, <1>3 DEF StringModes

\* The call keeps InputInv: the reader begins where the last one stopped.
LEMMA CallInput ==
  ASSUME RingInv, InputInv, NEW o \in Operations(mode), NEW n \in Limits \cup {0, 7}, Call(o, n)
  PROVE  InputInv'
<1>1. /\ at = "user" /\ at' = "test" /\ op' = o /\ size' = n /\ buffer' = <<>>
      /\ roomy' = (roomy /\ n >= Room(o)) /\ results' = results /\ UNCHANGED Driver
      /\ o = "getint" => n = 7
      /\ o \in {"getword", "getint"} => phase' = "skip"
      /\ o \notin {"getword", "getint"} => phase' = "body"
  BY DEF Call
<1>2. UNCHANGED <<port, mode, wire, udr, rx_Head, rx_Tail, rx_buffer, lost>>
  BY <1>1 DEF Driver, shared
<1>3. Rest' = Rest
  <2>1. InHand = <<>> /\ InHand' = <<>>
    BY <1>1 DEF InHand
  <2> QED BY <1>2, <2>1 DEF Rest, Pending, AvailableBytes, Size
<1>4. op' \in Operations(mode')
  BY <1>1, <1>2
<1>5. lost' = 0 => Rest' \in Seq(Alphabet(mode'))
  BY <1>2, <1>3 DEF InputInv, Alphabet
<1>6. ASSUME lost' = 0, roomy' PROVE BytesInOrder' /\ StringsInOrder'
  <2>1. BytesInOrder /\ StringsInOrder /\ n >= Room(o)
    BY <1>1, <1>2, <1>6 DEF InputInv
  <2>2. Held = <<>> /\ Held' = <<>>
    BY <1>1 DEF Held
  <2>3. BytesInOrder'
    BY <1>1, <1>2, <1>3, <2>1, <2>2 DEF BytesInOrder
  <2>4. ASSUME mode \notin {"data", "text"}
        PROVE  StringsOf(mode', results', at', phase', buffer', Rest', size')
    <3> DEFINE k == Len(results)
    <3>1. mode \in StringModes
      BY <2>4 DEF RingInv, TypeOK, Modes, StringModes
    <3>2. k \in 0..Count(mode) /\ results = SubSeq(Expected(mode), 1, k)
          /\ BetweenOf(mode, k, Rest)
      BY <1>1, <2>1, <2>4, StringsNow DEF StringsOf
    <3>3. FitsOf(mode, k + 1, n)
      BY <1>1, <2>1, <3>1, <3>2, CallFits
    <3> HIDE DEF k
    <3>4. ASSUME phase' = "body" PROVE InStringOf(mode, k, <<>>, Rest)
      <4>1. mode = "lines"
        BY <1>1, <3>1, <3>4, OperationsFact DEF StringModes
      <4>2. Rest = LeftOf(mode, k) /\ Rest \in Seq(Codes)
        <5>1. LeftOf(mode, k) \in Seq(Codes)
          BY <3>1, <3>2, LeftFact
        <5> QED BY <3>2, <4>1, <5>1 DEF BetweenOf
      <4>3. k < Count(mode) => Len(<<>>) <= Len(Strings(mode)[k + 1])
        <5> SUFFICES ASSUME k < Count(mode) PROVE 0 <= Len(Strings(mode)[k + 1])
          BY EmptySeq
        <5>1. Strings(mode)[k + 1] \in Seq(Codes)
          BY <3>1, <3>2, LeftFact
        <5>2. Len(Strings(mode)[k + 1]) \in Nat
          BY <5>1, LenProperties
        <5> QED BY <5>2
      <4> QED BY <4>2, <4>3, ConcatEmptySeq DEF InStringOf
    <3>5. phase' \in {"skip", "body"} /\ phase' # "eol"
      BY <1>1
    <3>6. StringsOf(mode, results, "test", phase', <<>>, Rest, n)
      BY <3>2, <3>3, <3>4, <3>5 DEF StringsOf, k
    <3> QED BY <1>1, <1>2, <1>3, <3>6
  <2> QED BY <1>2, <2>3, <2>4, StringsThen
<1> QED BY <1>1, <1>4, <1>5, <1>6 DEF InputInv, Alphabet

\* In the beginning everything is still to come.
LEMMA InitInput == Init => InputInv
<1> SUFFICES ASSUME Init PROVE InputInv
  OBVIOUS
<1>1. RingInv /\ Readable
  BY InitRing, PendingSeq
<1>2. /\ at = "user" /\ wire = Sent(mode) /\ udr = <<>> /\ results = <<>> /\ rx_Head = rx_Tail
      /\ mode \in Modes
  BY DEF Init
<1>3. Sent(mode) \in Seq(Byte) /\ (mode # "data" => Sent(mode) \in Seq(Byte \ {NUL}))
  <2>1. mode = "data" \/ mode \in TextModes
    BY <1>2 DEF Modes, TextModes
  <2> QED BY <1>2, <2>1, SentFact DEF Chars
<1>4. Rest = Sent(mode)
  <2>1. Stored = 0
    BY <1>1, <1>2, Moves DEF Readable, Indices, Stored
  <2>2. Pending = <<>>
    BY <1>1, <2>1, EmptySeq DEF Readable
  <2>3. InHand = <<>>
    BY <1>2 DEF InHand
  <2> QED BY <1>2, <1>3, <2>2, <2>3, ConcatEmptySeq DEF Rest
<1>5. BytesInOrder
  <2>1. Held = <<>>
    BY <1>2 DEF Held
  <2>2. <<>> \in Seq(Byte) /\ <<>> \in Seq(Byte \ {NUL}) /\ <<>> \o (<<>> \o Sent(mode)) = Sent(mode)
    BY <1>3, EmptySeq, ConcatEmptySeq
  <2> QED BY <1>2, <1>4, <2>1, <2>2 DEF BytesInOrder
<1>6. ASSUME mode \notin {"data", "text"}
      PROVE  StringsOf(mode, results, at, phase, buffer, Rest, size)
  <2>1. mode \in StringModes
    BY <1>2, <1>6 DEF Modes, StringModes
  <2>2. Count(mode) \in Nat /\ Len(results) = 0
    BY <1>2, <2>1, LeftFact, EmptySeq
  <2>3. results = SubSeq(Expected(mode), 1, 0)
    <3>1. PICK S : Expected(mode) \in Seq(S)
      BY <2>1, Answers
    <3> QED BY <1>2, <3>1, SubSeqEmpty
  <2>4. BetweenOf(mode, 0, Rest)
    <3>1. Count(mode) - 0 = Count(mode)
      BY <2>2
    <3>2. Sent(mode) = LeftOf(mode, 0)
      BY <1>6, <3>1 DEF Sent, LeftOf, Count
    <3> QED BY <1>4, <3>2 DEF BetweenOf
  <2>5. 0 \in 0..Count(mode)
    BY <2>2
  <2> QED BY <1>2, <2>2, <2>3, <2>4, <2>5 DEF StringsOf
<1>7. StringsInOrder
  BY <1>6, StringsNow
<1> QED BY <1>2, <1>3, <1>4, <1>5, <1>7 DEF InputInv

\* Every step keeps InputInv.
LEMMA NextInput == RingInv /\ InputInv /\ [Next]_vars => InputInv'
<1> SUFFICES ASSUME RingInv, InputInv, [Next]_vars PROVE InputInv'
  OBVIOUS
<1>1. CASE Arrive
  BY <1>1, ArriveInput
<1>2. CASE RX_ISR
  BY <1>2, Copies, RxInput
<1>3. CASE GetByte
  BY <1>3, Copies, GetInput
<1>4. CASE ReadString
  BY <1>4, Copies, GetsInput, GetlnInput, WordInput
<1>5. CASE getc \/ getData \/ uart_getchar
  BY <1>5, ByteInput
<1>6. ASSUME NEW o \in Operations(mode), NEW n \in Limits \cup {0, 7}, Call(o, n) PROVE InputInv'
  BY <1>6, CallInput
<1>7. CASE UNCHANGED vars
  <2>1. Rest' = Rest
    BY <1>7 DEF vars, Rest, InHand, Nothing, Pending, AvailableBytes, Size
  <2>2. UNCHANGED <<mode, op, phase, size, buffer, results, roomy, at, lost>>
    BY <1>7 DEF vars
  <2> QED BY <2>1, <2>2, QuietInput
<1>8. CASE Transmit \/ Output
  <2>1. UNCHANGED <<port, mode, wire, udr, ring, at, locals, history>>
    BY <1>8 DEF Transmit, Output
  <2>2. Rest' = Rest
    BY <2>1 DEF ring, locals, Rest, InHand, Nothing, Pending, AvailableBytes, Size
  <2>3. UNCHANGED <<mode, op, phase, size, buffer, results, roomy, at, lost>>
    BY <2>1 DEF locals, history
  <2> QED BY <2>2, <2>3, QuietInput
<1> QED BY <1>1, <1>2, <1>3, <1>4, <1>5, <1>6, <1>7, <1>8 DEF Next, Task

\* The beginning of a sequence.
LEMMA Prefix ==
  ASSUME NEW S, NEW s \in Seq(S), NEW t \in Seq(S) PROVE IsPrefix(s, s \o t)
<1> DEFINE n == Len(s)
<1>1. n \in Nat /\ Len(t) \in Nat /\ Len(s \o t) = n + Len(t)
  BY LenProperties, ConcatProperties
<1>2. SubSeq(s \o t, 1, n) = SubSeq(s, 1, n)
  <2>1. CASE n = 0
    BY <2>1, SubSeqEmpty
  <2>2. CASE n # 0
    <3> HIDE DEF n
    <3>1. 1 \in 1..n /\ n \in 1..n
      BY <1>1, <2>2
    <3> QED BY <3>1, SubSeqOfConcat1 DEF n
  <2> QED BY <2>1, <2>2
<1>3. n <= Len(s \o t)
  <2> DEFINE l == Len(s \o t)
             m == Len(t)
  <2>1. n \in Nat /\ m \in Nat /\ l = n + m
    BY <1>1
  <2> HIDE DEF n, m, l
  <2>2. n <= l
    BY <2>1
  <2> QED BY <2>2 DEF l
<1> QED BY <1>2, <1>3 DEF IsPrefix

\* RX interrupt and readers: the indices stay inside the ring, what a getter has
\* found stays there until it takes it, no reader stores outside the array it
\* was given, and, as long as none is lost, every byte sent is in the task's
\* hands, in the ring or still to come, in the order it was sent.
THEOREM RxInvariant == Spec => []RxInv
<1>1. Init => RxInv
  BY InitRing, InitInput DEF RxInv
<1>2. RxInv /\ [Next]_vars => RxInv'
  BY NextRing, NextInput DEF RxInv
<1> QED BY <1>1, <1>2, PTL DEF Spec

\* uart_getc, uart_getData, uart_LoadData, uart_getchar, uart_gets, uart_getln,
\* uart_getlnToFirstWhiteSpace, uart_getint: until a byte is lost or an array is
\* too small the task gets what was sent, whatever was sent and however the
\* interrupt and the polling are timed; every int16_t that uart_putint writes is
\* the number uart_getint reads.
THEOREM InputTheorem == Spec => []InputIntact
<1>1. RxInv => InputIntact
  <2> SUFFICES ASSUME RingInv, InputInv, lost = 0, roomy PROVE IsPrefix(results, Expected(mode))
    BY DEF RxInv, InputIntact
  <2>1. mode \in Modes /\ BytesInOrder /\ StringsInOrder
    BY DEF InputInv, RingInv, TypeOK
  <2>2. CASE mode \in {"data", "text"}
    <3> DEFINE x == Held \o Rest
    <3>1. results \in Seq(Byte) /\ Held \in Seq(Byte \ {NUL}) /\ results \o x = Sent(mode)
      BY <2>1, <2>2 DEF BytesInOrder
    <3>2. x \in Seq(Byte)
      <4>1. Held \in Seq(Byte)
        BY <3>1, SeqMonotonic
      <4>2. Rest \in Seq(Byte)
        <5>1. Rest \in Seq(Alphabet(mode)) /\ Alphabet(mode) \subseteq Byte
          BY DEF InputInv, Alphabet
        <5> QED BY <5>1, SeqMonotonic
      <4> QED BY <4>1, <4>2, ConcatProperties
    <3>3. Expected(mode) = Sent(mode)
      BY <2>2, ExpectedFact
    <3> HIDE DEF x
    <3> QED BY <3>1, <3>2, <3>3, Prefix
  <2>3. CASE mode \notin {"data", "text"}
    <3> DEFINE k == Len(results)
               e == Expected(mode)
    <3>1. mode \in StringModes
      BY <2>1, <2>3 DEF Modes, StringModes
    <3>2. k \in 0..Count(mode) /\ results = SubSeq(e, 1, k)
      BY <2>1, <2>3, StringsNow DEF StringsOf
    <3>3. Len(e) = Count(mode) /\ Count(mode) \in Nat
      BY <3>1, Answers, LeftFact
    <3>4. k <= Len(e)
      BY <3>2, <3>3
    <3>5. SubSeq(results, 1, k) = results
      <4>1. PICK S : e \in Seq(S)
        BY <3>1, Answers
      <4>2. \A i \in 1..k : e[i] \in S
        <5> HIDE DEF k, e
        <5>1. \A i \in 1..k : i \in 1..Len(e)
          BY <3>2, <3>3
        <5> QED BY <4>1, <5>1, ElementOfSeq
      <4>3. SubSeq(e, 1, k) \in Seq(S)
        <5> HIDE DEF k, e
        <5>1. 1 \in Int /\ k \in Int
          BY <3>2
        <5> QED BY ONLY <4>2, <5>1, SubSeqProperties
      <4>4. results \in Seq(S)
        BY <3>2, <4>3
      <4> QED BY <4>4, SubSeqFull
    <3> QED BY <3>2, <3>4, <3>5 DEF IsPrefix
  <2> QED BY <2>2, <2>3
<1> QED BY <1>1, RxInvariant, PTL
=============================================================================
