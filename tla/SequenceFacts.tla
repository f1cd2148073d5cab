---------------------------- MODULE SequenceFacts ----------------------------
(***************************************************************************)
(* Facts about sequences that the proofs of several components need:       *)
(* running totals, and the sequence of all elements of some sequences, for *)
(* every length.                                                           *)
(*                                                                         *)
(* The library's induction theorems take the property as an operator       *)
(* parameter; SetInduction is the same principle with the property given   *)
(* as a set, derived from the well-foundedness of < on the naturals.       *)
(***************************************************************************)
EXTENDS ByteSums, SequencesExt, WellFoundedInduction, TLAPS

\* Every non-empty set of naturals has a least element.
LEMMA LeastNatural ==
  ASSUME NEW T \in SUBSET Nat, T # {}
  PROVE  \E x \in T : \A y \in T : x <= y
<1>1. PICK x \in T : \A y \in T : ~ (<< y, x >> \in OpToRel(<, Nat))
  BY WFMin, NatLessThanWellFounded
<1>2. \A y \in T : ~ (y < x)
  BY <1>1 DEF OpToRel
<1> QED
  BY <1>2

\* Mathematical induction, with the property given as the set S of the
\* naturals that have it.
LEMMA SetInduction ==
  ASSUME NEW S \in SUBSET Nat, 0 \in S, \A n \in S : n + 1 \in S
  PROVE  S = Nat
<1> SUFFICES ASSUME Nat \ S # {} PROVE FALSE
  OBVIOUS
<1>1. PICK x \in Nat \ S : \A y \in Nat \ S : x <= y
  BY LeastNatural
<1>2. x - 1 \in S
  BY <1>1
<1> QED
  BY <1>2

\* The largest of some numbers up to n.
LEMMA LargestExists ==
  ASSUME NEW n \in Nat, NEW S \in SUBSET (0 .. n), S # {}
  PROVE  Max(S) \in S /\ \A x \in S : x <= Max(S)
<1> DEFINE T == {n - x : x \in S}
<1>1. T \in SUBSET Nat /\ T # {}
  <2>1. \A x \in S : n - x \in Nat
    OBVIOUS
  <2> QED
    BY <2>1
<1>2. PICK t \in T : \A u \in T : t <= u
  <2> HIDE DEF T
  <2> QED
    BY <1>1, LeastNatural
<1>3. PICK m \in S : t = n - m
  OBVIOUS
<1>4. ASSUME NEW x \in S PROVE m >= x
  <2>1. n - x \in T
    OBVIOUS
  <2>2. n - m <= n - x
    <3> HIDE DEF T
    <3> QED
      BY <1>2, <1>3, <2>1
  <2> QED
    BY <2>2
<1>5. \E y \in S : \A x \in S : y >= x
  BY <1>4
<1>6. Max(S) \in S /\ \A x \in S : Max(S) >= x
  BY <1>5, Zenon DEF Max
<1> QED
  BY <1>6

LEMMA SmallestExists ==
  ASSUME NEW S \in SUBSET Nat, S # {}
  PROVE  Min(S) \in S /\ \A x \in S : Min(S) <= x
<1>1. \E y \in S : \A x \in S : y <= x
  BY LeastNatural
<1> QED
  BY <1>1, Zenon DEF Min

\* A stretch of a stretch.
LEMMA StretchOfStretch ==
  ASSUME NEW S, NEW s \in Seq(S), NEW a \in Nat, a > 0, NEW b \in Nat, b <= Len(s),
         NEW c \in Nat, c > 0, NEW d \in Nat, a + d - 1 <= b
  PROVE  SubSeq(SubSeq(s, a, b), c, d) = SubSeq(s, a + c - 1, a + d - 1)
OBVIOUS

-----------------------------------------------------------------------------

\* A sequence of records that have a natural size.
Sized(recs) ==
  /\ Len(recs) \in Nat
  /\ \A i \in 1 .. Len(recs) : recs[i].size \in Nat

\* The recursive definition of Cumulative has the value it denotes: a total
\* that starts at zero and grows by one size per step.
LEMMA CumulativeUnfolds ==
  ASSUME NEW recs, Sized(recs)
  PROVE  /\ Cumulative(recs) \in [0 .. Len(recs) -> Nat]
         /\ Cumulative(recs)[0] = 0
         /\ \A i \in 1 .. Len(recs) :
              Cumulative(recs)[i] = Cumulative(recs)[i - 1] + recs[i].size
<1> DEFINE n == Len(recs)
           size(i) == recs[i].size
           Totals(m, g) == /\ g \in [0 .. m -> Nat]
                           /\ g[0] = 0
                           /\ \A i \in 1 .. m : i <= n => g[i] = g[i - 1] + size(i)
           S == {m \in Nat : \E g : Totals(m, g)}
<1>0. n \in Nat /\ \A i \in 1 .. n : size(i) \in Nat
  BY DEF Sized
<1> HIDE DEF n, size
<1>1. 0 \in S
  <2>1. Totals(0, [i \in 0 .. 0 |-> 0])
    OBVIOUS
  <2> QED
    BY <2>1
<1>2. ASSUME NEW m \in S PROVE m + 1 \in S
  <2>1. PICK g : Totals(m, g)
    OBVIOUS
  <2> DEFINE step == IF m + 1 <= n THEN size(m + 1) ELSE 0
             h == [i \in 0 .. m + 1 |-> IF i = m + 1 THEN g[m] + step ELSE g[i]]
  <2>2. m \in Nat /\ step \in Nat
    BY <1>0
  <2>3. h \in [0 .. m + 1 -> Nat] /\ h[0] = 0
    <3> HIDE DEF step
    <3> QED BY <2>1, <2>2
  <2>4. ASSUME NEW i \in 1 .. m + 1, i <= n PROVE h[i] = h[i - 1] + size(i)
    <3>1. CASE i = m + 1
      BY <2>1, <2>2, <2>4, <3>1, <1>0
    <3>2. CASE i \in 1 .. m
      BY <2>1, <2>2, <2>4, <3>2
    <3> QED BY <2>2, <3>1, <3>2
  <2>5. Totals(m + 1, h)
    <3> HIDE DEF h
    <3> QED BY <2>3, <2>4
  <2>6. \E gg : Totals(m + 1, gg)
    <3> HIDE DEF h, Totals
    <3> QED BY <2>5
  <2> QED
    <3> HIDE DEF Totals
    <3> QED BY <2>2, <2>6
<1>3. S = Nat
  <2> HIDE DEF S
  <2>1. S \in SUBSET Nat
    BY DEF S
  <2> QED
    BY <1>1, <1>2, <2>1, SetInduction
<1>4. PICK g : Totals(n, g)
  BY <1>0, <1>3
<1>5. g = [i \in 0 .. Len(recs) |-> IF i = 0 THEN 0 ELSE g[i - 1] + recs[i].size]
  BY <1>0, <1>4 DEF n, size
<1>6. Cumulative(recs)
        = [i \in 0 .. Len(recs) |->
             IF i = 0 THEN 0 ELSE Cumulative(recs)[i - 1] + recs[i].size]
  BY <1>5 DEF Cumulative
<1> DEFINE c == Cumulative(recs)
<1> HIDE DEF c
<1>7. c = [i \in 0 .. n |-> IF i = 0 THEN 0 ELSE c[i - 1] + size(i)]
  BY <1>6 DEF c, n, size
<1>8. c[0] = 0 /\ \A i \in 1 .. n : c[i] = c[i - 1] + size(i)
  BY <1>0, <1>7
<1>9. \A i \in 0 .. n : c[i] \in Nat
  <2> DEFINE D == {i \in Nat : i <= n => c[i] \in Nat}
  <2>1. 0 \in D
    BY <1>8
  <2>2. ASSUME NEW i \in D PROVE i + 1 \in D
    BY <1>0, <1>8
  <2>3. D = Nat
    <3> HIDE DEF D
    <3>1. D \in SUBSET Nat
      BY DEF D
    <3> QED BY <2>1, <2>2, <3>1, SetInduction
  <2> QED
    BY <1>0, <2>3
<1>10. c \in [0 .. n -> Nat]
  BY <1>7, <1>9
<1> QED
  BY <1>8, <1>10 DEF c, n, size

\* A longer prefix never has fewer bytes, and with sizes of at least one it has
\* strictly more.
LEMMA CumulativeMonotone ==
  ASSUME NEW recs, Sized(recs)
  PROVE  \A i, j \in 0 .. Len(recs) :
           i <= j => Cumulative(recs)[i] <= Cumulative(recs)[j]
<1> DEFINE n == Len(recs)
           c == Cumulative(recs)
           size(i) == recs[i].size
           D == {d \in Nat : \A i \in 0 .. n : i + d <= n => c[i] <= c[i + d]}
<1>1. /\ n \in Nat
      /\ c \in [0 .. n -> Nat]
      /\ \A i \in 1 .. n : size(i) \in Nat /\ c[i] = c[i - 1] + size(i)
  BY CumulativeUnfolds DEF Sized
<1> HIDE DEF n, c, size
<1>2. 0 \in D
  BY <1>1
<1>3. ASSUME NEW d \in D PROVE d + 1 \in D
  <2>1. ASSUME NEW i \in 0 .. n, i + (d + 1) <= n PROVE c[i] <= c[i + (d + 1)]
    <3>1. c[i] <= c[i + d] /\ i + d \in 0 .. n /\ i + (d + 1) \in 1 .. n
      BY <1>1, <2>1
    <3>2. c[i + (d + 1)] = c[i + d] + size(i + (d + 1))
      BY <1>1, <3>1
    <3>3. c[i] \in Nat /\ c[i + d] \in Nat /\ size(i + (d + 1)) \in Nat
      BY <1>1, <3>1
    <3> QED
      BY <3>1, <3>2, <3>3
  <2> QED
    BY <2>1
<1>4. D = Nat
  <2> HIDE DEF D
  <2>1. D \in SUBSET Nat
    BY DEF D
  <2> QED
    BY <1>2, <1>3, <2>1, SetInduction
<1>5. ASSUME NEW i \in 0 .. n, NEW j \in 0 .. n, i <= j
      PROVE  c[i] <= c[j]
  <2>1. j - i \in Nat /\ i + (j - i) = j /\ i + (j - i) <= n
    BY <1>1, <1>5
  <2>2. j - i \in D
    <3> HIDE DEF D
    <3> QED BY <1>4, <2>1
  <2> QED
    BY <2>1, <2>2
<1> QED
  BY <1>5 DEF n, c

\* The first len records of part have the sizes of the records of whole that
\* follow the first off ones.
IsWindow(whole, part, off, len) ==
  /\ Sized(whole) /\ Sized(part)
  /\ off \in Nat /\ len \in Nat
  /\ off + len <= Len(whole) /\ len <= Len(part)
  /\ \A i \in 1 .. len : part[i].size = whole[off + i].size

\* If part has, from its first record on, the sizes that whole has from record
\* off + 1 on, its running total is the growth of whole's total from off.
LEMMA CumulativeOfWindow ==
  ASSUME NEW whole, NEW part, NEW off, NEW len, IsWindow(whole, part, off, len)
  PROVE  \A i \in 0 .. len :
           Cumulative(whole)[off + i] = Cumulative(whole)[off] + Cumulative(part)[i]
<1> DEFINE w == Cumulative(whole)
           p == Cumulative(part)
           wsize(i) == whole[i].size
           psize(i) == part[i].size
           D == {i \in Nat : i <= len => w[off + i] = w[off] + p[i]}
           wlen == Len(whole)
           plen == Len(part)
<1>0. /\ wlen \in Nat /\ plen \in Nat /\ off + len <= wlen /\ len <= plen
      /\ off \in Nat /\ len \in Nat
  BY DEF IsWindow, Sized
<1>01. /\ w \in [0 .. wlen -> Nat]
      /\ \A i \in 1 .. wlen : w[i] = w[i - 1] + wsize(i)
  BY CumulativeUnfolds DEF IsWindow
<1>02. /\ p \in [0 .. plen -> Nat] /\ p[0] = 0
      /\ \A i \in 1 .. plen : p[i] = p[i - 1] + psize(i)
  BY CumulativeUnfolds DEF IsWindow
<1>03. \A i \in 1 .. plen : psize(i) \in Nat
  BY DEF IsWindow, Sized
<1>04. \A i \in 1 .. len : psize(i) = wsize(off + i)
  BY DEF IsWindow
<1> HIDE DEF w, p, wsize, psize, wlen, plen
<1>1. /\ \A i \in 0 .. off + len : w[i] \in Nat
      /\ \A i \in 1 .. off + len : w[i] = w[i - 1] + wsize(i)
  BY <1>0, <1>01
<1>2. /\ p[0] = 0
      /\ \A i \in 0 .. len : p[i] \in Nat
      /\ \A i \in 1 .. len : p[i] = p[i - 1] + psize(i)
  BY <1>0, <1>02
<1>3. \A i \in 1 .. len : psize(i) = wsize(off + i) /\ psize(i) \in Nat
  BY <1>0, <1>03, <1>04
<1>4. 0 \in D
  BY <1>0, <1>1, <1>2
<1>5. ASSUME NEW i \in D PROVE i + 1 \in D
  <2>1. ASSUME i + 1 <= len PROVE w[off + (i + 1)] = w[off] + p[i + 1]
    <3>1. w[off + i] = w[off] + p[i]
      BY <1>0, <2>1
    <3>2. w[off + (i + 1)] = w[off + i] + wsize(off + (i + 1))
      BY <1>0, <1>1, <2>1
    <3>3. p[i + 1] = p[i] + psize(i + 1)
      BY <1>0, <1>2, <2>1
    <3>4. psize(i + 1) = wsize(off + (i + 1)) /\ psize(i + 1) \in Nat
      BY <1>0, <1>3, <2>1
    <3>5. w[off] \in Nat /\ p[i] \in Nat
      BY <1>0, <1>1, <1>2, <2>1
    <3> QED
      BY <3>1, <3>2, <3>3, <3>4, <3>5
  <2> QED
    BY <2>1
<1>6. D = Nat
  <2> HIDE DEF D
  <2>1. D \in SUBSET Nat
    BY DEF D
  <2> QED
    BY <1>4, <1>5, <2>1, SetInduction
<1>7. ASSUME NEW i \in 0 .. len PROVE w[off + i] = w[off] + p[i]
  <2>1. i \in D
    <3> HIDE DEF D
    <3> QED BY <1>0, <1>6
  <2> QED
    BY <1>0, <2>1
<1> QED
  BY <1>7 DEF w, p

-----------------------------------------------------------------------------
(* All elements of some sequences *)

\* Where each of the sequences ends in the sequence of all elements.
Ends(ss) == Cumulative([i \in 1 .. Len(ss) |-> [size |-> Len(ss[i])]])

LEMMA EndsFacts ==
  ASSUME NEW S, NEW ss \in Seq(Seq(S))
  PROVE  /\ Ends(ss) \in [0 .. Len(ss) -> Nat]
         /\ Ends(ss)[0] = 0
         /\ \A i \in 1 .. Len(ss) :
              Len(ss[i]) \in Nat /\ Ends(ss)[i] = Ends(ss)[i - 1] + Len(ss[i])
         /\ \A i, j \in 0 .. Len(ss) : i <= j => Ends(ss)[i] <= Ends(ss)[j]
<1> DEFINE recs == [i \in 1 .. Len(ss) |-> [size |-> Len(ss[i])]]
<1>1. Len(ss) \in Nat /\ \A i \in 1 .. Len(ss) : Len(ss[i]) \in Nat
  OBVIOUS
<1>2. Len(recs) = Len(ss) /\ \A i \in 1 .. Len(ss) : recs[i].size = Len(ss[i])
  BY <1>1
<1> HIDE DEF recs
<1>3. Sized(recs)
  BY <1>1, <1>2 DEF Sized
<1>4. Ends(ss) = Cumulative(recs)
  BY DEF Ends, recs
<1> QED
  BY <1>1, <1>2, <1>3, <1>4, CumulativeUnfolds, CumulativeMonotone

\* The recursive definition of FlattenSeq has the value it denotes.
LEMMA FlattenUnfolds ==
  ASSUME NEW S, NEW ss \in Seq(Seq(S)), ss # << >>
  PROVE  \E f \in [1 .. Len(ss) -> Seq(S)] :
           /\ FlattenSeq(ss) = f[Len(ss)]
           /\ f[1] = ss[1]
           /\ \A i \in 2 .. Len(ss) : f[i] = f[i - 1] \o ss[i]
<1> DEFINE n == Len(ss)
           Cat(a, b) == a \o b
           Step(g, i) == IF i = 1 THEN ss[i] ELSE Cat(g[i - 1], ss[i])
           Flat(m, g) == g \in [1 .. m -> Seq(S)] /\ \A i \in 1 .. m : g[i] = Step(g, i)
           D == {m \in Nat : m <= n => \E g : Flat(m, g)}
<1>0. n \in Nat \ {0} /\ \A i \in 1 .. n : ss[i] \in Seq(S)
  OBVIOUS
<1>01. \A a, b \in Seq(S) : Cat(a, b) \in Seq(S)
  OBVIOUS
<1> HIDE DEF n, Cat
<1>1. 0 \in D
  <2>1. Flat(0, [i \in 1 .. 0 |-> << >>])
    OBVIOUS
  <2> QED
    BY <2>1
<1>2. ASSUME NEW m \in D PROVE m + 1 \in D
  <2>1. m \in Nat
    OBVIOUS
  <2> SUFFICES ASSUME m + 1 <= n PROVE \E g : Flat(m + 1, g)
    <3> HIDE DEF Flat
    <3> QED BY <2>1
  <2>2. m <= n
    BY <1>0, <2>1
  <2>3. PICK g : Flat(m, g)
    BY <2>2
  <2> DEFINE new == Step(g, m + 1)
             h == [i \in 1 .. m + 1 |-> IF i = m + 1 THEN new ELSE g[i]]
  <2>4. new \in Seq(S)
    <3>1. CASE m = 0
      BY <1>0, <2>1, <3>1
    <3>2. CASE m # 0
      <4>1. ss[m + 1] \in Seq(S) /\ g[m] \in Seq(S)
        BY <1>0, <2>1, <2>3, <3>2
      <4> QED
        BY <1>01, <2>1, <3>2, <4>1
    <3> QED
      BY <3>1, <3>2
  <2>5. ASSUME NEW i \in 1 .. m + 1 PROVE h[i] \in Seq(S) /\ h[i] = Step(h, i)
    <3>1. CASE i = m + 1
      <4>1. h[i] = new
        <5> HIDE DEF new
        <5> QED BY <3>1
      <4>2. m # 0 => h[m] = g[m]
        <5> HIDE DEF new
        <5> QED BY <2>1
      <4>3. Step(h, m + 1) = new
        <5> HIDE DEF h
        <5> QED BY <2>1, <4>2
      <4> QED
        <5> HIDE DEF new, h
        <5> QED BY <2>4, <3>1, <4>1, <4>3
    <3>2. CASE i \in 1 .. m
      <4> HIDE DEF new
      <4>1. h[i] = g[i] /\ (i # 1 => h[i - 1] = g[i - 1])
        BY <2>1, <3>2
      <4> HIDE DEF h
      <4> QED BY <2>3, <3>2, <4>1
    <3> QED
      BY <2>1, <3>1, <3>2
  <2>6. h \in [1 .. m + 1 -> Seq(S)]
    <3>1. \A i \in 1 .. m + 1 : h[i] \in Seq(S)
      BY <2>5
    <3>2. h = [i \in 1 .. m + 1 |-> h[i]]
      <4> HIDE DEF new
      <4> QED OBVIOUS
    <3> HIDE DEF h
    <3> QED BY <3>1, <3>2
  <2>7. Flat(m + 1, h)
    <3> HIDE DEF h, Step
    <3> QED BY <2>5, <2>6
  <2> QED
    <3> HIDE DEF h, Flat
    <3> QED BY <2>7
<1>3. D = Nat
  <2> HIDE DEF D
  <2>1. D \in SUBSET Nat
    BY DEF D
  <2> QED
    BY <1>1, <1>2, <2>1, SetInduction
<1>4. PICK g : Flat(n, g)
  <2> HIDE DEF Flat
  <2> QED BY <1>0, <1>3, SMTT(30)
<1> DEFINE Unfolded(h) == h = [i \in 1 .. n |-> IF i = 1 THEN ss[i] ELSE Cat(h[i - 1], ss[i])]
           f == CHOOSE h : Unfolded(h)
<1>5. Unfolded(g)
  BY <1>4
<1>6. Unfolded(f)
  <2> HIDE DEF Unfolded
  <2> QED BY <1>5
<1>7. FlattenSeq(ss) = f[n]
  BY <1>0, Zenon DEF FlattenSeq, n, Cat
<1> HIDE DEF f
<1>8. f[1] = ss[1] /\ \A i \in 2 .. n : f[i] = Cat(f[i - 1], ss[i])
  BY <1>0, <1>6
<1>9. \A i \in 1 .. n : f[i] \in Seq(S)
  <2> DEFINE E == {i \in Nat : i + 1 <= n => f[i + 1] \in Seq(S)}
  <2>1. 0 \in E
    BY <1>0, <1>8
  <2>2. ASSUME NEW i \in E PROVE i + 1 \in E
    <3> SUFFICES ASSUME i + 2 <= n PROVE f[i + 2] \in Seq(S)
      BY <1>0
    <3>1. i \in Nat /\ f[i + 1] \in Seq(S) /\ ss[i + 2] \in Seq(S)
      BY <1>0
    <3>2. f[i + 2] = Cat(f[i + 1], ss[i + 2])
      <4>1. i + 2 \in 2 .. n /\ (i + 2) - 1 = i + 1
        BY <1>0, <3>1
      <4> QED
        BY <1>8, <4>1
    <3> QED
      BY <1>01, <3>1, <3>2
  <2>3. E = Nat
    <3> HIDE DEF E
    <3>1. E \in SUBSET Nat
      BY DEF E
    <3> QED
      BY <2>1, <2>2, <3>1, SetInduction
  <2>4. ASSUME NEW i \in 1 .. n PROVE f[i] \in Seq(S)
    <3>1. i - 1 \in E
      <4> HIDE DEF E
      <4> QED BY <1>0, <2>3
    <3> QED
      BY <1>0, <3>1
  <2> QED
    BY <2>4
<1>10. f \in [1 .. n -> Seq(S)]
  BY <1>6, <1>9
<1> QED
  BY <1>7, <1>8, <1>10 DEF n, Cat

\* Position j of the i-th sequence is position Ends(ss)[i - 1] + j of them all.
LEMMA FlattenFacts ==
  ASSUME NEW S, NEW ss \in Seq(Seq(S))
  PROVE  /\ FlattenSeq(ss) \in Seq(S)
         /\ Len(FlattenSeq(ss)) = Ends(ss)[Len(ss)]
         /\ \A i \in 1 .. Len(ss) : \A j \in 1 .. Len(ss[i]) :
              /\ Ends(ss)[i - 1] + j \in 1 .. Len(FlattenSeq(ss))
              /\ FlattenSeq(ss)[Ends(ss)[i - 1] + j] = ss[i][j]
         /\ \A k \in 1 .. Len(FlattenSeq(ss)) :
              \E i \in 1 .. Len(ss) : \E j \in 1 .. Len(ss[i]) : k = Ends(ss)[i - 1] + j
<1> DEFINE n == Len(ss)
           e == Ends(ss)
           len(i) == Len(ss[i])
<1>0. n \in Nat /\ \A i \in 1 .. n : ss[i] \in Seq(S) /\ len(i) \in Nat
  OBVIOUS
<1>1. /\ e \in [0 .. n -> Nat] /\ e[0] = 0
      /\ \A i \in 1 .. n : e[i] = e[i - 1] + len(i)
      /\ \A i, j \in 0 .. n : i <= j => e[i] <= e[j]
  BY EndsFacts
<1>2. CASE ss = << >>
  <2>1. FlattenSeq(ss) = << >> /\ n = 0
    BY <1>2 DEF FlattenSeq
  <2> QED
    BY <1>1, <2>1
<1>3. CASE ss # << >>
  <2>1. PICK f \in [1 .. n -> Seq(S)] : /\ FlattenSeq(ss) = f[n]
                                        /\ f[1] = ss[1]
                                        /\ \A i \in 2 .. n : f[i] = f[i - 1] \o ss[i]
    BY <1>3, FlattenUnfolds
  <2> DEFINE all(i) == f[i]
             Right(i) == /\ Len(all(i)) = e[i]
                         /\ \A h \in 1 .. i : \A j \in 1 .. len(h) : all(i)[e[h - 1] + j] = ss[h][j]
             D == {i \in Nat : i + 1 <= n => Right(i + 1)}
  <2>2. n # 0
    BY <1>3
  <2>3. /\ all(1) = ss[1]
        /\ \A i \in 1 .. n : all(i) \in Seq(S)
        /\ \A i \in 2 .. n :
             /\ Len(all(i)) = Len(all(i - 1)) + len(i)
             /\ \A k \in 1 .. Len(all(i - 1)) : all(i)[k] = all(i - 1)[k]
             /\ \A k \in 1 .. len(i) : all(i)[Len(all(i - 1)) + k] = ss[i][k]
    <3>1. ASSUME NEW i \in 2 .. n
          PROVE  /\ Len(all(i)) = Len(all(i - 1)) + len(i)
                 /\ \A k \in 1 .. Len(all(i - 1)) : all(i)[k] = all(i - 1)[k]
                 /\ \A k \in 1 .. len(i) : all(i)[Len(all(i - 1)) + k] = ss[i][k]
      <4> DEFINE a == f[i - 1]
                 b == ss[i]
      <4>1. a \in Seq(S) /\ b \in Seq(S) /\ f[i] = a \o b
        <5> HIDE DEF n
        <5>1. i - 1 \in 1 .. n /\ i \in 1 .. n
          BY <1>0
        <5> QED
          BY <1>0, <2>1, <5>1
      <4> HIDE DEF a, b
      <4>2. /\ Len(a \o b) = Len(a) + Len(b)
            /\ \A k \in 1 .. Len(a) : (a \o b)[k] = a[k]
            /\ \A k \in 1 .. Len(b) : (a \o b)[Len(a) + k] = b[k]
        BY <4>1
      <4> QED
        BY <4>1, <4>2 DEF a, b
    <3>2. all(1) = ss[1] /\ \A i \in 1 .. n : all(i) \in Seq(S)
      BY <2>1
    <3> HIDE DEF all, len, n
    <3> QED
      BY <3>1, <3>2
  <2> HIDE DEF n, e, len, all
  <2>4. Right(1)
    <3>1. e[1] = len(1) /\ e[0] = 0 /\ len(1) \in Nat
      BY <1>0, <1>1, <2>2
    <3>2. Len(all(1)) = len(1)
      BY <2>3 DEF len
    <3>3. ASSUME NEW h \in 1 .. 1, NEW j \in 1 .. len(h) PROVE all(1)[e[h - 1] + j] = ss[h][j]
      BY <2>3, <3>1
    <3> QED
      BY <3>1, <3>2, <3>3
  <2>5. ASSUME NEW q \in 2 .. n, Right(q - 1) PROVE Right(q)
    <3>1. /\ Len(all(q)) = Len(all(q - 1)) + len(q)
          /\ \A k \in 1 .. Len(all(q - 1)) : all(q)[k] = all(q - 1)[k]
          /\ \A k \in 1 .. len(q) : all(q)[Len(all(q - 1)) + k] = ss[q][k]
      BY <2>3
    <3>2. e[q] = e[q - 1] + len(q) /\ q - 1 \in 1 .. n
      BY <1>0, <1>1
    <3>3. Len(all(q)) = e[q] /\ Len(all(q - 1)) = e[q - 1]
      BY <2>5, <3>1, <3>2
    <3>4. ASSUME NEW h \in 1 .. q, NEW j \in 1 .. len(h)
          PROVE  all(q)[e[h - 1] + j] = ss[h][j]
      <4>1. CASE h = q
        BY <3>1, <3>3, <4>1
      <4>2. CASE h \in 1 .. q - 1
        <5>0. h \in 1 .. n /\ h \in 0 .. n /\ h - 1 \in 0 .. n /\ q - 1 \in 0 .. n /\ h <= q - 1
          BY <1>0, <3>2, <4>2, SMTT(30)
        <5>1. e[h] = e[h - 1] + len(h) /\ e[h - 1] \in Nat /\ len(h) \in Nat /\ e[q - 1] \in Nat
          BY <1>0, <1>1, <5>0
        <5>2. e[h] <= e[q - 1]
          BY <1>1, <5>0
        <5>3. e[h - 1] + j \in 1 .. Len(all(q - 1))
          BY <3>3, <5>1, <5>2, SMTT(30)
        <5>4. all(q - 1)[e[h - 1] + j] = ss[h][j]
          BY <2>5, <4>2
        <5> QED
          BY <3>1, <5>3, <5>4
      <4> QED
        BY <4>1, <4>2
    <3> QED
      BY <3>3, <3>4
  <2>6. D = Nat
    <3>1. 0 \in D
      <4> HIDE DEF Right
      <4> QED BY <2>4
    <3>2. ASSUME NEW i \in D PROVE i + 1 \in D
      <4> HIDE DEF Right
      <4>1. i \in Nat /\ (i + 2) - 1 = i + 1
        OBVIOUS
      <4>2. ASSUME i + 2 <= n PROVE Right(i + 2)
        <5>1. i + 2 \in 2 .. n /\ Right(i + 1)
          BY <1>0, <4>1, <4>2
        <5> QED
          BY <2>5, <4>1, <5>1
      <4> QED
        BY <4>1, <4>2
    <3> HIDE DEF D
    <3>3. D \in SUBSET Nat
      BY DEF D
    <3> QED
      BY <3>1, <3>2, <3>3, SetInduction
  <2>7. Right(n)
    <3> HIDE DEF Right
    <3>1. n - 1 \in D
      <4> HIDE DEF D
      <4> QED BY <1>0, <2>2, <2>6
    <3> QED
      BY <1>0, <3>1
  <2>8. FlattenSeq(ss) = all(n) /\ all(n) \in Seq(S)
    BY <1>0, <2>1, <2>2, <2>3 DEF all
  <2> DEFINE flat == FlattenSeq(ss)
  <2> HIDE DEF flat
  <2>9. flat \in Seq(S) /\ Len(flat) = e[n] /\ flat = all(n)
    BY <2>7, <2>8 DEF flat
  <2>10. ASSUME NEW i \in 1 .. n, NEW j \in 1 .. len(i)
         PROVE  e[i - 1] + j \in 1 .. Len(flat) /\ flat[e[i - 1] + j] = ss[i][j]
    <3>1. e[i] = e[i - 1] + len(i) /\ e[i - 1] \in Nat /\ len(i) \in Nat /\ e[n] \in Nat
      BY <1>0, <1>1
    <3>2. e[i] <= e[n]
      BY <1>0, <1>1
    <3> QED
      BY <2>7, <2>9, <3>1, <3>2, SMTT(30)
  <2>11. ASSUME NEW k \in 1 .. Len(flat)
         PROVE  \E i \in 1 .. n : \E j \in 1 .. len(i) : k = e[i - 1] + j
    <3> DEFINE T == {i \in Nat : i <= n /\ k <= e[i]}
    <3>1. n \in T /\ 0 \notin T
      BY <1>0, <1>1, <2>9
    <3>2. PICK i \in T : \A m \in T : i <= m
      <4> HIDE DEF T
      <4>1. T \in SUBSET Nat /\ T # {}
        BY <3>1 DEF T
      <4> QED
        BY <4>1, LeastNatural
    <3>3. i \in 1 .. n /\ k <= e[i]
      BY <1>0, <3>1
    <3>4. ~ (k <= e[i - 1])
      BY <1>0, <3>2, <3>3
    <3>5. e[i] = e[i - 1] + len(i) /\ e[i - 1] \in Nat /\ len(i) \in Nat
      BY <1>0, <1>1, <3>3
    <3>6. k - e[i - 1] \in 1 .. len(i) /\ k = e[i - 1] + (k - e[i - 1])
      BY <3>3, <3>4, <3>5
    <3> QED
      BY <3>3, <3>6
  <2> QED
    BY <2>9, <2>10, <2>11 DEF flat, n, e, len
<1> QED
  BY <1>2, <1>3

\* What is in all is in one of them.
LEMMA FlattenElements ==
  ASSUME NEW S, NEW ss \in Seq(Seq(S)), NEW x
  PROVE  x \in ToSet(FlattenSeq(ss))
           <=> \E i \in 1 .. Len(ss) : \E j \in 1 .. Len(ss[i]) : x = ss[i][j]
<1> DEFINE all == FlattenSeq(ss)
           e == Ends(ss)
<1>1. /\ all \in Seq(S)
      /\ \A i \in 1 .. Len(ss) : \A j \in 1 .. Len(ss[i]) :
           e[i - 1] + j \in 1 .. Len(all) /\ all[e[i - 1] + j] = ss[i][j]
      /\ \A k \in 1 .. Len(all) :
           \E i \in 1 .. Len(ss) : \E j \in 1 .. Len(ss[i]) : k = e[i - 1] + j
  BY FlattenFacts, SMTT(30)
<1> HIDE DEF all, e
<1>2. ToSet(all) = {all[k] : k \in 1 .. Len(all)}
  BY <1>1 DEF ToSet
<1>3. ASSUME x \in ToSet(all)
      PROVE  \E i \in 1 .. Len(ss) : \E j \in 1 .. Len(ss[i]) : x = ss[i][j]
  <2>1. PICK k \in 1 .. Len(all) : x = all[k]
    BY <1>2, <1>3
  <2>2. PICK i \in 1 .. Len(ss) : \E j \in 1 .. Len(ss[i]) : k = e[i - 1] + j
    BY <1>1
  <2>3. PICK j \in 1 .. Len(ss[i]) : k = e[i - 1] + j
    BY <2>2
  <2>4. x = ss[i][j]
    BY <1>1, <2>1, <2>3
  <2> QED
    BY <2>4
<1>4. ASSUME NEW i \in 1 .. Len(ss), NEW j \in 1 .. Len(ss[i]), x = ss[i][j]
      PROVE  x \in ToSet(all)
  BY <1>1, <1>2, <1>4
<1> QED
  BY <1>3, <1>4 DEF all

\* The first is next to the second in one of the sequences, or is in an earlier one.
Precedes(ss, a, b) ==
  \E i, h \in 1 .. Len(ss) : \E j \in 1 .. Len(ss[i]), m \in 1 .. Len(ss[h]) :
    /\ a = ss[i][j] /\ b = ss[h][m]
    /\ \/ i = h /\ m = j + 1
       \/ i < h

LEMMA FlattenNeighbours ==
  ASSUME NEW S, NEW ss \in Seq(Seq(S))
  PROVE  \A k \in 1 .. Len(FlattenSeq(ss)) - 1 :
           Precedes(ss, FlattenSeq(ss)[k], FlattenSeq(ss)[k + 1])
<1> TAKE k \in 1 .. Len(FlattenSeq(ss)) - 1
<1> DEFINE all == FlattenSeq(ss)
           e == Ends(ss)
           n == Len(ss)
           len(i) == Len(ss[i])
<1>1. /\ all \in Seq(S)
      /\ \A i \in 1 .. n : \A j \in 1 .. len(i) :
           e[i - 1] + j \in 1 .. Len(all) /\ all[e[i - 1] + j] = ss[i][j]
      /\ \A q \in 1 .. Len(all) :
           \E i \in 1 .. n : \E j \in 1 .. len(i) : q = e[i - 1] + j
  BY FlattenFacts, ZenonT(40)
<1>2. /\ n \in Nat
      /\ e \in [0 .. n -> Nat]
      /\ \A i \in 1 .. n : len(i) \in Nat /\ e[i] = e[i - 1] + len(i)
      /\ \A i, j \in 0 .. n : i <= j => e[i] <= e[j]
  BY EndsFacts
<1> HIDE DEF all
<1>3. k \in 1 .. Len(all) /\ k + 1 \in 1 .. Len(all)
  BY <1>1 DEF all
<1> HIDE DEF all, e, n, len
<1>4. PICK i \in 1 .. n : \E j \in 1 .. len(i) : k = e[i - 1] + j
  BY <1>1, <1>3
<1>5. PICK j \in 1 .. len(i) : k = e[i - 1] + j
  BY <1>4
<1>6. PICK h \in 1 .. n : \E m \in 1 .. len(h) : k + 1 = e[h - 1] + m
  BY <1>1, <1>3
<1>7. PICK m \in 1 .. len(h) : k + 1 = e[h - 1] + m
  BY <1>6
<1>8. all[k] = ss[i][j] /\ all[k + 1] = ss[h][m]
  BY <1>1, <1>5, <1>7
<1>9. /\ i - 1 \in 0 .. n /\ h - 1 \in 0 .. n /\ i \in 0 .. n /\ h \in 0 .. n
      /\ e[i - 1] \in Nat /\ e[h - 1] \in Nat
      /\ e[i] = e[i - 1] + len(i) /\ e[h] = e[h - 1] + len(h)
      /\ len(i) \in Nat /\ len(h) \in Nat
  BY <1>2
<1>10. ~ (h < i)
  <2> SUFFICES ASSUME h < i PROVE FALSE
    OBVIOUS
  <2>1. h <= i - 1
    BY <1>2
  <2>2. e[h] <= e[i - 1]
    BY <1>2, <1>9, <2>1
  <2>3. e[h - 1] + m <= e[h]
    BY <1>9
  <2>4. j \in Nat /\ j > 0 /\ e[h] \in Nat
    BY <1>2, <1>9
  <2>5. e[i - 1] + j + 1 <= e[h]
    BY <1>5, <1>7, <2>3
  <2>6. e[i - 1] \in Nat
    BY <1>9
  <2> QED
    BY <2>2, <2>4, <2>5, <2>6
<1>11. i = h => m = j + 1
  BY <1>5, <1>7, <1>9, SMTT(30)
<1>12. i = h \/ i < h
  BY <1>2, <1>10
<1> QED
  BY <1>8, <1>11, <1>12 DEF Precedes, all, n, len

\* The first is in front of the second in one of the sequences, or is in an earlier one.
InFrontOf(ss, a, b) ==
  \E i, h \in 1 .. Len(ss) : \E j \in 1 .. Len(ss[i]), m \in 1 .. Len(ss[h]) :
    /\ a = ss[i][j] /\ b = ss[h][m]
    /\ \/ i = h /\ j < m
       \/ i < h

LEMMA FlattenOrder ==
  ASSUME NEW S, NEW ss \in Seq(Seq(S)),
         NEW k \in 1 .. Len(FlattenSeq(ss)), NEW l \in 1 .. Len(FlattenSeq(ss)), k < l
  PROVE  InFrontOf(ss, FlattenSeq(ss)[k], FlattenSeq(ss)[l])
<1> DEFINE all == FlattenSeq(ss)
           e == Ends(ss)
           n == Len(ss)
           len(i) == Len(ss[i])
<1>1. /\ all \in Seq(S)
      /\ \A i \in 1 .. n : \A j \in 1 .. len(i) :
           e[i - 1] + j \in 1 .. Len(all) /\ all[e[i - 1] + j] = ss[i][j]
      /\ \A q \in 1 .. Len(all) :
           \E i \in 1 .. n : \E j \in 1 .. len(i) : q = e[i - 1] + j
  BY FlattenFacts, ZenonT(40)
<1>2. /\ n \in Nat
      /\ e \in [0 .. n -> Nat]
      /\ \A i \in 1 .. n : len(i) \in Nat /\ e[i] = e[i - 1] + len(i)
      /\ \A i, j \in 0 .. n : i <= j => e[i] <= e[j]
  BY EndsFacts
<1>3. k \in 1 .. Len(all) /\ l \in 1 .. Len(all)
  OBVIOUS
<1>31. k \in Nat /\ l \in Nat /\ k + 1 <= l
  <2>1. Len(all) \in Nat
    BY <1>1
  <2> HIDE DEF all
  <2> QED
    BY <1>3, <2>1
<1> HIDE DEF all, e, n, len
<1>4. PICK i \in 1 .. n : \E j \in 1 .. len(i) : k = e[i - 1] + j
  BY <1>1, <1>3
<1>5. PICK j \in 1 .. len(i) : k = e[i - 1] + j
  BY <1>4
<1>6. PICK h \in 1 .. n : \E m \in 1 .. len(h) : l = e[h - 1] + m
  BY <1>1, <1>3
<1>7. PICK m \in 1 .. len(h) : l = e[h - 1] + m
  BY <1>6
<1>8. all[k] = ss[i][j] /\ all[l] = ss[h][m]
  BY <1>1, <1>5, <1>7
<1>9. /\ i - 1 \in 0 .. n /\ h - 1 \in 0 .. n /\ i \in 0 .. n /\ h \in 0 .. n
      /\ e[i - 1] \in Nat /\ e[h - 1] \in Nat
      /\ e[i] = e[i - 1] + len(i) /\ e[h] = e[h - 1] + len(h)
      /\ len(i) \in Nat /\ len(h) \in Nat
  BY <1>2
<1>10. ~ (h < i)
  <2> SUFFICES ASSUME h < i PROVE FALSE
    OBVIOUS
  <2>1. h <= i - 1
    BY <1>2
  <2>2. e[h] <= e[i - 1]
    BY <1>2, <1>9, <2>1
  <2>3. e[h - 1] + m <= e[h]
    BY <1>9
  <2>4. j \in Nat /\ j > 0 /\ e[h] \in Nat
    BY <1>2, <1>9
  <2>5. e[i - 1] + j + 1 <= e[h]
    <3>3. l <= e[h]
      BY <1>7, <2>3
    <3>4. k + 1 <= e[h]
      BY <1>31, <2>4, <3>3
    <3> QED
      BY <1>5, <1>9, <3>4
  <2>6. e[i - 1] \in Nat
    BY <1>9
  <2> QED
    BY <2>2, <2>4, <2>5, <2>6
<1>11. i = h => j < m
  BY <1>5, <1>7, <1>9, SMTT(30)
<1>12. i = h \/ i < h
  BY <1>2, <1>10
<1> QED
  BY <1>8, <1>11, <1>12 DEF InFrontOf, all, n, len

=============================================================================
