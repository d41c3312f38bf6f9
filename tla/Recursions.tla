---------------------------- MODULE Recursions ----------------------------
(***************************************************************************)
(* Lemmas for the proofs about recursive definitions.  Induction is over a *)
(* set of natural numbers: a set that holds 0 and with a number the next.  *)
(***************************************************************************)
EXTENDS Integers, SequencesExt, SequenceTheorems, WellFoundedInduction, TLAPS

----------------------------------------------------------------------------
(* Sequences in a row.                                                     *)

Regroups(x, y, z) == (x \o y) \o z = x \o (y \o z)

LEMMA Regrouped ==
    ASSUME NEW S, NEW x \in Seq(S), NEW y \in Seq(S), NEW z \in Seq(S)
    PROVE  Regroups(x, y, z)
<1>1. (x \o y) \o z = x \o (y \o z)
  BY ConcatAssociative
<1>. QED  BY <1>1, Zenon DEF Regroups

LEMMA Joined ==
    ASSUME NEW S, NEW x \in Seq(S), NEW y \in Seq(S)
    PROVE  x \o y \in Seq(S)
BY ConcatProperties, Zenon

----------------------------------------------------------------------------
(* Induction.                                                              *)

\* Every set of natural numbers has a least element, so that a set that holds 0
\* and with a number the next holds all of them.
LEMMA LeastNatural ==
    ASSUME NEW S \in SUBSET Nat, S # {}
    PROVE  \E n \in S : \A m \in S : ~(m < n)
<1>. DEFINE R == OpToRel(<, Nat)
<1>1. IsWellFoundedOn(R, Nat)
  BY NatLessThanWellFounded, Zenon
<1>2. \A x, y \in Nat : x < y => <<x, y>> \in R
  BY Zenon DEF OpToRel
<1>. HIDE DEF R
<1>3. \E x \in S : \A y \in S : ~(<<y, x>> \in R)
  BY <1>1, WFMin, Zenon
<1>. QED  BY <1>2, <1>3

LEMMA InductiveSet ==
    ASSUME NEW S, 0 \in S, \A n \in Nat : n \in S => n + 1 \in S
    PROVE  Nat \subseteq S
<1>. DEFINE T == Nat \ S
<1>. SUFFICES ASSUME T # {}
              PROVE  FALSE
  OBVIOUS
<1>1. PICK n \in T : \A m \in T : ~(m < n)
  BY LeastNatural
<1>2. n # 0 /\ n - 1 \in Nat /\ n - 1 < n
  BY <1>1
<1>3. n - 1 \in S /\ (n - 1) + 1 = n
  BY <1>1, <1>2
<1>. QED  BY <1>1, <1>2, <1>3

\* A set that holds every number of 1 .. n that has all greater ones in it.
LEMMA Downward ==
    ASSUME NEW n \in Nat, NEW S,
           \A i \in 1 .. n : (\A j \in i + 1 .. n : j \in S) => i \in S
    PROVE  \A i \in 1 .. n : i \in S
<1>. DEFINE Good == {k \in Nat : \A i \in 1 .. n : i > n - k => i \in S}
<1>1. 0 \in Good
  OBVIOUS
<1>2. ASSUME NEW k \in Nat, k \in Good
      PROVE  k + 1 \in Good
  <2>. SUFFICES ASSUME NEW i \in 1 .. n, i > n - (k + 1)
                PROVE  i \in S
    OBVIOUS
  <2>1. \A j \in 1 .. n : j > n - k => j \in S
    BY <1>2
  <2>2. CASE i > n - k
    BY <2>1, <2>2
  <2>3. CASE ~(i > n - k)
    <3>1. \A j \in i + 1 .. n : j \in 1 .. n /\ j > n - k
      BY <2>3
    <3>2. \A j \in i + 1 .. n : j \in S
      BY <2>1, <3>1
    <3>. QED  BY <3>2
  <2>. QED  BY <2>2, <2>3
<1>. HIDE DEF Good
<1>3. n \in Good
  BY <1>1, <1>2, InductiveSet
<1>. QED  BY <1>3 DEF Good

\* A set that holds 0 and, below n, with a number the next.
LEMMA Upward ==
    ASSUME NEW n \in Nat, NEW S, 0 \in S,
           \A k \in 0 .. n - 1 : k \in S => k + 1 \in S
    PROVE  \A k \in 0 .. n : k \in S
<1>. DEFINE Good == {k \in Nat : k <= n => k \in S}
<1>1. 0 \in Good
  OBVIOUS
<1>2. ASSUME NEW k \in Nat, k \in Good
      PROVE  k + 1 \in Good
  <2>. SUFFICES ASSUME k + 1 <= n
                PROVE  k + 1 \in S
    OBVIOUS
  <2>1. k \in 0 .. n - 1 /\ k <= n
    OBVIOUS
  <2>. QED  BY <1>2, <2>1
<1>. HIDE DEF Good
<1>3. Nat \subseteq Good
  BY <1>1, <1>2, InductiveSet
<1>4. \A k \in 0 .. n : k \in Nat /\ k <= n
  OBVIOUS
<1>. QED  BY <1>3, <1>4 DEF Good

----------------------------------------------------------------------------
(* FlattenSeq.                                                             *)

\* The recursive function in FlattenSeq exists, and its last value is the result.
Flattens(g, ss) ==
    g = [i \in 1 .. Len(ss) |-> IF i = 1 THEN ss[i] ELSE g[i - 1] \o ss[i]]

LEMMA FlattenExists ==
    ASSUME NEW ss, Len(ss) \in Nat \ {0}
    PROVE  \E g : Flattens(g, ss)
<1>. DEFINE n == Len(ss)
            Part(g, k) == /\ g = [i \in 1 .. k |-> g[i]]
                          /\ \A i \in 1 .. k : g[i] = IF i = 1 THEN ss[i] ELSE g[i - 1] \o ss[i]
            Good == {k \in Nat : \E g : Part(g, k + 1)}
<1>1. 0 \in Good
  <2>1. Part([i \in 1 .. 1 |-> ss[1]], 0 + 1)
    OBVIOUS
  <2>. QED  BY <2>1
<1>2. ASSUME NEW k \in Nat, k \in Good
      PROVE  k + 1 \in Good
  <2>1. PICK g : Part(g, k + 1)
    BY <1>2
  <2>. DEFINE m == (k + 1) + 1
              h == [i \in 1 .. m |-> IF i = m THEN g[k + 1] \o ss[i] ELSE g[i]]
  <2>2. m = k + 2
    OBVIOUS
  <2>. HIDE DEF m
  <2>3. h = [i \in 1 .. m |-> h[i]]
    OBVIOUS
  <2>4. ASSUME NEW i \in 1 .. m
        PROVE  h[i] = IF i = 1 THEN ss[i] ELSE h[i - 1] \o ss[i]
    <3>1. CASE i = m
      <4>1. i # 1 /\ i - 1 = k + 1 /\ i - 1 \in 1 .. m /\ i - 1 # m
        BY <2>2, <3>1
      <4>. QED  BY <3>1, <4>1
    <3>2. CASE i # m
      <4>1. i \in 1 .. k + 1
        BY <2>2, <3>2
      <4>2. i # 1 => i - 1 \in 1 .. m /\ i - 1 # m
        BY <2>2, <4>1
      <4>3. g[i] = IF i = 1 THEN ss[i] ELSE g[i - 1] \o ss[i]
        BY <2>1, <4>1
      <4>. QED  BY <3>2, <4>2, <4>3
    <3>. QED  BY <3>1, <3>2
  <2>. HIDE DEF h
  <2>5. Part(h, m)
    BY <2>3, <2>4
  <2>. HIDE DEF Part
  <2>6. Part(h, (k + 1) + 1)
    BY <2>5 DEF m
  <2>. QED  BY <2>6
<1>3. n - 1 \in Good
  <2>. HIDE DEF Good
  <2>1. Nat \subseteq Good
    BY <1>1, <1>2, InductiveSet
  <2>. QED  BY <2>1
<1>4. PICK g : Part(g, (n - 1) + 1)
  BY <1>3
<1>5. (n - 1) + 1 = n
  OBVIOUS
<1>6. Flattens(g, ss)
  BY <1>4, <1>5 DEF Flattens
<1>. QED  BY <1>6

LEMMA FlattenIs ==
    ASSUME NEW ss, Len(ss) \in Nat \ {0}
    PROVE  \E g : Flattens(g, ss) /\ FlattenSeq(ss) = g[Len(ss)]
<1>. DEFINE g == CHOOSE f : Flattens(f, ss)
<1>1. Flattens(g, ss)
  BY FlattenExists
<1>2. FlattenSeq(ss) = g[Len(ss)]
  BY Zenon DEF FlattenSeq, Flattens
<1>. HIDE DEF g
<1>. QED  BY <1>1, <1>2

LEMMA FlattenType ==
    ASSUME NEW S, NEW ss \in Seq(Seq(S))
    PROVE  FlattenSeq(ss) \in Seq(S)
<1>. DEFINE n == Len(ss)
<1>1. n \in Nat /\ \A i \in 1 .. n : ss[i] \in Seq(S)
  OBVIOUS
<1>2. CASE n = 0
  <2>1. FlattenSeq(ss) = ss /\ ss = << >>
    BY <1>2 DEF FlattenSeq
  <2>. QED  BY <2>1
<1>3. CASE n # 0
  <2>1. PICK g : Flattens(g, ss) /\ FlattenSeq(ss) = g[n]
    BY <1>1, <1>3, FlattenIs
  <2>2. \A i \in 1 .. n : g[i] = IF i = 1 THEN ss[i] ELSE g[i - 1] \o ss[i]
    BY <2>1 DEF Flattens
  <2>. HIDE DEF n
  <2>. DEFINE Good == {k \in Nat : k + 1 \in 1 .. n => g[k + 1] \in Seq(S)}
  <2>3. 0 \in Good
    BY <1>1, <2>2
  <2>4. ASSUME NEW k \in 0 .. (n - 1) - 1, k \in Good
        PROVE  k + 1 \in Good
    <3>. DEFINE m == (k + 1) + 1
    <3>1. m \in 1 .. n /\ m # 1 /\ m - 1 = k + 1 /\ k + 1 \in 1 .. n
      BY <1>1
    <3>2. g[m] = g[k + 1] \o ss[m]
      BY <2>2, <3>1
    <3>3. g[k + 1] \in Seq(S) /\ ss[m] \in Seq(S)
      BY <1>1, <2>4, <3>1
    <3>4. g[m] \in Seq(S)
      BY <3>2, <3>3, ConcatProperties
    <3>. QED  BY <3>4
  <2>5. n - 1 \in Nat /\ n - 1 \in 0 .. n - 1 /\ (n - 1) + 1 = n /\ n \in 1 .. n
    BY <1>1, <1>3
  <2>. HIDE DEF Good
  <2>6. n - 1 \in Good
    BY <2>3, <2>4, <2>5, Upward
  <2>. QED  BY <2>1, <2>5, <2>6 DEF Good
<1>. QED  BY <1>2, <1>3

LEMMA FlattenAppend ==
    ASSUME NEW S, NEW ss \in Seq(Seq(S)), NEW b \in Seq(S)
    PROVE  FlattenSeq(Append(ss, b)) = FlattenSeq(ss) \o b
<1>. DEFINE n == Len(ss)
            t == Append(ss, b)
<1>1. /\ n \in Nat /\ t \in Seq(Seq(S)) /\ Len(t) = n + 1
      /\ t[n + 1] = b /\ \A i \in 1 .. n : t[i] = ss[i]
  BY AppendProperties
<1>. HIDE DEF n, t
<1>2. PICK h : Flattens(h, t) /\ FlattenSeq(t) = h[n + 1]
  BY <1>1, FlattenIs
<1>3. \A i \in 1 .. n + 1 : h[i] = IF i = 1 THEN t[i] ELSE h[i - 1] \o t[i]
  BY <1>1, <1>2 DEF Flattens
<1>4. CASE n = 0
  <2>1. h[1] = b
    BY <1>1, <1>3, <1>4
  <2>2. FlattenSeq(ss) = << >>
    <3>1. ss = << >>
      BY <1>4 DEF n
    <3>. QED  BY <1>4, <3>1 DEF n, FlattenSeq
  <2>3. << >> \o b = b
    BY ConcatEmptySeq
  <2>. QED  BY <1>2, <1>4, <2>1, <2>2, <2>3 DEF t
<1>5. CASE n # 0
  <2>1. PICK g : Flattens(g, ss) /\ FlattenSeq(ss) = g[n]
    BY <1>1, <1>5, FlattenIs DEF n
  <2>2. \A i \in 1 .. n : g[i] = IF i = 1 THEN ss[i] ELSE g[i - 1] \o ss[i]
    BY <2>1 DEF Flattens, n
  <2>. DEFINE Good == {k \in Nat : g[k + 1] = h[k + 1]}
  <2>3. 0 \in Good
    <3>1. 1 \in 1 .. n /\ 1 \in 1 .. n + 1
      BY <1>1, <1>5
    <3>2. g[1] = ss[1] /\ h[1] = t[1] /\ t[1] = ss[1]
      BY <1>1, <1>3, <2>2, <3>1
    <3>. QED  BY <3>2
  <2>4. ASSUME NEW k \in 0 .. (n - 1) - 1, k \in Good
        PROVE  k + 1 \in Good
    <3>. DEFINE m == (k + 1) + 1
    <3>1. m \in 1 .. n /\ m \in 1 .. n + 1 /\ m # 1 /\ m - 1 = k + 1
      BY <1>1
    <3>2. g[m] = g[k + 1] \o ss[m] /\ h[m] = h[k + 1] \o t[m] /\ t[m] = ss[m]
      BY <1>1, <1>3, <2>2, <3>1
    <3>3. g[k + 1] = h[k + 1] /\ k + 1 \in Nat
      BY <2>4
    <3>4. g[m] = h[m]
      BY <3>2, <3>3, Zenon
    <3>. QED  BY <3>3, <3>4
  <2>5. n - 1 \in Nat /\ n - 1 \in 0 .. n - 1 /\ (n - 1) + 1 = n
    BY <1>1, <1>5
  <2>. HIDE DEF Good
  <2>6. n - 1 \in Good
    BY <2>3, <2>4, <2>5, Upward
  <2>7. g[n] = h[n]
    BY <2>5, <2>6 DEF Good
  <2>8. n + 1 \in 1 .. n + 1 /\ n + 1 # 1 /\ (n + 1) - 1 = n
    BY <1>1, <1>5
  <2>9. h[n + 1] = h[n] \o b
    BY <1>1, <1>3, <2>8
  <2>. QED  BY <1>2, <2>1, <2>7, <2>9 DEF t
<1>. QED  BY <1>4, <1>5

\* The first k of the sequences, one after the other.
First(ss, k) == FlattenSeq(SubSeq(ss, 1, k))

LEMMA FirstFacts ==
    ASSUME NEW S, NEW ss \in Seq(Seq(S))
    PROVE  /\ \A k \in 0 .. Len(ss) : First(ss, k) \in Seq(S)
           /\ First(ss, 0) = << >> /\ First(ss, Len(ss)) = FlattenSeq(ss)
           /\ \A k \in 0 .. Len(ss) - 1 : First(ss, k + 1) = First(ss, k) \o ss[k + 1]
<1>. DEFINE n == Len(ss)
            to(k) == SubSeq(ss, 1, k)
<1>1. n \in Nat /\ \A i \in 1 .. n : ss[i] \in Seq(S)
  OBVIOUS
<1>2. ASSUME NEW k \in 0 .. n
      PROVE  to(k) \in Seq(Seq(S)) /\ Len(to(k)) = k /\ \A i \in 1 .. k : to(k)[i] = ss[i]
  <2>1. /\ SubSeq(ss, 1, k) \in Seq(Seq(S)) /\ Len(SubSeq(ss, 1, k)) = IF 1 <= k THEN k - 1 + 1 ELSE 0
        /\ \A i \in 1 .. k - 1 + 1 : SubSeq(ss, 1, k)[i] = ss[1 + i - 1]
    <3>1. \A i \in 1 .. k : ss[i] \in Seq(S)
      BY <1>1
    <3>. HIDE DEF n
    <3>2. k \in Int
      OBVIOUS
    <3>. QED  BY <3>1, <3>2, SubSeqProperties
  <2>. QED  BY <2>1
<1>3. ASSUME NEW k \in 0 .. n
      PROVE  First(ss, k) \in Seq(S)
  BY <1>2, FlattenType DEF First
<1>4. to(0) = << >>
  BY SubSeqEmpty
<1>5. First(ss, 0) = << >>
  BY <1>4 DEF First, FlattenSeq
<1>6. First(ss, n) = FlattenSeq(ss)
  BY SubSeqFull DEF First
<1>7. ASSUME NEW k \in 0 .. n - 1
      PROVE  First(ss, k + 1) = First(ss, k) \o ss[k + 1]
  <2>1. k + 1 \in 1 .. n /\ k + 1 \in 0 .. n /\ k \in 0 .. n
    BY <1>1
  <2>2. ss[k + 1] \in Seq(S)
    BY <1>1, <2>1
  <2>. DEFINE a == Append(to(k), ss[k + 1])
  <2>3. to(k) \in Seq(Seq(S)) /\ Len(to(k)) = k /\ \A i \in 1 .. k : to(k)[i] = ss[i]
    BY <1>2, <2>1
  <2>4. /\ to(k + 1) \in Seq(Seq(S)) /\ Len(to(k + 1)) = k + 1
        /\ \A i \in 1 .. k + 1 : to(k + 1)[i] = ss[i]
    BY <1>2, <2>1
  <2>. HIDE DEF to, n
  <2>5. /\ a \in Seq(Seq(S)) /\ Len(a) = k + 1 /\ a[k + 1] = ss[k + 1]
        /\ \A i \in 1 .. k : a[i] = to(k)[i]
    BY <2>2, <2>3, AppendProperties
  <2>. HIDE DEF a
  <2>6. \A i \in 1 .. k + 1 : to(k + 1)[i] = a[i]
    <3>1. \A i \in 1 .. k + 1 : i = k + 1 \/ i \in 1 .. k
      BY <2>1
    <3>. QED  BY <2>3, <2>4, <2>5, <3>1, Zenon
  <2>7. to(k + 1) = a
    BY <2>4, <2>5, <2>6, SeqEqual
  <2>8. FlattenSeq(a) = FlattenSeq(to(k)) \o ss[k + 1]
    BY <2>2, <2>3, FlattenAppend DEF a
  <2>. QED  BY <2>7, <2>8 DEF First, to
<1>. QED  BY <1>3, <1>5, <1>6, <1>7

\* What follows the first k.
LEMMA FirstThenRest ==
    ASSUME NEW S, NEW ss \in Seq(Seq(S)), NEW k \in 0 .. Len(ss)
    PROVE  \E t \in Seq(S) : FlattenSeq(ss) = First(ss, k) \o t
<1>. DEFINE n == Len(ss)
            Rests == {j \in Nat : \E t \in Seq(S) : First(ss, k + j) = First(ss, k) \o t}
<1>1. n \in Nat /\ k \in Nat /\ k <= n /\ n - k \in Nat /\ k + (n - k) = n
  OBVIOUS
<1>2. /\ \A j \in 0 .. n : First(ss, j) \in Seq(S)
      /\ \A j \in 0 .. n - 1 : First(ss, j + 1) = First(ss, j) \o ss[j + 1]
  BY FirstFacts
<1>3. \A i \in 1 .. n : ss[i] \in Seq(S)
  OBVIOUS
<1>4. FlattenSeq(ss) = First(ss, n)
  BY FirstFacts
<1>5. First(ss, k) \in Seq(S)
  BY <1>2
<1>. HIDE DEF n
<1>6. 0 \in Rests
  <2>1. First(ss, k) \o << >> = First(ss, k) /\ << >> \in Seq(S) /\ k + 0 = k
    BY <1>1, <1>5, ConcatEmptySeq
  <2>. QED  BY <2>1
<1>7. ASSUME NEW j \in 0 .. (n - k) - 1, j \in Rests
      PROVE  j + 1 \in Rests
  <2>1. PICK t \in Seq(S) : First(ss, k + j) = First(ss, k) \o t
    BY <1>7
  <2>. DEFINE b == ss[(k + j) + 1]
  <2>2. k + j \in 0 .. n - 1 /\ (k + j) + 1 \in 1 .. n /\ k + (j + 1) = (k + j) + 1
    BY <1>1
  <2>3. First(ss, k + (j + 1)) = First(ss, k + j) \o b /\ b \in Seq(S)
    BY <1>2, <1>3, <2>2
  <2>. DEFINE f == First(ss, k)
  <2>. HIDE DEF b
  <2>4. (f \o t) \o b = f \o (t \o b)
    <3>1. f \in Seq(S) /\ b \in Seq(S) /\ t \in Seq(S)
      BY <1>5, <2>3
    <3>. HIDE DEF f
    <3>2. Regroups(f, t, b)
      BY <3>1, Regrouped, Zenon
    <3>. QED  BY <3>2, Zenon DEF Regroups
  <2>5. t \o b \in Seq(S)
    BY <2>3, ConcatProperties
  <2>6. First(ss, k + (j + 1)) = First(ss, k) \o (t \o b)
    BY <2>1, <2>3, <2>4
  <2>7. j + 1 \in Nat
    OBVIOUS
  <2>. QED  BY <2>5, <2>6, <2>7
<1>. HIDE DEF Rests
<1>8. n - k \in 0 .. n - k
  BY <1>1
<1>9. n - k \in Rests
  BY <1>1, <1>6, <1>7, <1>8, Upward
<1>. QED  BY <1>1, <1>4, <1>9 DEF Rests

\* One more in front.
LEMMA InFront ==
    ASSUME NEW S, NEW x \in S, NEW r \in Seq(S)
    PROVE  /\ << x >> \o r \in Seq(S) /\ Len(<< x >> \o r) = Len(r) + 1
           /\ (<< x >> \o r)[1] = x
           /\ \A j \in 2 .. Len(r) + 1 : (<< x >> \o r)[j] = r[j - 1]
<1>. DEFINE a == << x >>
<1>1. a \in Seq(S) /\ Len(a) = 1 /\ a[1] = x
  OBVIOUS
<1>. HIDE DEF a
<1>2. /\ a \o r \in Seq(S) /\ Len(a \o r) = Len(a) + Len(r)
      /\ \A i \in 1 .. Len(a) + Len(r) : (a \o r)[i] = IF i <= Len(a) THEN a[i] ELSE r[i - Len(a)]
  BY <1>1, ConcatProperties
<1>3. Len(r) \in Nat
  BY LenProperties
<1>. DEFINE n == Len(r)
            ar == a \o r
<1>4. ar \in Seq(S) /\ Len(ar) = 1 + n /\ \A i \in 1 .. 1 + n : ar[i] = IF i <= 1 THEN a[i] ELSE r[i - 1]
  BY <1>1, <1>2
<1>. HIDE DEF n, ar
<1>5. ar \in Seq(S) /\ Len(ar) = n + 1 /\ ar[1] = x /\ \A j \in 2 .. n + 1 : ar[j] = r[j - 1]
  BY <1>1, <1>3, <1>4 DEF n
<1>. QED  BY <1>5 DEF n, ar, a
===========================================================================
