--------------------------- MODULE Framer_proofs ---------------------------
(***************************************************************************)
(* What holds of ZyreFramer for messages of any number of parts, bytes of  *)
(* any size, and pieces of any length: what was framed is decoded whole and*)
(* in order, and a part is read back if its length fits the size byte.     *)
(*                                                                         *)
(* What the recursive function in Parts computes is proved by induction    *)
(* over the positions in the buffer.                                       *)
(***************************************************************************)
EXTENDS Framer, Recursions

----------------------------------------------------------------------------
(* decode().                                                               *)

LEMMA ByteFacts ==
    /\ ByteMax \in Nat /\ \A b \in Byte : b \in Nat /\ b <= ByteMax
    /\ \A n \in Nat : SizeByte(n) \in Byte /\ (n <= ByteMax => SizeByte(n) = n)
    /\ 0 \in Byte /\ 1 \in Byte
<1>1. ByteMax \in Nat /\ ByteMax >= 1
  BY FramerAssumption
<1>2. ASSUME NEW n \in Nat
      PROVE  n % (ByteMax + 1) \in 0 .. ByteMax /\ (n <= ByteMax => n % (ByteMax + 1) = n)
  <2>. DEFINE m == ByteMax + 1
  <2>1. m \in Nat \ {0} /\ m = ByteMax + 1
    BY <1>1
  <2>. HIDE DEF m
  <2>2. n % m \in 0 .. m - 1 /\ (n < m => n % m = n)
    BY <2>1
  <2>3. n % m \in 0 .. ByteMax /\ (n <= ByteMax => n % m = n)
    BY <1>1, <2>1, <2>2
  <2>. QED  BY <2>3 DEF m
<1>. QED  BY <1>1, <1>2 DEF Byte, SizeByte

\* One turn of the loop: the part at position i, and what is behind it.
PartAt(data, i) == SubSeq(data, i + 2, i + 1 + data[i + 1])

Behind(data, from, i) ==
    IF i + 2 + data[i + 1] > Len(data) + 1 THEN NoParse
    ELSE IF data[i] % 2 = 0
      THEN [ok |-> TRUE, parts |-> << >>, next |-> i + 2 + data[i + 1]]
      ELSE from[i + 2 + data[i + 1]]

With(rest, part) ==
    IF ~rest.ok THEN NoParse ELSE [rest EXCEPT !.parts = << part >> \o @]

Step(data, from, i) ==
    IF i + 1 > Len(data) THEN [ok |-> TRUE, parts |-> << >>, next |-> i]
    ELSE With(Behind(data, from, i), PartAt(data, i))

Decodes(from, data) == from = [i \in 1 .. Len(data) + 1 |-> Step(data, from, i)]

\* It goes on behind the part.
LEMMA StepGoesOn ==
    ASSUME NEW data \in Seq(Byte), NEW i \in 1 .. Len(data) + 1, NEW g, NEW h,
           \A j \in i + 1 .. Len(data) + 1 : g[j] = h[j]
    PROVE  Step(data, g, i) = Step(data, h, i)
<1>. DEFINE n == Len(data)
<1>1. n \in Nat /\ \A j \in 1 .. n : data[j] \in Nat
  BY ByteFacts
<1>2. CASE i + 1 > n
  BY <1>2 DEF Step
<1>3. CASE ~(i + 1 > n)
  <2>. DEFINE s == data[i + 1]
  <2>1. s \in Nat
    BY <1>1, <1>3
  <2>2. CASE i + 2 + s > n + 1
    BY <2>2 DEF Step, Behind
  <2>3. CASE ~(i + 2 + s > n + 1)
    <3>1. i + 2 + s \in i + 1 .. n + 1
      BY <1>1, <2>1, <2>3
    <3>2. g[i + 2 + s] = h[i + 2 + s]
      BY <3>1
    <3>3. Behind(data, g, i) = Behind(data, h, i)
      BY <3>2 DEF Behind
    <3>. QED  BY <3>3 DEF Step
  <2>. QED  BY <2>2, <2>3
<1>. QED  BY <1>2, <1>3

LEMMA DecodeExists ==
    ASSUME NEW data \in Seq(Byte)
    PROVE  \E f : Decodes(f, data)
<1>. DEFINE n == Len(data) + 1
            Fits(g, i) == \A j \in i .. n : g[j] = Step(data, g, j)
            Good == {i \in 1 .. n : \E g : Fits(g, i)}
<1>1. n \in Nat /\ n >= 1 /\ Len(data) \in Nat /\ n = Len(data) + 1
  OBVIOUS
<1>. HIDE DEF n
<1>2. ASSUME NEW i \in 1 .. n, \A j \in i + 1 .. n : j \in Good
      PROVE  i \in Good
  <2>1. PICK g : i < n => Fits(g, i + 1)
    <3>1. CASE i < n
      <4>1. i + 1 \in i + 1 .. n
        BY <1>1, <3>1
      <4>2. i + 1 \in Good
        BY <1>2, <4>1
      <4>. QED  BY <4>2
    <3>. QED  BY <3>1
  <2>. DEFINE h == [j \in i .. n |-> IF j = i THEN Step(data, g, i) ELSE g[j]]
  <2>2. h[i] = Step(data, g, i) /\ \A j \in i + 1 .. n : h[j] = g[j]
    BY <1>1
  <2>. HIDE DEF h
  <2>3. ASSUME NEW j \in i .. n
        PROVE  Step(data, g, j) = Step(data, h, j)
    <3>1. j \in 1 .. Len(data) + 1
      BY <1>1
    <3>2. \A m \in j + 1 .. Len(data) + 1 : m \in i + 1 .. n
      BY <1>1
    <3>3. \A m \in j + 1 .. Len(data) + 1 : g[m] = h[m]
      BY <2>2, <3>2
    <3>. QED  BY <3>1, <3>3, StepGoesOn
  <2>4. ASSUME NEW j \in i .. n
        PROVE  h[j] = Step(data, h, j)
    <3>1. CASE j = i
      BY <2>2, <2>3, <3>1
    <3>2. CASE j # i
      <4>1. j \in i + 1 .. n /\ i < n
        BY <1>1, <3>2
      <4>2. g[j] = Step(data, g, j)
        BY <2>1, <4>1
      <4>. QED  BY <2>2, <2>3, <4>1, <4>2
    <3>. QED  BY <3>1, <3>2
  <2>5. Fits(h, i)
    BY <2>4
  <2>. QED  BY <2>5
<1>3. 1 \in Good
  <2>. HIDE DEF Good
  <2>1. \A i \in 1 .. n : i \in Good
    BY <1>1, <1>2, Downward
  <2>2. 1 \in 1 .. n
    BY <1>1
  <2>. QED  BY <2>1, <2>2
<1>4. PICK g : Fits(g, 1)
  BY <1>3
<1>. DEFINE f == [i \in 1 .. n |-> g[i]]
<1>5. \A i \in 1 .. n : f[i] = g[i]
  OBVIOUS
<1>6. f = [i \in 1 .. n |-> f[i]]
  OBVIOUS
<1>. HIDE DEF f
<1>7. ASSUME NEW i \in 1 .. n
      PROVE  f[i] = Step(data, f, i)
  <2>1. i \in 1 .. Len(data) + 1 /\ \A j \in i + 1 .. Len(data) + 1 : j \in 1 .. n
    BY <1>1
  <2>2. \A j \in i + 1 .. Len(data) + 1 : g[j] = f[j]
    BY <1>5, <2>1
  <2>3. Step(data, g, i) = Step(data, f, i)
    BY <2>1, <2>2, StepGoesOn
  <2>. QED  BY <1>4, <1>5, <2>3
<1>8. f = [i \in 1 .. n |-> Step(data, f, i)]
  BY <1>6, <1>7
<1>. QED  BY <1>8 DEF Decodes, n

LEMMA PartsIs ==
    ASSUME NEW data \in Seq(Byte)
    PROVE  \E f : Parts(data) = f[1] /\ \A i \in 1 .. Len(data) + 1 : f[i] = Step(data, f, i)
<1>. DEFINE f == CHOOSE g : Decodes(g, data)
<1>1. Decodes(f, data)
  BY DecodeExists
<1>2. Parts(data) = f[1]
  BY Zenon DEF Parts, Decodes, Step, Behind, With, PartAt
<1>. HIDE DEF f
<1>3. \A i \in 1 .. Len(data) + 1 : f[i] = Step(data, f, i)
  BY <1>1 DEF Decodes
<1>. QED  BY <1>2, <1>3

Result == [ok : BOOLEAN, parts : Seq(Seq(Byte)), next : Nat]

\* The record that With returns.
LEMMA WithFacts ==
    ASSUME NEW rest \in Result, NEW part \in Seq(Byte)
    PROVE  /\ With(rest, part) \in Result
           /\ With(rest, part).ok = rest.ok
           /\ rest.ok => /\ With(rest, part).next = rest.next
                         /\ With(rest, part).parts = << part >> \o rest.parts
<1>1. rest.parts \in Seq(Seq(Byte)) /\ rest.next \in Nat /\ rest.ok \in BOOLEAN
  BY DEF Result
<1>2. << part >> \in Seq(Seq(Byte))
  OBVIOUS
<1>. DEFINE r == rest.parts
            q == << part >> \o r
            w == [rest EXCEPT !.parts = q]
<1>3. q \in Seq(Seq(Byte))
  <2>1. r \in Seq(Seq(Byte))
    BY <1>1
  <2>. HIDE DEF r
  <2>. QED  BY <1>2, <2>1, ConcatProperties
<1>4. With(rest, part) = IF ~rest.ok THEN NoParse ELSE w
  BY DEF With
<1>. HIDE DEF q
<1>5. w \in Result /\ w.ok = rest.ok /\ w.next = rest.next /\ w.parts = q
  BY <1>3 DEF Result
<1>6. NoParse \in Result /\ NoParse.ok = FALSE
  BY DEF NoParse, Result
<1>. HIDE DEF w
<1>7. CASE rest.ok
  BY <1>4, <1>5, <1>7 DEF q
<1>8. CASE ~rest.ok
  <2>1. rest.ok = FALSE
    BY <1>1, <1>8
  <2>. QED  BY <1>4, <1>6, <1>8, <2>1
<1>. QED  BY <1>7, <1>8

\* The bytes of a part are those its size byte says.
LEMMA PartAtFacts ==
    ASSUME NEW data \in Seq(Byte), NEW i \in 1 .. Len(data) + 1,
           i + 1 <= Len(data), i + 2 + data[i + 1] <= Len(data) + 1
    PROVE  /\ data[i + 1] \in Byte
           /\ PartAt(data, i) \in Seq(Byte) /\ Len(PartAt(data, i)) = data[i + 1]
           /\ \A j \in 1 .. data[i + 1] : PartAt(data, i)[j] = data[i + 1 + j]
<1>. DEFINE n == Len(data)
            s == data[i + 1]
<1>1. n \in Nat /\ \A j \in 1 .. n : data[j] \in Byte
  OBVIOUS
<1>2. i + 1 \in 1 .. n
  BY <1>1
<1>3. s \in Byte /\ s \in Nat /\ i + 2 + s <= n + 1 /\ i \in Nat
  <2>1. s \in Byte
    BY <1>1, <1>2
  <2>2. s \in Nat
    BY <2>1, ByteFacts
  <2>3. i \in Nat
    BY <1>1
  <2>. QED  BY <2>1, <2>2, <2>3
<1>. HIDE DEF s, n
<1>. DEFINE lo == i + 2
            hi == i + 1 + s
<1>4. lo \in Int /\ hi \in Int /\ \A j \in lo .. hi : data[j] \in Byte
  BY <1>1, <1>3
<1>5. hi - lo + 1 = s /\ (IF lo <= hi THEN hi - lo + 1 ELSE 0) = s
  BY <1>3
<1>6. \A j \in 1 .. s : lo + j - 1 = i + 1 + j
  BY <1>3
<1>. HIDE DEF lo, hi
<1>7. /\ SubSeq(data, lo, hi) \in Seq(Byte)
      /\ Len(SubSeq(data, lo, hi)) = IF lo <= hi THEN hi - lo + 1 ELSE 0
      /\ \A j \in 1 .. hi - lo + 1 : SubSeq(data, lo, hi)[j] = data[lo + j - 1]
  BY <1>4, SubSeqProperties
<1>8. PartAt(data, i) = SubSeq(data, lo, hi)
  BY DEF PartAt, lo, hi, s
<1>. QED  BY <1>3, <1>5, <1>6, <1>7, <1>8 DEF s

\* What the loop has found from position i on, of n: parts that a size byte can
\* say, and the end of them.
Short(parts) == \A j \in DOMAIN parts : Len(parts[j]) <= ByteMax

Found(r, i, n) ==
    /\ r \in Result
    /\ r.ok => /\ r.next \in i .. n /\ (r.parts # << >> => r.next > i)
               /\ Short(r.parts)

LEMMA FoundInFront ==
    ASSUME NEW rest \in Result, NEW part \in Seq(Byte), Len(part) <= ByteMax,
           NEW i \in Nat, NEW n \in Nat,
           rest.ok => rest.next \in i + 1 .. n /\ Short(rest.parts)
    PROVE  Found(With(rest, part), i, n)
<1>. DEFINE w == With(rest, part)
            r == rest.parts
            q == << part >> \o r
<1>1. w \in Result /\ w.ok = rest.ok /\ (rest.ok => w.next = rest.next /\ w.parts = q)
  BY WithFacts
<1>. HIDE DEF w
<1>2. ASSUME rest.ok
      PROVE  /\ w.next \in i .. n /\ (w.parts # << >> => w.next > i)
             /\ Short(w.parts)
  <2>1. w.next = rest.next /\ w.parts = q /\ rest.next \in i + 1 .. n /\ Short(r)
    BY <1>1, <1>2
  <2>2. w.next \in i .. n /\ w.next > i
    BY <2>1
  <2>3. r \in Seq(Seq(Byte))
    BY DEF Result
  <2>. HIDE DEF r
  <2>4. /\ q \in Seq(Seq(Byte)) /\ Len(q) = Len(r) + 1
        /\ q[1] = part /\ \A j \in 2 .. Len(r) + 1 : q[j] = r[j - 1]
    BY <2>3, InFront
  <2>. HIDE DEF q
  <2>5. Len(r) \in Nat /\ DOMAIN r = 1 .. Len(r) /\ DOMAIN q = 1 .. Len(q)
    BY <2>3, <2>4, LenProperties
  <2>6. ASSUME NEW j \in DOMAIN q
        PROVE  Len(q[j]) <= ByteMax
    <3>1. CASE j = 1
      BY <2>4, <3>1
    <3>2. CASE j # 1
      <4>1. j \in 2 .. Len(r) + 1 /\ j - 1 \in DOMAIN r
        BY <2>4, <2>5, <3>2
      <4>2. Len(r[j - 1]) <= ByteMax
        BY <2>1, <4>1 DEF Short
      <4>. QED  BY <2>4, <4>1, <4>2
    <3>. QED  BY <3>1, <3>2
  <2>. QED  BY <2>1, <2>2, <2>6 DEF Short
<1>3. w.ok => rest.ok
  BY <1>1
<1>4. Found(w, i, n)
  BY <1>1, <1>2, <1>3 DEF Found
<1>. QED  BY <1>4 DEF w

LEMMA AllFound ==
    ASSUME NEW data \in Seq(Byte), NEW f,
           \A i \in 1 .. Len(data) + 1 : f[i] = Step(data, f, i)
    PROVE  \A i \in 1 .. Len(data) + 1 : Found(f[i], i, Len(data) + 1)
<1>. DEFINE l == Len(data)
            n == l + 1
            Good == {i \in 1 .. n : Found(f[i], i, n)}
<1>1. l \in Nat /\ n = l + 1 /\ n \in Nat /\ \A j \in 1 .. l : data[j] \in Byte
  OBVIOUS
<1>. HIDE DEF n
<1>2. ASSUME NEW i \in 1 .. n, \A j \in i + 1 .. n : j \in Good
      PROVE  i \in Good
  <2>1. f[i] = Step(data, f, i) /\ i \in Nat
    BY <1>1
  <2>2. CASE i + 1 > l
    <3>1. f[i] = [ok |-> TRUE, parts |-> << >>, next |-> i]
      BY <2>1, <2>2 DEF Step
    <3>2. f[i] \in Result /\ f[i].ok /\ f[i].next = i /\ f[i].parts = << >>
      BY <2>1, <3>1 DEF Result
    <3>3. i \in i .. n
      BY <1>1
    <3>4. Short(<< >>)
      BY DEF Short
    <3>. QED  BY <3>2, <3>3, <3>4 DEF Found
  <2>3. CASE ~(i + 1 > l)
    <3>. DEFINE s == data[i + 1]
                rest == Behind(data, f, i)
                part == PartAt(data, i)
    <3>1. i + 1 \in 1 .. l /\ i + 1 <= l
      BY <1>1, <2>3
    <3>2. s \in Byte /\ s \in Nat /\ s <= ByteMax
      BY <1>1, <3>1, ByteFacts
    <3>3. f[i] = With(rest, part)
      BY <2>1, <2>3 DEF Step
    <3>4. CASE i + 2 + s > l + 1
      <4>1. rest = NoParse
        BY <3>4 DEF Behind
      <4>2. f[i] = NoParse
        BY <3>3, <4>1 DEF With, NoParse
      <4>3. NoParse \in Result /\ NoParse.ok = FALSE
        BY DEF NoParse, Result
      <4>4. Found(f[i], i, n)
        BY <4>2, <4>3 DEF Found
      <4>. QED  BY <4>4
    <3>5. CASE ~(i + 2 + s > l + 1)
      <4>1. i + 2 + s <= l + 1 /\ i + 2 + s \in i + 1 .. n /\ i + 2 + s \in Nat
        BY <1>1, <3>2, <3>5
      <4>2. part \in Seq(Byte) /\ Len(part) <= ByteMax
        BY <1>1, <3>1, <3>2, <4>1, PartAtFacts
      <4>3. rest \in Result /\ (rest.ok => rest.next \in i + 1 .. n /\ Short(rest.parts))
        <5>1. CASE data[i] % 2 = 0
          <6>1. rest = [ok |-> TRUE, parts |-> << >>, next |-> i + 2 + s]
            BY <3>5, <5>1 DEF Behind
          <6>2. Short(<< >>)
            BY DEF Short
          <6>. HIDE DEF rest, s
          <6>3. rest \in Result /\ rest.next = i + 2 + s /\ rest.parts = << >>
            BY <4>1, <6>1 DEF Result
          <6>. QED  BY <4>1, <6>2, <6>3
        <5>2. CASE data[i] % 2 # 0
          <6>. DEFINE j == i + 2 + s
          <6>1. rest = f[j]
            BY <3>5, <5>2 DEF Behind
          <6>2. Found(f[j], j, n)
            BY <1>2, <4>1
          <6>3. \A m \in j .. n : m \in i + 1 .. n
            BY <1>1, <4>1
          <6>. HIDE DEF j, rest
          <6>. QED  BY <6>1, <6>2, <6>3 DEF Found
        <5>. QED  BY <5>1, <5>2
      <4>. HIDE DEF rest, part
      <4>4. Found(With(rest, part), i, n)
        BY <1>1, <2>1, <4>2, <4>3, FoundInFront
      <4>. QED  BY <3>3, <4>4
    <3>. QED  BY <3>4, <3>5
  <2>. QED  BY <2>2, <2>3
<1>. HIDE DEF Good
<1>3. \A i \in 1 .. n : i \in Good
  BY <1>1, <1>2, Downward
<1>. QED  BY <1>3 DEF Good, n

LEMMA PartsFound ==
    ASSUME NEW data \in Seq(Byte)
    PROVE  Found(Parts(data), 1, Len(data) + 1)
<1>1. PICK f : Parts(data) = f[1] /\ \A i \in 1 .. Len(data) + 1 : f[i] = Step(data, f, i)
  BY PartsIs
<1>2. \A i \in 1 .. Len(data) + 1 : Found(f[i], i, Len(data) + 1)
  BY <1>1, AllFound
<1>3. 1 \in 1 .. Len(data) + 1
  OBVIOUS
<1>. QED  BY <1>1, <1>2, <1>3

----------------------------------------------------------------------------
(* encode(), and what decode() makes of it.                                *)

More(msg, i) == IF i < Len(msg) THEN 1 ELSE 0

Framed(msg, i) == << More(msg, i), SizeByte(Len(msg[i])) >> \o msg[i]

FramedParts(msg) == [i \in DOMAIN msg |-> Framed(msg, i)]

\* The bytes of the first k parts.
At(msg, k) == Len(First(FramedParts(msg), k))

LEMMA FramedFacts ==
    ASSUME NEW msg \in Seq(Seq(Byte)), NEW i \in 1 .. Len(msg)
    PROVE  /\ Framed(msg, i) \in Seq(Byte) /\ Len(Framed(msg, i)) = 2 + Len(msg[i])
           /\ Framed(msg, i)[1] = More(msg, i) /\ Framed(msg, i)[2] = SizeByte(Len(msg[i]))
           /\ \A j \in 1 .. Len(msg[i]) : Framed(msg, i)[2 + j] = msg[i][j]
<1>. DEFINE p == msg[i]
            s == SizeByte(Len(p))
            m == More(msg, i)
            a == << m, s >>
<1>1. p \in Seq(Byte)
  OBVIOUS
<1>. HIDE DEF p
<1>2. Len(p) \in Nat
  BY <1>1, LenProperties
<1>3. m \in Byte /\ s \in Byte
  BY <1>2, ByteFacts DEF More
<1>. HIDE DEF m, s
<1>4. a \in Seq(Byte) /\ Len(a) = 2 /\ a[1] = m /\ a[2] = s
  BY <1>3
<1>. HIDE DEF a
<1>. DEFINE n == Len(p)
            b == a \o p
<1>5. /\ b \in Seq(Byte) /\ Len(b) = Len(a) + n
      /\ \A j \in 1 .. Len(a) + n : b[j] = IF j <= Len(a) THEN a[j] ELSE p[j - Len(a)]
  BY <1>1, <1>4, ConcatProperties
<1>. HIDE DEF n, b
<1>6. /\ b \in Seq(Byte) /\ Len(b) = 2 + n /\ n \in Nat
      /\ \A j \in 1 .. 2 + n : b[j] = IF j <= 2 THEN a[j] ELSE p[j - 2]
  BY <1>2, <1>4, <1>5 DEF n
<1>7. b[1] = m /\ b[2] = s
  BY <1>4, <1>6
<1>8. ASSUME NEW j \in 1 .. n
      PROVE  b[2 + j] = p[j]
  <2>1. 2 + j \in 1 .. 2 + n /\ ~(2 + j <= 2) /\ (2 + j) - 2 = j
    BY <1>6
  <2>. QED  BY <1>6, <2>1
<1>9. Framed(msg, i) = b
  BY DEF Framed, b, a, m, s, p
<1>. QED  BY <1>6, <1>7, <1>8, <1>9 DEF n, m, s, p

LEMMA FramedPartsType ==
    ASSUME NEW msg \in Seq(Seq(Byte))
    PROVE  /\ FramedParts(msg) \in Seq(Seq(Byte)) /\ Len(FramedParts(msg)) = Len(msg)
           /\ \A i \in 1 .. Len(msg) : FramedParts(msg)[i] = Framed(msg, i)
           /\ Encoded(msg) = FlattenSeq(FramedParts(msg))
<1>. DEFINE n == Len(msg)
            b(i) == Framed(msg, i)
            bs == [i \in 1 .. n |-> b(i)]
<1>1. n \in Nat /\ DOMAIN msg = 1 .. n
  BY LenProperties
<1>2. \A i \in 1 .. n : b(i) \in Seq(Byte)
  BY FramedFacts
<1>3. FramedParts(msg) = bs
  BY <1>1 DEF FramedParts
<1>4. Encoded(msg) = FlattenSeq(FramedParts(msg))
  BY DEF Encoded, FramedParts, Framed, More
<1>. HIDE DEF n, b
<1>5. bs \in Seq(Seq(Byte)) /\ Len(bs) = n /\ \A i \in 1 .. n : bs[i] = b(i)
  BY <1>1, <1>2
<1>. QED  BY <1>3, <1>4, <1>5 DEF n, b

LEMMA FrameFacts ==
    ASSUME NEW msg \in Seq(Seq(Byte))
    PROVE  /\ Encoded(msg) \in Seq(Byte) /\ Len(Encoded(msg)) \in Nat
           /\ At(msg, 0) = 0 /\ At(msg, Len(msg)) = Len(Encoded(msg))
           /\ \A k \in 0 .. Len(msg) : At(msg, k) \in Nat
<1>. DEFINE ss == FramedParts(msg)
<1>1. ss \in Seq(Seq(Byte)) /\ Len(ss) = Len(msg) /\ Encoded(msg) = FlattenSeq(ss)
  BY FramedPartsType
<1>. HIDE DEF ss
<1>2. /\ \A k \in 0 .. Len(ss) : First(ss, k) \in Seq(Byte)
      /\ First(ss, 0) = << >> /\ First(ss, Len(ss)) = FlattenSeq(ss)
  BY <1>1, FirstFacts
<1>3. FlattenSeq(ss) \in Seq(Byte)
  BY <1>1, FlattenType
<1>4. \A k \in 0 .. Len(msg) : Len(First(ss, k)) \in Nat
  BY <1>1, <1>2, LenProperties
<1>5. Len(First(ss, 0)) = 0
  BY <1>2
<1>6. Len(FlattenSeq(ss)) \in Nat
  BY <1>3, LenProperties
<1>. QED  BY <1>1, <1>2, <1>3, <1>4, <1>5, <1>6 DEF At, ss

\* Where the next part stands in the frame.
LEMMA PartInFrame ==
    ASSUME NEW msg \in Seq(Seq(Byte)), NEW k \in 0 .. Len(msg) - 1
    PROVE  LET e == Encoded(msg)
               o == At(msg, k)
               s == Len(msg[k + 1])
           IN  /\ s \in Nat /\ At(msg, k + 1) = o + 2 + s /\ o + 2 + s <= Len(e)
               /\ e[o + 1] = More(msg, k + 1) /\ e[o + 2] = SizeByte(s)
               /\ \A j \in 1 .. s : e[o + 2 + j] = msg[k + 1][j]
<1>. DEFINE ss == FramedParts(msg)
            e == Encoded(msg)
            o == At(msg, k)
            s == Len(msg[k + 1])
            b == Framed(msg, k + 1)
            f == First(ss, k)
<1>1. k \in 0 .. Len(msg) /\ k + 1 \in 1 .. Len(msg) /\ k + 1 \in 0 .. Len(msg)
  OBVIOUS
<1>2. /\ b \in Seq(Byte) /\ Len(b) = 2 + s
      /\ b[1] = More(msg, k + 1) /\ b[2] = SizeByte(s)
      /\ \A j \in 1 .. s : b[2 + j] = msg[k + 1][j]
  BY <1>1, FramedFacts
<1>3. s \in Nat
  <2>1. msg[k + 1] \in Seq(Byte)
    BY <1>1
  <2>. QED  BY <2>1, LenProperties
<1>4. ss \in Seq(Seq(Byte)) /\ Len(ss) = Len(msg) /\ ss[k + 1] = b /\ e = FlattenSeq(ss)
  BY <1>1, FramedPartsType
<1>. HIDE DEF ss, b, e, s
<1>5. f \in Seq(Byte) /\ First(ss, k + 1) = f \o b
  BY <1>1, <1>4, FirstFacts
<1>6. PICK t \in Seq(Byte) : e = First(ss, k + 1) \o t
  <2>1. k + 1 \in 0 .. Len(ss) /\ ss \in Seq(Seq(Byte))
    BY <1>1, <1>4
  <2>2. \E t \in Seq(Byte) : FlattenSeq(ss) = First(ss, k + 1) \o t
    BY <2>1, FirstThenRest, Zenon
  <2>. QED  BY <1>4, <2>2
<1>7. o = Len(f)
  BY DEF At, ss
<1>8. At(msg, k + 1) = Len(f \o b)
  BY <1>5 DEF At, ss
<1>. HIDE DEF f, o
<1>9. f \in Seq(Byte) /\ b \in Seq(Byte) /\ t \in Seq(Byte) /\ e = (f \o b) \o t
  BY <1>2, <1>5, <1>6
<1>. DEFINE fb == f \o b
<1>10. /\ fb \in Seq(Byte) /\ Len(fb) = Len(f) + Len(b)
       /\ \A i \in 1 .. Len(f) + Len(b) : fb[i] = IF i <= Len(f) THEN f[i] ELSE b[i - Len(f)]
  BY <1>9, ConcatProperties
<1>. HIDE DEF fb
<1>11. /\ Len(fb \o t) = Len(fb) + Len(t)
       /\ \A i \in 1 .. Len(fb) + Len(t) : (fb \o t)[i] = IF i <= Len(fb) THEN fb[i] ELSE t[i - Len(fb)]
  <2>1. fb \in Seq(Byte) /\ t \in Seq(Byte)
    BY <1>9, <1>10
  <2>. QED  BY <2>1, ConcatProperties
<1>12. Len(t) \in Nat /\ Len(f) \in Nat
  BY <1>9, LenProperties
<1>. DEFINE l == Len(t)
            q == Len(fb)
            z == Len(e)
<1>13. /\ z = q + l /\ l \in Nat /\ q = o + (2 + s) /\ o \in Nat
       /\ \A i \in 1 .. q + l : e[i] = IF i <= q THEN fb[i] ELSE t[i - q]
       /\ \A i \in 1 .. q : fb[i] = IF i <= o THEN f[i] ELSE b[i - o]
  BY <1>2, <1>7, <1>9, <1>10, <1>11, <1>12 DEF fb
<1>14. At(msg, k + 1) = q
  BY <1>8 DEF fb
<1>. HIDE DEF l, q, z
<1>15. ASSUME NEW j \in 1 .. 2 + s
       PROVE  e[o + j] = b[j]
  <2>1. o + j \in 1 .. q /\ o + j \in 1 .. q + l /\ o + j <= q /\ ~(o + j <= o) /\ (o + j) - o = j
    BY <1>3, <1>13
  <2>. QED  BY <1>13, <2>1
<1>16. e[o + 1] = b[1] /\ e[o + 2] = b[2]
  BY <1>3, <1>15
<1>17. ASSUME NEW j \in 1 .. s
       PROVE  e[o + 2 + j] = msg[k + 1][j]
  <2>1. 2 + j \in 1 .. 2 + s /\ o + (2 + j) = o + 2 + j
    BY <1>3, <1>13
  <2>2. b[2 + j] = msg[k + 1][j]
    BY <1>2
  <2>. QED  BY <1>15, <2>1, <2>2
<1>18. At(msg, k + 1) = o + 2 + s /\ o + 2 + s <= z
  BY <1>3, <1>13, <1>14
<1>. QED  BY <1>2, <1>3, <1>16, <1>17, <1>18 DEF e, o, s, z

LEMMA WithOk ==
    ASSUME NEW q, NEW m, NEW part
    PROVE  With([ok |-> TRUE, parts |-> q, next |-> m], part)
              = [ok |-> TRUE, parts |-> << part >> \o q, next |-> m]
BY DEF With

\* What the loop meets where the next part stands, in data that is the frame, or
\* begins with it, or is the beginning of it.
Agrees(data, e) == \A i \in 1 .. Len(data) : i <= Len(e) => data[i] = e[i]

Meets(msg, k, data, i) ==
    /\ i \in 1 .. Len(data) + 1 /\ i + 1 <= Len(data)
    /\ data[i] = More(msg, k + 1) /\ data[i + 1] = Len(msg[k + 1])
    /\ i + 2 + data[i + 1] = At(msg, k + 1) + 1
    /\ At(msg, k + 1) <= Len(data) => PartAt(data, i) = msg[k + 1]

LEMMA TurnInFrame ==
    ASSUME NEW msg \in Seq(Seq(Byte)), Short(msg), NEW k \in 0 .. Len(msg) - 1,
           NEW data \in Seq(Byte), Agrees(data, Encoded(msg)),
           At(msg, k) + 2 <= Len(data)
    PROVE  Meets(msg, k, data, At(msg, k) + 1)
<1>. DEFINE e == Encoded(msg)
            o == At(msg, k)
            i == o + 1
            p == msg[k + 1]
            s == Len(p)
            z == Len(data)
            o1 == At(msg, k + 1)
<1>1. k \in 0 .. Len(msg) /\ k + 1 \in 1 .. Len(msg)
  OBVIOUS
<1>2. o \in Nat /\ Len(e) \in Nat
  BY <1>1, FrameFacts
<1>3. /\ s \in Nat /\ o1 = o + 2 + s /\ o + 2 + s <= Len(e)
      /\ e[o + 1] = More(msg, k + 1) /\ e[o + 2] = SizeByte(s)
      /\ \A j \in 1 .. s : e[o + 2 + j] = p[j]
  BY PartInFrame
<1>4. p \in Seq(Byte) /\ s <= ByteMax
  <2>1. DOMAIN msg = 1 .. Len(msg)
    BY LenProperties
  <2>2. Len(p) <= ByteMax
    BY <1>1, <2>1 DEF Short
  <2>3. p \in Seq(Byte)
    BY <1>1, <2>1
  <2>. QED  BY <2>2, <2>3
<1>5. z \in Nat /\ o + 2 <= z /\ \A j \in 1 .. z : j <= Len(e) => data[j] = e[j]
  BY LenProperties DEF Agrees
<1>6. SizeByte(s) = s
  BY <1>3, <1>4, ByteFacts
<1>. HIDE DEF o, p, s, z, o1, e
<1>7. o + 1 \in 1 .. z /\ o + 2 \in 1 .. z /\ o + 1 <= Len(e) /\ o + 2 <= Len(e)
  BY <1>2, <1>3, <1>5
<1>8. data[o + 1] = More(msg, k + 1) /\ data[o + 2] = s
  BY <1>3, <1>5, <1>6, <1>7
<1>9. i \in 1 .. z + 1 /\ i + 1 <= z /\ i + 1 = o + 2
  BY <1>2, <1>5
<1>10. i + 2 + s = o1 + 1
  BY <1>2, <1>3
<1>11. ASSUME o1 <= z
       PROVE  PartAt(data, i) = p
  <2>1. data[i + 1] = s
    BY <1>8, <1>9
  <2>2. i + 2 + s <= z + 1
    BY <1>2, <1>3, <1>5, <1>10, <1>11
  <2>3. /\ PartAt(data, i) \in Seq(Byte) /\ Len(PartAt(data, i)) = s
        /\ \A j \in 1 .. s : PartAt(data, i)[j] = data[i + 1 + j]
    <3>. HIDE DEF i
    <3>1. i \in 1 .. Len(data) + 1 /\ i + 1 <= Len(data) /\ i + 2 + data[i + 1] <= Len(data) + 1
      BY <1>9, <2>1, <2>2 DEF z
    <3>. QED  BY <2>1, <3>1, PartAtFacts
  <2>4. ASSUME NEW j \in 1 .. s
        PROVE  PartAt(data, i)[j] = p[j]
    <3>1. i + 1 + j = o + 2 + j /\ o + 2 + j \in 1 .. z /\ o + 2 + j <= Len(e)
      BY <1>2, <1>3, <1>5, <1>11
    <3>2. data[o + 2 + j] = e[o + 2 + j] /\ e[o + 2 + j] = p[j]
      BY <1>3, <1>5, <3>1
    <3>3. PartAt(data, i)[j] = data[i + 1 + j]
      BY <2>3
    <3>. QED  BY <3>1, <3>2, <3>3
  <2>. HIDE DEF i
  <2>5. Len(p) = s
    BY DEF s
  <2>. QED  BY <1>4, <2>3, <2>4, <2>5, SeqEqual
<1>12. o = At(msg, k) /\ p = msg[k + 1] /\ s = Len(p) /\ z = Len(data) /\ o1 = At(msg, k + 1)
  BY DEF o, p, s, z, o1
<1>. HIDE DEF i
<1>13. Meets(msg, k, data, i)
  BY <1>8, <1>9, <1>10, <1>11, <1>12 DEF Meets, i
<1>. QED  BY <1>12, <1>13 DEF i

\* A frame that is all there is decoded as it was encoded, whatever follows it.
LEMMA WholeFrame ==
    ASSUME NEW msg \in Seq(Seq(Byte)), Short(msg), msg # << >>,
           NEW data \in Seq(Byte), Agrees(data, Encoded(msg)),
           Len(Encoded(msg)) <= Len(data)
    PROVE  Parts(data) = [ok |-> TRUE, parts |-> msg, next |-> Len(Encoded(msg)) + 1]
<1>. DEFINE n == Len(msg)
            z == Len(data)
            last == Len(Encoded(msg))
            tail(k) == SubSeq(msg, k, n)
            whole(k) == [ok |-> TRUE, parts |-> tail(k), next |-> last + 1]
<1>1. PICK f : Parts(data) = f[1] /\ \A i \in 1 .. z + 1 : f[i] = Step(data, f, i)
  BY PartsIs
<1>2. n \in Nat /\ n >= 1 /\ z \in Nat
  BY EmptySeq, LenProperties
<1>3. last \in Nat /\ At(msg, 0) = 0 /\ At(msg, n) = last /\ last <= z
  BY FrameFacts
<1>. DEFINE Good == {k \in 1 .. n : f[At(msg, k - 1) + 1] = whole(k)}
<1>4. ASSUME NEW k \in 1 .. n, \A j \in k + 1 .. n : j \in Good
      PROVE  k \in Good
  <2>. DEFINE i == At(msg, k - 1) + 1
              o1 == At(msg, k)
              s == Len(msg[k])
  <2>1. k - 1 \in 0 .. n - 1 /\ (k - 1) + 1 = k /\ k \in 0 .. n /\ k - 1 \in 0 .. n
    BY <1>2
  <2>2. At(msg, k - 1) \in Nat /\ o1 \in Nat
    BY <2>1, FrameFacts
  <2>3. s \in Nat /\ o1 = At(msg, k - 1) + 2 + s /\ At(msg, k - 1) + 2 + s <= last
    BY <2>1, PartInFrame
  <2>. HIDE DEF s
  <2>4. At(msg, k - 1) + 2 <= z /\ o1 <= z
    BY <1>2, <1>3, <2>2, <2>3
  <2>5. /\ i \in 1 .. z + 1 /\ i + 1 <= z
        /\ data[i] = More(msg, k) /\ i + 2 + data[i + 1] = o1 + 1
        /\ PartAt(data, i) = msg[k]
    <3>1. Meets(msg, k - 1, data, i)
      BY <2>1, <2>4, TurnInFrame
    <3>. HIDE DEF i
    <3>. QED  BY <2>1, <2>4, <3>1 DEF Meets
  <2>. HIDE DEF i, o1, z
  <2>6. f[i] = With(Behind(data, f, i), msg[k])
    <3>1. f[i] = Step(data, f, i) /\ i \in Nat /\ ~(i + 1 > z)
      BY <1>1, <1>2, <2>5
    <3>. QED  BY <2>5, <3>1 DEF Step, z
  <2>7. ~(i + 2 + data[i + 1] > Len(data) + 1)
    <3>1. ~(o1 + 1 > z + 1)
      BY <1>2, <2>2, <2>4
    <3>. QED  BY <2>5, <3>1 DEF z
  <2>8. msg[k] \in Seq(Byte)
    OBVIOUS
  <2>9. tail(k) = << msg[k] >> \o tail(k + 1)
    <3>1. n \in k .. Len(msg)
      BY <1>2
    <3>. QED  BY <3>1, SubSeqRecursiveFirst
  <2>10. Behind(data, f, i) = whole(k + 1)
    <3>1. CASE k = n
      <4>1. data[i] = 0
        BY <1>2, <2>5, <3>1 DEF More
      <4>2. 0 % 2 = 0
        OBVIOUS
      <4>3. Behind(data, f, i) = [ok |-> TRUE, parts |-> << >>, next |-> o1 + 1]
        BY <2>5, <2>7, <4>1, <4>2 DEF Behind
      <4>4. tail(k + 1) = << >>
        <5>1. k + 1 \in Int /\ n \in Int /\ n < k + 1
          BY <1>2, <3>1
        <5>. QED  BY <5>1, SubSeqEmpty
      <4>5. o1 = last
        BY <1>3, <3>1 DEF o1
      <4>. QED  BY <4>3, <4>4, <4>5
    <3>2. CASE k # n
      <4>1. data[i] = 1
        BY <1>2, <2>5, <3>2 DEF More
      <4>2. 1 % 2 # 0
        OBVIOUS
      <4>3. Behind(data, f, i) = f[o1 + 1]
        BY <2>5, <2>7, <4>1, <4>2 DEF Behind
      <4>4. k + 1 \in k + 1 .. n /\ (k + 1) - 1 = k
        BY <1>2, <3>2
      <4>5. f[At(msg, (k + 1) - 1) + 1] = whole(k + 1)
        BY <1>4, <4>4
      <4>. QED  BY <4>3, <4>4, <4>5 DEF o1
    <3>. QED  BY <3>1, <3>2
  <2>11. f[i] = whole(k)
    <3>. DEFINE q == tail(k + 1)
                m == last + 1
    <3>1. f[i] = With([ok |-> TRUE, parts |-> q, next |-> m], msg[k])
      BY <2>6, <2>10
    <3>2. tail(k) = << msg[k] >> \o q
      BY <2>9
    <3>. HIDE DEF q, m
    <3>3. f[i] = [ok |-> TRUE, parts |-> << msg[k] >> \o q, next |-> m]
      BY <3>1, WithOk
    <3>. QED  BY <3>2, <3>3 DEF m
  <2>. QED  BY <2>11 DEF i
<1>. HIDE DEF Good
<1>5. \A k \in 1 .. n : k \in Good
  BY <1>2, <1>4, Downward
<1>6. 1 \in 1 .. n /\ 1 - 1 = 0 /\ 0 + 1 = 1
  BY <1>2
<1>7. f[At(msg, 1 - 1) + 1] = whole(1)
  BY <1>5, <1>6 DEF Good
<1>8. tail(1) = msg
  BY SubSeqFull
<1>. QED  BY <1>1, <1>3, <1>6, <1>7, <1>8

\* A frame that is cut short yields fewer parts, or none.
LEMMA CutFrame ==
    ASSUME NEW msg \in Seq(Seq(Byte)), Short(msg), msg # << >>,
           NEW data \in Seq(Byte), Agrees(data, Encoded(msg)),
           Len(data) < Len(Encoded(msg))
    PROVE  Parts(data).ok => Len(Parts(data).parts) < Len(msg)
<1>. DEFINE n == Len(msg)
            z == Len(data)
            last == Len(Encoded(msg))
<1>1. PICK f : Parts(data) = f[1] /\ \A i \in 1 .. z + 1 : f[i] = Step(data, f, i)
  BY PartsIs
<1>2. n \in Nat /\ n >= 1 /\ z \in Nat
  BY EmptySeq, LenProperties
<1>3. last \in Nat /\ At(msg, 0) = 0 /\ At(msg, n) = last /\ z < last
  BY FrameFacts
<1>4. \A i \in 1 .. z + 1 : f[i] \in Result
  BY <1>1, AllFound DEF Found
<1>. DEFINE Few(k) == At(msg, k - 1) <= z =>
                LET r == f[At(msg, k - 1) + 1] IN r.ok => Len(r.parts) < (n - k) + 1
            Good == {k \in 1 .. n : Few(k)}
<1>5. ASSUME NEW k \in 1 .. n, \A j \in k + 1 .. n : j \in Good
      PROVE  k \in Good
  <2>. DEFINE i == At(msg, k - 1) + 1
              o1 == At(msg, k)
              s == Len(msg[k])
  <2>. SUFFICES ASSUME At(msg, k - 1) <= z, f[i].ok
                PROVE  Len(f[i].parts) < (n - k) + 1
    OBVIOUS
  <2>1. k - 1 \in 0 .. n - 1 /\ (k - 1) + 1 = k /\ k \in 0 .. n /\ k - 1 \in 0 .. n
    BY <1>2
  <2>2. At(msg, k - 1) \in Nat /\ o1 \in Nat
    BY <2>1, FrameFacts
  <2>3. s \in Nat /\ o1 = At(msg, k - 1) + 2 + s /\ At(msg, k - 1) + 2 + s <= last
    BY <2>1, PartInFrame
  <2>. HIDE DEF s
  <2>4. CASE i + 1 > z
    <3>1. i \in 1 .. z + 1
      BY <1>2, <2>2
    <3>2. f[i] = [ok |-> TRUE, parts |-> << >>, next |-> i]
      BY <1>1, <2>4, <3>1 DEF Step
    <3>. HIDE DEF i
    <3>3. Len(f[i].parts) = 0
      BY <3>2
    <3>. QED  BY <1>2, <3>3
  <2>5. CASE ~(i + 1 > z)
    <3>1. At(msg, k - 1) + 2 <= z
      BY <1>2, <2>2, <2>5
    <3>2. /\ i \in 1 .. z + 1 /\ i + 1 <= z
          /\ data[i] = More(msg, k) /\ i + 2 + data[i + 1] = o1 + 1
          /\ o1 <= z => PartAt(data, i) = msg[k]
      <4>1. Meets(msg, k - 1, data, i)
        BY <2>1, <3>1, TurnInFrame
      <4>. HIDE DEF i
      <4>. QED  BY <2>1, <4>1 DEF Meets
    <3>. HIDE DEF i, o1, z
    <3>3. f[i] = With(Behind(data, f, i), PartAt(data, i))
      <4>1. f[i] = Step(data, f, i)
        BY <1>1, <3>2
      <4>. QED  BY <2>5, <4>1 DEF Step, z
    <3>4. CASE o1 > z
      <4>1. i + 2 + data[i + 1] > z + 1
        BY <1>2, <2>2, <3>2, <3>4
      <4>2. Behind(data, f, i) = NoParse
        BY <4>1 DEF Behind, z
      <4>3. f[i].ok = FALSE
        BY <3>3, <4>2 DEF With, NoParse
      <4>. QED  BY <4>3
    <3>5. CASE ~(o1 > z)
      <4>1. o1 <= z /\ k # n /\ k + 1 \in k + 1 .. n /\ (k + 1) - 1 = k
        BY <1>2, <1>3, <2>2, <3>5 DEF o1
      <4>2. ~(i + 2 + data[i + 1] > Len(data) + 1)
        <5>1. ~(o1 + 1 > z + 1)
          BY <1>2, <2>2, <4>1
        <5>. QED  BY <3>2, <5>1 DEF z
      <4>3. data[i] = 1 /\ 1 % 2 # 0
        BY <1>2, <3>2, <4>1 DEF More
      <4>. DEFINE r == f[o1 + 1]
      <4>4. Behind(data, f, i) = r
        BY <3>2, <4>2, <4>3 DEF Behind
      <4>5. r \in Result /\ msg[k] \in Seq(Byte)
        <5>1. o1 + 1 \in 1 .. z + 1
          BY <1>2, <2>2, <4>1
        <5>. QED  BY <1>4, <5>1
      <4>6. r.ok => Len(r.parts) < (n - (k + 1)) + 1
        <5>1. Few(k + 1)
          BY <1>5, <4>1
        <5>. QED  BY <4>1, <5>1 DEF o1
      <4>. HIDE DEF r
      <4>7. f[i] = With(r, msg[k])
        BY <3>2, <3>3, <4>1, <4>4
      <4>8. r.ok /\ f[i].parts = << msg[k] >> \o r.parts
        <5>. DEFINE w == With(r, msg[k])
        <5>1. w.ok = r.ok /\ (r.ok => w.parts = << msg[k] >> \o r.parts)
          BY <4>5, WithFacts, Zenon
        <5>. HIDE DEF w
        <5>2. f[i] = w
          BY <4>7 DEF w
        <5>. QED  BY <5>1, <5>2
      <4>. DEFINE q == r.parts
      <4>9. q \in Seq(Seq(Byte))
        BY <4>5 DEF Result
      <4>. HIDE DEF q
      <4>10. Len(<< msg[k] >> \o q) = Len(q) + 1 /\ Len(q) \in Nat
        BY <4>5, <4>9, InFront, LenProperties
      <4>. DEFINE x == Len(q)
                  y == Len(f[i].parts)
      <4>11. y = x + 1 /\ x \in Nat
        BY <4>8, <4>10 DEF q
      <4>12. x < (n - (k + 1)) + 1
        BY <4>6, <4>8 DEF q
      <4>. HIDE DEF x, y
      <4>13. y < (n - k) + 1
        BY <1>2, <4>11, <4>12
      <4>. QED  BY <4>13 DEF y
    <3>. QED  BY <3>4, <3>5
  <2>. QED  BY <2>4, <2>5
<1>. HIDE DEF Good
<1>6. \A k \in 1 .. n : k \in Good
  BY <1>2, <1>5, Downward
<1>7. 1 \in 1 .. n /\ 1 - 1 = 0 /\ 0 + 1 = 1 /\ 0 <= z /\ (n - 1) + 1 = n
  BY <1>2
<1>8. Few(1)
  BY <1>6, <1>7 DEF Good
<1>9. f[1].ok => Len(f[1].parts) < n
  BY <1>3, <1>7, <1>8
<1>. QED  BY <1>1, <1>9

----------------------------------------------------------------------------
(* Streams of frames.                                                      *)

MultiPart == Seq(Seq(Byte))

Frames(msgs) == [i \in DOMAIN msgs |-> Encoded(msgs[i])]

Stream(msgs) == FlattenSeq(Frames(msgs))

LEMMA FramesType ==
    ASSUME NEW msgs \in Seq(MultiPart)
    PROVE  /\ Frames(msgs) \in Seq(Seq(Byte)) /\ Len(Frames(msgs)) = Len(msgs)
           /\ \A i \in 1 .. Len(msgs) : Frames(msgs)[i] = Encoded(msgs[i])
           /\ Stream(msgs) \in Seq(Byte)
<1>. DEFINE n == Len(msgs)
            e(i) == Encoded(msgs[i])
            es == [i \in 1 .. n |-> e(i)]
<1>1. n \in Nat /\ DOMAIN msgs = 1 .. n
  BY LenProperties
<1>2. \A i \in 1 .. n : e(i) \in Seq(Byte)
  BY FrameFacts DEF MultiPart
<1>3. Frames(msgs) = es
  BY <1>1 DEF Frames
<1>. HIDE DEF n, e
<1>4. es \in Seq(Seq(Byte)) /\ Len(es) = n /\ \A i \in 1 .. n : es[i] = e(i)
  BY <1>1, <1>2
<1>5. FlattenSeq(es) \in Seq(Byte)
  BY <1>4, FlattenType
<1>. QED  BY <1>3, <1>4, <1>5 DEF n, e, Stream

LEMMA StreamAppend ==
    ASSUME NEW msgs \in Seq(MultiPart), NEW m \in MultiPart
    PROVE  Stream(Append(msgs, m)) = Stream(msgs) \o Encoded(m)
<1>. DEFINE a == Append(msgs, m)
            b == Append(Frames(msgs), Encoded(m))
            n == Len(msgs)
<1>1. /\ a \in Seq(MultiPart) /\ Len(a) = n + 1
      /\ a[n + 1] = m /\ \A i \in 1 .. n : a[i] = msgs[i]
  BY AppendProperties
<1>2. /\ Frames(msgs) \in Seq(Seq(Byte)) /\ Len(Frames(msgs)) = n
      /\ \A i \in 1 .. n : Frames(msgs)[i] = Encoded(msgs[i])
  BY FramesType
<1>3. Encoded(m) \in Seq(Byte)
  BY FrameFacts DEF MultiPart
<1>4. n \in Nat
  BY LenProperties
<1>. HIDE DEF a, n
<1>5. /\ Frames(a) \in Seq(Seq(Byte)) /\ Len(Frames(a)) = n + 1
      /\ \A i \in 1 .. n + 1 : Frames(a)[i] = Encoded(a[i])
  BY <1>1, FramesType
<1>. DEFINE fs == Frames(msgs)
            x == Encoded(m)
<1>6. fs \in Seq(Seq(Byte)) /\ Len(fs) = n /\ x \in Seq(Byte)
  BY <1>2, <1>3
<1>. HIDE DEF fs, x
<1>7. /\ Append(fs, x) \in Seq(Seq(Byte)) /\ Len(Append(fs, x)) = n + 1
      /\ Append(fs, x)[n + 1] = x /\ \A i \in 1 .. n : Append(fs, x)[i] = fs[i]
  BY <1>6, AppendProperties
<1>8. \A i \in 1 .. n + 1 : Frames(a)[i] = Append(fs, x)[i]
  <2>1. \A i \in 1 .. n + 1 : i = n + 1 \/ i \in 1 .. n
    BY <1>4
  <2>2. n + 1 \in 1 .. n + 1 /\ \A i \in 1 .. n : i \in 1 .. n + 1
    BY <1>4
  <2>3. Frames(a)[n + 1] = x
    BY <1>1, <1>5, <2>2 DEF x
  <2>4. \A i \in 1 .. n : Frames(a)[i] = fs[i]
    BY <1>1, <1>2, <1>5, <2>2 DEF fs
  <2>. QED  BY <1>7, <2>1, <2>3, <2>4
<1>9. Frames(a) = Append(fs, x)
  BY <1>5, <1>7, <1>8, SeqEqual
<1>10. FlattenSeq(Append(fs, x)) = FlattenSeq(fs) \o x
  BY <1>6, FlattenAppend
<1>. QED  BY <1>9, <1>10 DEF Stream, a, fs, x

LEMMA PrefixIs ==
    ASSUME NEW S, NEW s \in Seq(S), NEW t \in Seq(S)
    PROVE  IsPrefix(s, t) <=> Len(s) <= Len(t) /\ \A i \in 1 .. Len(s) : s[i] = t[i]
<1>. DEFINE n == Len(s)
            u == SubSeq(t, 1, n)
<1>1. n \in Nat /\ Len(t) \in Nat /\ \A i \in 1 .. Len(t) : t[i] \in S
  BY LenProperties
<1>2. SubSeq(s, 1, n) = s
  BY SubSeqFull
<1>3. IsPrefix(s, t) <=> n <= Len(t) /\ s = u
  BY <1>2 DEF IsPrefix
<1>4. ASSUME n <= Len(t)
      PROVE  s = u <=> \A i \in 1 .. n : s[i] = t[i]
  <2>1. \A i \in 1 .. n : t[i] \in S
    BY <1>1, <1>4
  <2>2. 1 \in Int /\ n \in Int
    BY <1>1
  <2>. HIDE DEF n
  <2>3. /\ u \in Seq(S) /\ Len(u) = IF 1 <= n THEN n - 1 + 1 ELSE 0
        /\ \A i \in 1 .. n - 1 + 1 : u[i] = t[1 + i - 1]
    BY <2>1, <2>2, SubSeqProperties
  <2>. HIDE DEF u
  <2>4. u \in Seq(S) /\ Len(u) = n /\ \A i \in 1 .. n : u[i] = t[i]
    BY <1>1, <2>3 DEF n
  <2>5. ASSUME \A i \in 1 .. n : s[i] = t[i] PROVE s = u
    <3>1. Len(s) = n
      BY DEF n
    <3>2. \A i \in 1 .. Len(s) : s[i] = u[i]
      BY <2>4, <2>5, <3>1
    <3>. QED  BY <2>4, <3>1, <3>2, SeqEqual
  <2>. QED  BY <2>4, <2>5
<1>. QED  BY <1>3, <1>4

\* A stream of frames begins with that of the first messages, then the next frame.
LEMMA StreamOfPrefix ==
    ASSUME NEW sent \in Seq(MultiPart), NEW got \in Seq(MultiPart), IsPrefix(got, sent)
    PROVE  /\ Len(got) = Len(sent) => got = sent
           /\ Len(got) < Len(sent) =>
                \E t \in Seq(Byte) :
                    Stream(sent) = (Stream(got) \o Encoded(sent[Len(got) + 1])) \o t
<1>. DEFINE k == Len(got)
            n == Len(sent)
            fs == Frames(sent)
            gs == Frames(got)
<1>1. k <= n /\ k \in Nat /\ n \in Nat /\ \A i \in 1 .. k : got[i] = sent[i]
  BY PrefixIs, LenProperties
<1>2. fs \in Seq(Seq(Byte)) /\ Len(fs) = n /\ \A i \in 1 .. n : fs[i] = Encoded(sent[i])
  BY FramesType
<1>3. gs \in Seq(Seq(Byte)) /\ Len(gs) = k /\ \A i \in 1 .. k : gs[i] = Encoded(got[i])
  BY FramesType
<1>4. ASSUME k = n PROVE got = sent
  BY <1>1, <1>4, SeqEqual
<1>5. ASSUME k < n
      PROVE  \E t \in Seq(Byte) : Stream(sent) = (Stream(got) \o Encoded(sent[k + 1])) \o t
  <2>1. k + 1 \in 0 .. n /\ k \in 0 .. n - 1 /\ k + 1 \in 1 .. n
    BY <1>1, <1>5
  <2>2. \A i \in 1 .. k : gs[i] = fs[i]
    BY <1>1, <1>2, <1>3
  <2>3. fs[k + 1] = Encoded(sent[k + 1])
    BY <1>2, <2>1
  <2>. HIDE DEF fs, gs, k, n
  <2>4. IsPrefix(gs, fs)
    BY <1>1, <1>2, <1>3, <2>2, PrefixIs
  <2>5. SubSeq(fs, 1, k) = gs
    BY <1>3, <2>4, SubSeqFull DEF IsPrefix
  <2>6. First(fs, k) = FlattenSeq(gs)
    BY <2>5 DEF First
  <2>7. First(fs, k + 1) = First(fs, k) \o fs[k + 1]
    BY <1>2, <2>1, FirstFacts
  <2>8. PICK t \in Seq(Byte) : FlattenSeq(fs) = First(fs, k + 1) \o t
    BY <1>2, <2>1, FirstThenRest
  <2>9. FlattenSeq(fs) = (FlattenSeq(gs) \o Encoded(sent[k + 1])) \o t
    BY <2>3, <2>6, <2>7, <2>8
  <2>. QED  BY <2>9 DEF Stream, fs, gs
<1>. QED  BY <1>4, <1>5

----------------------------------------------------------------------------
(* Types.                                                                  *)

LEMMA MessagesAre == Messages \subseteq MultiPart /\ BufMax \in Nat /\ BufMax > 0
BY FramerAssumption DEF MultiPart

\* What is taken off the wire, and what is left.
LEMMA Received ==
    ASSUME NEW rx \in Seq(Byte), NEW wire \in Seq(Byte), NEW n \in 1 .. Len(wire)
    PROVE  LET a    == SubSeq(wire, 1, n)
               b    == SubSeq(wire, n + 1, Len(wire))
               data == rx \o a
           IN  /\ a \in Seq(Byte) /\ b \in Seq(Byte) /\ a \o b = wire
               /\ data \in Seq(Byte) /\ Len(data) = Len(rx) + n /\ Len(rx) \in Nat
<1>. DEFINE l == Len(wire)
            a == SubSeq(wire, 1, n)
            b == SubSeq(wire, n + 1, l)
<1>1. l \in Nat /\ \A i \in 1 .. l : wire[i] \in Byte
  BY LenProperties
<1>2. a \o b = wire
  <2>1. 1 \in 1 .. Len(wire) + 1 /\ n \in 1 - 1 .. Len(wire) /\ Len(wire) \in n .. Len(wire)
    BY <1>1
  <2>2. a \o b = SubSeq(wire, 1, Len(wire))
    BY <2>1, ConcatAdjacentSubSeq
  <2>. QED  BY <2>2, SubSeqFull
<1>3. 1 \in Int /\ n \in Int /\ n + 1 \in Int /\ l \in Int
  BY <1>1
<1>4. /\ \A i \in 1 .. n : wire[i] \in Byte
      /\ \A i \in n + 1 .. l : wire[i] \in Byte
  BY <1>1
<1>. HIDE DEF l
<1>5. a \in Seq(Byte) /\ Len(a) = IF 1 <= n THEN n - 1 + 1 ELSE 0
  BY <1>3, <1>4, SubSeqProperties
<1>6. b \in Seq(Byte)
  BY <1>3, <1>4, SubSeqProperties
<1>. HIDE DEF a, b
<1>7. Len(a) = n
  BY <1>5
<1>8. rx \o a \in Seq(Byte) /\ Len(rx \o a) = Len(rx) + n
  BY <1>5, <1>7, ConcatProperties
<1>9. Len(rx) \in Nat
  BY LenProperties
<1>. QED  BY <1>2, <1>5, <1>6, <1>8, <1>9 DEF a, b, l

\* What is left behind a message.
LEMMA RestFacts ==
    ASSUME NEW data \in Seq(Byte), Usable(Parts(data))
    PROVE  /\ Parts(data).parts \in MultiPart
           /\ Rest(data, Parts(data)) \in Seq(Byte)
           /\ Len(Rest(data, Parts(data))) < Len(data)
<1>. DEFINE p == Parts(data)
            m == p.next
            l == Len(data)
<1>1. Found(p, 1, l + 1)
  BY PartsFound
<1>2. l \in Nat /\ \A i \in 1 .. l : data[i] \in Byte
  BY LenProperties
<1>. HIDE DEF p
<1>3. p.ok /\ Len(p.parts) >= 4
  BY DEF Usable, p
<1>4. p.parts \in Seq(Seq(Byte)) /\ p.parts # << >>
  BY <1>1, <1>3 DEF Found, Result
<1>5. m \in 1 .. l + 1 /\ m > 1
  BY <1>1, <1>3, <1>4 DEF Found
<1>. HIDE DEF l, m
<1>6. m \in Int /\ l \in Int /\ \A i \in m .. l : data[i] \in Byte
  BY <1>2, <1>5
<1>7. /\ SubSeq(data, m, l) \in Seq(Byte)
      /\ Len(SubSeq(data, m, l)) = IF m <= l THEN l - m + 1 ELSE 0
  BY <1>6, SubSeqProperties
<1>8. (IF m <= l THEN l - m + 1 ELSE 0) < l
  BY <1>2, <1>5
<1>. QED  BY <1>4, <1>7, <1>8 DEF Rest, p, l, m, MultiPart

LEMMA InitTypes == FrInit => FrTypeOK
<1>1. Len(<< >>) = 0 /\ MaxSent \in Nat
  BY FramerAssumption
<1>. QED  BY <1>1, MessagesAre DEF FrInit, FrTypeOK

LEMMA SendTypes ==
    ASSUME FrTypeOK, NEW msg \in Messages, PeerSends(msg)
    PROVE  FrTypeOK'
<1>1. /\ Len(fr_sent) < MaxSent /\ fr_sent' = Append(fr_sent, msg)
      /\ fr_wire' = fr_wire \o Encoded(msg) /\ fr_rx' = fr_rx /\ fr_got' = fr_got
  BY DEF PeerSends
<1>2. fr_sent \in Seq(Messages) /\ fr_wire \in Seq(Byte)
  BY DEF FrTypeOK
<1>3. fr_sent' \in Seq(Messages) /\ Len(fr_sent') = Len(fr_sent) + 1
  BY <1>1, <1>2, AppendProperties
<1>4. Len(fr_sent') <= MaxSent
  BY <1>1, <1>2, <1>3, LenProperties, FramerAssumption
<1>5. Encoded(msg) \in Seq(Byte)
  BY MessagesAre, FrameFacts DEF MultiPart
<1>6. fr_wire' \in Seq(Byte)
  BY <1>1, <1>2, <1>5, ConcatProperties
<1>7. fr_rx' \in Seq(Byte) /\ Len(fr_rx') < BufMax /\ fr_got' \in Seq(Seq(Seq(Byte)))
  BY <1>1 DEF FrTypeOK
<1>. QED  BY <1>3, <1>4, <1>6, <1>7 DEF FrTypeOK

LEMMA ReceiveTypes ==
    ASSUME FrTypeOK, NEW n \in 1 .. Len(fr_wire), TryReceive(n)
    PROVE  FrTypeOK'
<1>. DEFINE a    == SubSeq(fr_wire, 1, n)
            b    == SubSeq(fr_wire, n + 1, Len(fr_wire))
            data == fr_rx \o a
            p    == Parts(data)
<1>1. /\ n <= BufMax - Len(fr_rx) /\ fr_wire' = b /\ fr_sent' = fr_sent
      /\ IF Usable(p)
           THEN fr_got' = Append(fr_got, p.parts) /\ fr_rx' = Rest(data, p)
           ELSE fr_rx' = (IF Len(data) = BufMax THEN << >> ELSE data) /\ fr_got' = fr_got
  BY DEF TryReceive
<1>2. /\ fr_wire \in Seq(Byte) /\ fr_rx \in Seq(Byte) /\ fr_got \in Seq(MultiPart)
      /\ fr_sent \in Seq(Messages) /\ Len(fr_sent) <= MaxSent
  BY DEF FrTypeOK, MultiPart
<1>3. b \in Seq(Byte) /\ data \in Seq(Byte) /\ Len(data) = Len(fr_rx) + n /\ Len(fr_rx) \in Nat
  BY <1>2, Received
<1>. HIDE DEF a, b, data
<1>4. Len(data) \in Nat /\ Len(data) <= BufMax
  <2>. DEFINE l == Len(data)
              r == Len(fr_rx)
  <2>1. l = r + n /\ r \in Nat /\ n \in Int /\ n >= 1 /\ n <= BufMax - r
    <3>1. Len(fr_wire) \in Nat
      BY <1>2, LenProperties
    <3>. QED  BY <1>1, <1>3, <3>1
  <2>. HIDE DEF l, r
  <2>2. l \in Nat /\ l <= BufMax
    BY <2>1, MessagesAre
  <2>. QED  BY <2>2 DEF l
<1>5. fr_rx' \in Seq(Byte) /\ Len(fr_rx') < BufMax /\ fr_got' \in Seq(MultiPart)
  <2>1. CASE Usable(p)
    <3>1. fr_got' = Append(fr_got, p.parts) /\ fr_rx' = Rest(data, p)
      BY <1>1, <2>1
    <3>2. p.parts \in MultiPart /\ fr_rx' \in Seq(Byte) /\ Len(fr_rx') < Len(data)
      BY <1>3, <2>1, <3>1, RestFacts
    <3>. HIDE DEF p
    <3>3. Len(fr_rx') \in Nat
      BY <3>2, LenProperties
    <3>4. Len(fr_rx') < BufMax
      BY <1>4, <3>2, <3>3, MessagesAre
    <3>5. fr_got' \in Seq(MultiPart)
      BY <1>2, <3>1, <3>2, AppendProperties
    <3>. QED  BY <3>2, <3>4, <3>5
  <2>2. CASE ~Usable(p)
    <3>. HIDE DEF p
    <3>1. fr_rx' = (IF Len(data) = BufMax THEN << >> ELSE data) /\ fr_got' = fr_got
      BY <1>1, <2>2
    <3>2. CASE Len(data) = BufMax
      <4>1. fr_rx' = << >>
        BY <3>1, <3>2
      <4>. QED  BY <1>2, <3>1, <4>1, EmptySeq, MessagesAre
    <3>3. CASE Len(data) # BufMax
      <4>1. Len(data) < BufMax
        BY <1>4, <3>3, MessagesAre
      <4>. QED  BY <1>2, <1>3, <3>1, <3>3, <4>1
    <3>. QED  BY <3>2, <3>3
  <2>. QED  BY <2>1, <2>2
<1>. QED  BY <1>1, <1>2, <1>3, <1>5 DEF FrTypeOK, MultiPart

LEMMA NextTypes == FrTypeOK /\ [FrNext]_frVars => FrTypeOK'
<1>. SUFFICES ASSUME FrTypeOK, [FrNext]_frVars
              PROVE  FrTypeOK'
  OBVIOUS
<1>1. ASSUME NEW msg \in Messages, PeerSends(msg) PROVE FrTypeOK'
  BY <1>1, SendTypes
<1>2. ASSUME NEW n \in 1 .. Len(fr_wire), TryReceive(n) PROVE FrTypeOK'
  BY <1>2, ReceiveTypes
<1>3. ASSUME UNCHANGED frVars PROVE FrTypeOK'
  BY <1>3 DEF FrTypeOK, frVars
<1>. QED  BY <1>1, <1>2, <1>3 DEF FrNext

(* The variables of the connection keep their types; with them, the buffer *)
(* never stays full, so that try_receive_on_socket() always has room.      *)
THEOREM FrTypeOKHolds == FrSpec => []FrTypeOK
BY InitTypes, NextTypes, PTL DEF FrSpec

----------------------------------------------------------------------------
(* What is sent and what is received.                                      *)

(* encode() loses nothing that decode() could read: a message is read back *)
(* from its frame if every part is shorter than its size byte can say, and *)
(* only then.                                                              *)
THEOREM ReadBackHolds == FrSpec => []ReadBack
<1>1. FrTypeOK => ReadBack
  <2>. SUFFICES ASSUME FrTypeOK, NEW i \in DOMAIN fr_sent, encode(fr_sent[i], BufMax) # << >>
                PROVE  LET msg == fr_sent[i]
                           p   == Parts(encode(msg, BufMax))
                       IN  (p.ok /\ p.parts = msg) <=> \A j \in DOMAIN msg : Len(msg[j]) <= ByteMax
    BY DEF ReadBack
  <2>. DEFINE msg == fr_sent[i]
              frame == Encoded(msg)
              p == Parts(frame)
  <2>1. msg \in Seq(Seq(Byte))
    <3>1. fr_sent \in Seq(Messages)
      BY DEF FrTypeOK
    <3>. QED  BY <3>1, MessagesAre DEF MultiPart
  <2>. HIDE DEF msg
  <2>2. encode(msg, BufMax) = frame /\ frame # << >>
    BY DEF encode, msg
  <2>3. msg # << >>
    <3>1. Encoded(<< >>) = << >>
      BY DEF Encoded, FlattenSeq
    <3>. QED  BY <2>2, <3>1
  <2>4. frame \in Seq(Byte) /\ Len(frame) \in Nat
    BY <2>1, FrameFacts
  <2>. HIDE DEF frame
  <2>5. ASSUME Short(msg)
        PROVE  p.ok /\ p.parts = msg
    <3>1. Agrees(frame, frame) /\ Len(frame) <= Len(frame)
      BY <2>4 DEF Agrees
    <3>2. p = [ok |-> TRUE, parts |-> msg, next |-> Len(frame) + 1]
      BY <2>1, <2>3, <2>4, <2>5, <3>1, WholeFrame DEF frame
    <3>. QED  BY <3>2
  <2>6. ASSUME p.ok, p.parts = msg
        PROVE  Short(msg)
    BY <2>4, <2>6, PartsFound DEF Found
  <2>7. (p.ok /\ p.parts = msg) <=> Short(msg)
    BY <2>5, <2>6
  <2>. HIDE DEF p
  <2>. QED  BY <2>2, <2>7 DEF Short, p, msg
<1>. QED  BY <1>1, FrTypeOKHolds, PTL

LEMMA InRow ==
    \A x, y, z \in Seq(Byte) : (x \o y) \o z = x \o (y \o z) /\ x \o y \in Seq(Byte)
<1>. SUFFICES ASSUME NEW x \in Seq(Byte), NEW y \in Seq(Byte), NEW z \in Seq(Byte)
              PROVE  (x \o y) \o z = x \o (y \o z) /\ x \o y \in Seq(Byte)
  BY Zenon
<1>1. Regroups(x, y, z) /\ x \o y \in Seq(Byte)
  BY Regrouped, Joined, Zenon
<1>. QED  BY <1>1, Zenon DEF Regroups

\* With what has just been received, either the next message is decoded and what
\* is behind it kept, or there is still room for more of it.
LEMMA OneMore ==
    ASSUME NEW sent \in Seq(MultiPart), NEW got \in Seq(MultiPart), IsPrefix(got, sent),
           \A i \in DOMAIN sent : WellFormed(sent[i]),
           NEW data \in Seq(Byte), NEW wire \in Seq(Byte), data # << >>,
           (Stream(got) \o data) \o wire = Stream(sent)
    PROVE  LET p == Parts(data)
           IN  /\ Usable(p) => /\ IsPrefix(Append(got, p.parts), sent)
                               /\ (Stream(Append(got, p.parts)) \o Rest(data, p)) \o wire = Stream(sent)
               /\ ~Usable(p) => Len(data) < BufMax
<1>. DEFINE k == Len(got)
            g == Stream(got)
            m == sent[k + 1]
            e == Encoded(m)
            p == Parts(data)
            l == Len(data)
<1>1. k <= Len(sent) /\ k \in Nat /\ Len(sent) \in Nat /\ DOMAIN sent = 1 .. Len(sent)
  BY PrefixIs, LenProperties
<1>2. g \in Seq(Byte) /\ l \in Nat
  BY FramesType, LenProperties
<1>. HIDE DEF g
<1>3. (g \o data) \o wire = g \o (data \o wire) /\ data \o wire \in Seq(Byte)
  <2>1. Regroups(g, data, wire) /\ data \o wire \in Seq(Byte)
    BY <1>2, Regrouped, Joined, Zenon
  <2>. QED  BY <2>1, Zenon DEF Regroups
<1>4. k < Len(sent)
  <2>. SUFFICES ASSUME k = Len(sent)
                PROVE  FALSE
    BY <1>1
  <2>1. got = sent
    BY StreamOfPrefix
  <2>2. g \o (data \o wire) = g
    BY <1>3, <2>1 DEF g
  <2>3. data \o wire = << >>
    BY <1>2, <1>3, <2>2, ConcatEqualIffEmpty
  <2>4. data = << >>
    BY <2>3, ConcatEqualIffEmpty
  <2>. QED  BY <2>4
<1>5. k + 1 \in DOMAIN sent /\ m \in MultiPart /\ WellFormed(m)
  BY <1>1, <1>4
<1>6. PICK t \in Seq(Byte) : Stream(sent) = (g \o e) \o t
  BY <1>4, StreamOfPrefix DEF g
<1>. HIDE DEF k, m
<1>7. e \in Seq(Byte) /\ Len(e) \in Nat
  BY <1>5, FrameFacts DEF MultiPart
<1>8. Short(m) /\ m # << >> /\ Len(m) = 4 /\ Len(e) <= BufMax /\ Len(m[2]) = ReqIdLen /\ m[4] \in Json
  <2>1. m \in Seq(Seq(Byte)) /\ Len(m) = 4
    BY <1>5 DEF WellFormed, MultiPart
  <2>2. DOMAIN m = 1 .. 4
    BY <2>1, LenProperties
  <2>3. m # << >>
    <3>1. Len(<< >>) = 0 /\ 4 # 0
      OBVIOUS
    <3>. QED  BY <2>1, <3>1, Zenon
  <2>. QED  BY <1>5, <2>1, <2>2, <2>3 DEF WellFormed, Short
<1>. HIDE DEF e, l
<1>9. data \o wire = e \o t
  <2>1. t \in Seq(Byte) /\ e \in Seq(Byte) /\ g \in Seq(Byte) /\ data \o wire \in Seq(Byte)
    BY <1>2, <1>3, <1>6, <1>7
  <2>2. (g \o e) \o t = g \o (e \o t) /\ e \o t \in Seq(Byte)
    <3>1. g \in Seq(Byte)
      BY <2>1, Zenon
    <3>2. e \in Seq(Byte)
      BY <2>1, Zenon
    <3>3. t \in Seq(Byte)
      BY <2>1, Zenon
    <3>4. \A x, y \in Seq(Byte) : (g \o x) \o y = g \o (x \o y) /\ x \o y \in Seq(Byte)
      BY <3>1, InRow, Zenon
    <3>5. \A y \in Seq(Byte) : (g \o e) \o y = g \o (e \o y) /\ e \o y \in Seq(Byte)
      BY <3>2, <3>4, Zenon
    <3>. QED  BY <3>3, <3>5, Zenon
  <2>3. g \o (data \o wire) = g \o (e \o t)
    <3>1. g \o (data \o wire) = (g \o e) \o t
      <4>1. g \o (data \o wire) = (g \o data) \o wire
        BY <1>3, Zenon
      <4>2. (g \o data) \o wire = Stream(sent)
        BY DEF g
      <4>3. Stream(sent) = (g \o e) \o t
        BY <1>6, Zenon
      <4>. QED  BY <4>1, <4>2, <4>3, Zenon
    <3>. QED  BY <2>2, <3>1, Zenon
  <2>. DEFINE u == data \o wire
              v == e \o t
  <2>4. u \in Seq(Byte) /\ v \in Seq(Byte) /\ g \o u = g \o v
    BY <2>1, <2>2, <2>3
  <2>. HIDE DEF u, v
  <2>5. u = v
    BY <2>1, <2>4, ConcatSimplifications
  <2>. QED  BY <2>5 DEF u, v
<1>10. Agrees(data, e)
  <2>. DEFINE u == data \o wire
  <2>1. \A i \in 1 .. l + Len(wire) : u[i] = IF i <= l THEN data[i] ELSE wire[i - l]
    BY ConcatProperties DEF l
  <2>2. t \in Seq(Byte)
    BY <1>6
  <2>3. \A i \in 1 .. Len(e) + Len(t) : (e \o t)[i] = IF i <= Len(e) THEN e[i] ELSE t[i - Len(e)]
    BY <1>7, <2>2, ConcatProperties
  <2>4. Len(wire) \in Nat /\ Len(t) \in Nat
    BY <2>2, LenProperties
  <2>5. \A i \in 1 .. Len(e) + Len(t) : u[i] = IF i <= Len(e) THEN e[i] ELSE t[i - Len(e)]
    BY <1>9, <2>3
  <2>. HIDE DEF u
  <2>. DEFINE z == Len(e)
              w == Len(wire)
              x == Len(t)
  <2>6. z \in Nat /\ w \in Nat /\ x \in Nat
    BY <1>7, <2>4
  <2>. HIDE DEF z, w, x
  <2>7. ASSUME NEW i \in 1 .. l, i <= z
        PROVE  data[i] = e[i]
    <3>1. i \in 1 .. l + w /\ i \in 1 .. z + x /\ i <= l
      BY <1>2, <2>6, <2>7
    <3>2. u[i] = data[i]
      BY <2>1, <3>1 DEF w
    <3>3. u[i] = e[i]
      BY <2>5, <2>7, <3>1 DEF z, x
    <3>. QED  BY <3>2, <3>3
  <2>. QED  BY <2>7 DEF Agrees, l, z
<1>11. CASE Len(e) <= l
  <2>1. p = [ok |-> TRUE, parts |-> m, next |-> Len(e) + 1]
    BY <1>5, <1>8, <1>10, <1>11, WholeFrame DEF MultiPart, e, l
  <2>. HIDE DEF p
  <2>2. Usable(p)
    <3>1. p.ok /\ p.parts = m
      BY <2>1
    <3>2. 4 >= 4
      OBVIOUS
    <3>. QED  BY <1>8, <3>1, <3>2, Zenon DEF Usable
  <2>3. IsPrefix(Append(got, m), sent)
    <3>. DEFINE a == Append(got, m)
    <3>1. /\ a \in Seq(MultiPart) /\ Len(a) = k + 1
          /\ a[k + 1] = m /\ \A i \in 1 .. k : a[i] = got[i]
      BY <1>5, AppendProperties DEF k
    <3>2. \A i \in 1 .. k : got[i] = sent[i]
      BY PrefixIs DEF k
    <3>. HIDE DEF a
    <3>3. ASSUME NEW i \in 1 .. k + 1
          PROVE  a[i] = sent[i]
      <4>1. i = k + 1 \/ i \in 1 .. k
        BY <1>1
      <4>. QED  BY <3>1, <3>2, <4>1 DEF m
    <3>4. k + 1 <= Len(sent)
      BY <1>1, <1>4
    <3>. QED  BY <3>1, <3>3, <3>4, PrefixIs DEF a
  <2>4. Stream(Append(got, m)) = g \o e
    BY <1>5, StreamAppend DEF g, e
  <2>. DEFINE r == Rest(data, p)
  <2>5. r \in Seq(Byte) /\ e \o r = data
    <3>. DEFINE z == Len(e)
                c == SubSeq(data, 1, z)
                d == SubSeq(data, z + 1, l)
    <3>1. r = d
      BY <2>1 DEF Rest, l
    <3>. HIDE DEF r
    <3>2. z \in Nat /\ z <= l /\ \A i \in 1 .. l : data[i] \in Byte
      BY <1>2, <1>7, <1>11, LenProperties DEF l
    <3>3. \A i \in 1 .. z : data[i] = e[i]
      <4>1. \A i \in 1 .. z : i \in 1 .. l /\ i <= z
        BY <1>2, <3>2
      <4>. QED  BY <1>10, <4>1 DEF Agrees, l
    <3>4. z = Len(e)
      OBVIOUS
    <3>. HIDE DEF z
    <3>5. c \in Seq(Byte) /\ Len(c) = z /\ \A i \in 1 .. z : c[i] = data[i]
      <4>1. 1 \in Int /\ z \in Int /\ \A i \in 1 .. z : data[i] \in Byte
        BY <1>2, <3>2
      <4>2. /\ c \in Seq(Byte) /\ Len(c) = IF 1 <= z THEN z - 1 + 1 ELSE 0
            /\ \A i \in 1 .. z - 1 + 1 : c[i] = data[1 + i - 1]
        BY <4>1, SubSeqProperties
      <4>. HIDE DEF c
      <4>. QED  BY <3>2, <4>2
    <3>6. d \in Seq(Byte)
      <4>1. z + 1 \in Int /\ l \in Int /\ \A i \in z + 1 .. l : data[i] \in Byte
        BY <1>2, <3>2
      <4>. QED  BY <4>1, SubSeqProperties
    <3>7. c \o d = data
      <4>1. 1 \in 1 .. l + 1 /\ z \in 1 - 1 .. l /\ l \in z .. l
        BY <1>2, <3>2
      <4>. DEFINE y == SubSeq(data, 1, l)
      <4>2. c \o d = y
        BY <4>1, ConcatAdjacentSubSeq DEF l
      <4>3. y = data
        BY SubSeqFull DEF l
      <4>. QED  BY <4>2, <4>3
    <3>. HIDE DEF c, d
    <3>8. Len(c) = Len(e) /\ \A i \in 1 .. Len(c) : c[i] = e[i]
      BY <3>3, <3>4, <3>5
    <3>9. c = e
      BY <1>7, <3>5, <3>8, SeqEqual
    <3>. QED  BY <3>1, <3>6, <3>7, <3>9
  <2>. HIDE DEF r
  <2>6. (g \o e) \o r = g \o data
    <3>1. (g \o e) \o r = g \o (e \o r)
      <4>1. r \in Seq(Byte) /\ e \in Seq(Byte)
        BY <1>7, <2>5
      <4>2. g \in Seq(Byte)
        BY <1>2, Zenon
      <4>3. \A x, y \in Seq(Byte) : (g \o x) \o y = g \o (x \o y)
        BY <4>2, InRow, Zenon
      <4>4. \A y \in Seq(Byte) : (g \o e) \o y = g \o (e \o y)
        BY <4>1, <4>3, Zenon
      <4>. QED  BY <4>1, <4>4, Zenon
    <3>. QED  BY <2>5, <3>1
  <2>7. p.parts = m
    BY <2>1
  <2>8. (Stream(Append(got, p.parts)) \o r) \o wire = Stream(sent)
    BY <2>4, <2>6, <2>7 DEF g
  <2>. QED  BY <2>2, <2>3, <2>7, <2>8 DEF r, p
<1>12. CASE ~(Len(e) <= l)
  <2>1. l < Len(e)
    BY <1>2, <1>7, <1>12
  <2>2. p.ok => Len(p.parts) < 4
    BY <1>5, <1>8, <1>10, <2>1, CutFrame DEF MultiPart, e, l
  <2>3. Found(p, 1, l + 1)
    BY PartsFound DEF l
  <2>. HIDE DEF p
  <2>4. Len(p.parts) \in Nat
    <3>1. p.parts \in Seq(Seq(Byte))
      BY <2>3 DEF Found, Result
    <3>. QED  BY <3>1, LenProperties
  <2>5. ~Usable(p)
    BY <2>2, <2>4 DEF Usable
  <2>6. l < BufMax
    BY <1>2, <1>7, <1>8, <2>1, MessagesAre
  <2>. QED  BY <2>5, <2>6 DEF p, l
<1>. QED  BY <1>11, <1>12

\* DecodedAsSent with the operators of this module.
LEMMA DecodedIs ==
    DecodedAsSent <=> ((\A i \in DOMAIN fr_sent : WellFormed(fr_sent[i])) =>
                          /\ IsPrefix(fr_got, fr_sent)
                          /\ (Stream(fr_got) \o fr_rx) \o fr_wire = Stream(fr_sent))
BY DEF DecodedAsSent, Stream, Frames

LEMMA DecodedNext ==
    DecodedAsSent' <=> ((\A i \in DOMAIN fr_sent' : WellFormed(fr_sent'[i])) =>
                          /\ IsPrefix(fr_got', fr_sent')
                          /\ (Stream(fr_got') \o fr_rx') \o fr_wire' = Stream(fr_sent'))
BY DEF DecodedAsSent, Stream, Frames

LEMMA InitDecoded == FrInit => DecodedAsSent
<1>. SUFFICES ASSUME FrInit PROVE DecodedAsSent
  OBVIOUS
<1>1. fr_sent = << >> /\ fr_wire = << >> /\ fr_rx = << >> /\ fr_got = << >>
  BY DEF FrInit
<1>2. << >> \in Seq(MultiPart) /\ IsPrefix(<< >>, << >>)
  BY DEF IsPrefix
<1>3. Stream(<< >>) \in Seq(Byte)
  BY <1>2, FramesType
<1>. DEFINE s == Stream(<< >>)
<1>4. (s \o << >>) \o << >> = s
  <2>1. s \in Seq(Byte)
    BY <1>3
  <2>. HIDE DEF s
  <2>2. s \o << >> = s
    BY <2>1, ConcatEmptySeq
  <2>. QED  BY <2>2
<1>. HIDE DEF s
<1>. QED  BY <1>1, <1>2, <1>4, DecodedIs DEF s

LEMMA SendDecoded ==
    ASSUME FrTypeOK, DecodedAsSent, NEW msg \in Messages, PeerSends(msg)
    PROVE  DecodedAsSent'
<1>. DEFINE s == fr_sent
            a == Append(s, msg)
            g == Stream(fr_got)
            e == Encoded(msg)
            x == fr_rx
            w == fr_wire
<1>1. /\ fr_sent' = a /\ fr_wire' = w \o e /\ fr_rx' = x /\ fr_got' = fr_got
  BY DEF PeerSends
<1>2. s \in Seq(MultiPart) /\ x \in Seq(Byte) /\ w \in Seq(Byte) /\ fr_got \in Seq(MultiPart)
  <2>1. /\ fr_sent \in Seq(Messages) /\ fr_rx \in Seq(Byte) /\ fr_wire \in Seq(Byte)
        /\ fr_got \in Seq(MultiPart)
    BY DEF FrTypeOK, MultiPart
  <2>2. fr_sent \in Seq(MultiPart)
    BY <2>1, MessagesAre
  <2>. QED  BY <2>1, <2>2
<1>3. msg \in MultiPart /\ e \in Seq(Byte)
  BY MessagesAre, FrameFacts DEF MultiPart
<1>4. g \in Seq(Byte)
  BY <1>2, FramesType
<1>5. /\ a \in Seq(MultiPart) /\ Len(a) = Len(s) + 1 /\ \A i \in 1 .. Len(s) : a[i] = s[i]
      /\ Stream(a) = Stream(s) \o e
  BY <1>2, <1>3, AppendProperties, StreamAppend
<1>6. /\ Len(s) \in Nat /\ DOMAIN s = 1 .. Len(s) /\ DOMAIN a = 1 .. Len(s) + 1
      /\ Len(fr_got) \in Nat
  BY <1>2, <1>5, LenProperties
<1>. SUFFICES ASSUME \A i \in DOMAIN a : WellFormed(a[i])
              PROVE  /\ IsPrefix(fr_got, a)
                     /\ (g \o x) \o (w \o e) = Stream(a)
  <2>1. /\ fr_got' = fr_got /\ fr_sent' = a /\ fr_rx' = x /\ fr_wire' = w \o e
        /\ Stream(fr_got') = g
    BY <1>1
  <2>. HIDE DEF a, g, e, x, w
  <2>. QED  BY <2>1, DecodedNext
<1>7. \A i \in DOMAIN s : WellFormed(s[i])
  <2>1. \A i \in DOMAIN s : i \in DOMAIN a /\ a[i] = s[i]
    BY <1>5, <1>6
  <2>. QED  BY <2>1
<1>8. IsPrefix(fr_got, s) /\ (g \o x) \o w = Stream(s)
  BY <1>7, DecodedIs
<1>9. IsPrefix(fr_got, a)
  <2>1. Len(fr_got) <= Len(s) /\ \A i \in 1 .. Len(fr_got) : fr_got[i] = s[i]
    BY <1>2, <1>8, PrefixIs
  <2>. HIDE DEF a, s
  <2>2. Len(fr_got) <= Len(a) /\ \A i \in 1 .. Len(fr_got) : i \in 1 .. Len(s)
    BY <1>5, <1>6, <2>1
  <2>3. \A i \in 1 .. Len(fr_got) : fr_got[i] = a[i]
    BY <1>5, <2>1, <2>2
  <2>. QED  BY <1>2, <1>5, <2>2, <2>3, PrefixIs
<1>10. (g \o x) \o (w \o e) = Stream(a)
  <2>. DEFINE h == g \o x
  <2>1. h \in Seq(Byte)
    BY <1>2, <1>4, ConcatProperties
  <2>. HIDE DEF h, w, e
  <2>2. (h \o w) \o e = h \o (w \o e)
    <3>1. w \in Seq(Byte) /\ e \in Seq(Byte)
      BY <1>2, <1>3
    <3>2. Regroups(h, w, e)
      BY <2>1, <3>1, Regrouped, Zenon
    <3>. QED  BY <3>2, Zenon DEF Regroups
  <2>. QED  BY <1>5, <1>8, <2>2 DEF h
<1>. QED  BY <1>9, <1>10

LEMMA ReceiveDecoded ==
    ASSUME FrTypeOK, DecodedAsSent, NEW n \in 1 .. Len(fr_wire), TryReceive(n)
    PROVE  DecodedAsSent'
<1>. DEFINE s    == fr_sent
            g    == Stream(fr_got)
            a    == SubSeq(fr_wire, 1, n)
            b    == SubSeq(fr_wire, n + 1, Len(fr_wire))
            x    == fr_rx
            data == x \o a
            p    == Parts(data)
<1>1. /\ fr_wire' = b /\ fr_sent' = s
      /\ IF Usable(p)
           THEN fr_got' = Append(fr_got, p.parts) /\ fr_rx' = Rest(data, p)
           ELSE fr_rx' = (IF Len(data) = BufMax THEN << >> ELSE data) /\ fr_got' = fr_got
  BY DEF TryReceive
<1>2. s \in Seq(MultiPart) /\ x \in Seq(Byte) /\ fr_wire \in Seq(Byte) /\ fr_got \in Seq(MultiPart)
  <2>1. /\ fr_sent \in Seq(Messages) /\ fr_rx \in Seq(Byte) /\ fr_wire \in Seq(Byte)
        /\ fr_got \in Seq(MultiPart)
    BY DEF FrTypeOK, MultiPart
  <2>2. fr_sent \in Seq(MultiPart)
    BY <2>1, MessagesAre
  <2>. QED  BY <2>1, <2>2
<1>3. /\ a \in Seq(Byte) /\ b \in Seq(Byte) /\ a \o b = fr_wire
      /\ data \in Seq(Byte) /\ Len(data) = Len(x) + n /\ Len(x) \in Nat
  BY <1>2, Received
<1>4. g \in Seq(Byte)
  BY <1>2, FramesType
<1>5. data # << >>
  <2>1. n > 0 /\ n \in Int
    <3>1. Len(fr_wire) \in Nat
      BY <1>2, LenProperties
    <3>. QED  BY <3>1
  <2>. DEFINE l == Len(data)
              y == Len(x)
  <2>2. l = y + n /\ y \in Nat
    BY <1>3
  <2>. HIDE DEF l, y
  <2>3. l # 0
    BY <2>1, <2>2
  <2>4. data = << >> => l = 0
    BY DEF l
  <2>. QED  BY <2>3, <2>4
<1>. HIDE DEF a, b, data, p
<1>. SUFFICES ASSUME \A i \in DOMAIN s : WellFormed(s[i])
              PROVE  /\ IsPrefix(fr_got', s)
                     /\ (Stream(fr_got') \o fr_rx') \o fr_wire' = Stream(s)
  <2>1. fr_sent' = s
    BY <1>1
  <2>. QED  BY <2>1, DecodedNext
<1>6. IsPrefix(fr_got, s) /\ (g \o x) \o fr_wire = Stream(s)
  BY DecodedIs
<1>7. (g \o data) \o b = Stream(s)
  <2>. HIDE DEF g, x
  <2>1. a \in Seq(Byte) /\ b \in Seq(Byte) /\ g \in Seq(Byte) /\ x \in Seq(Byte)
    BY <1>2, <1>3, <1>4
  <2>. DEFINE h == g \o x
  <2>2. h \in Seq(Byte) /\ g \o (x \o a) = h \o a
    <3>1. Regroups(g, x, a) /\ g \o x \in Seq(Byte)
      BY <2>1, Regrouped, Joined, Zenon
    <3>. QED  BY <3>1, Zenon DEF Regroups
  <2>. HIDE DEF h
  <2>3. (h \o a) \o b = h \o (a \o b)
    <3>1. Regroups(h, a, b)
      BY <2>1, <2>2, Regrouped, Zenon
    <3>. QED  BY <3>1, Zenon DEF Regroups
  <2>4. h \o fr_wire = Stream(s)
    BY <1>6 DEF h
  <2>5. g \o data = h \o a
    BY <2>2 DEF data
  <2>. QED  BY <1>3, <2>3, <2>4, <2>5
<1>8. /\ Usable(p) => /\ IsPrefix(Append(fr_got, p.parts), s)
                      /\ (Stream(Append(fr_got, p.parts)) \o Rest(data, p)) \o b = Stream(s)
      /\ ~Usable(p) => Len(data) < BufMax
  BY <1>2, <1>3, <1>5, <1>6, <1>7, OneMore DEF p
<1>9. CASE Usable(p)
  <2>1. fr_got' = Append(fr_got, p.parts) /\ fr_rx' = Rest(data, p) /\ fr_wire' = b
    BY <1>1, <1>9
  <2>. QED  BY <1>8, <1>9, <2>1
<1>10. CASE ~Usable(p)
  <2>1. Len(data) # BufMax
    <3>1. Len(data) < BufMax /\ BufMax \in Nat
      BY <1>8, <1>10, MessagesAre
    <3>2. Len(data) \in Nat
      BY <1>3, LenProperties
    <3>. QED  BY <3>1, <3>2
  <2>2. fr_got' = fr_got /\ fr_rx' = data /\ fr_wire' = b
    BY <1>1, <1>10, <2>1
  <2>. QED  BY <1>6, <1>7, <2>2
<1>. QED  BY <1>9, <1>10

(* Wherever TCP cuts the stream, well-formed messages are decoded whole and*)
(* in the order they were sent, and no byte behind one is lost.            *)
THEOREM DecodedAsSentHolds == FrSpec => []DecodedAsSent
<1>1. FrTypeOK /\ DecodedAsSent /\ [FrNext]_frVars => DecodedAsSent'
  <2>. SUFFICES ASSUME FrTypeOK, DecodedAsSent, [FrNext]_frVars
                PROVE  DecodedAsSent'
    OBVIOUS
  <2>1. ASSUME NEW msg \in Messages, PeerSends(msg) PROVE DecodedAsSent'
    BY <2>1, SendDecoded
  <2>2. ASSUME NEW n \in 1 .. Len(fr_wire), TryReceive(n) PROVE DecodedAsSent'
    BY <2>2, ReceiveDecoded
  <2>3. ASSUME UNCHANGED frVars PROVE DecodedAsSent'
    <3>1. fr_sent' = fr_sent /\ fr_got' = fr_got /\ fr_rx' = fr_rx /\ fr_wire' = fr_wire
      BY <2>3 DEF frVars
    <3>. QED  BY <3>1, DecodedIs, DecodedNext
  <2>. QED  BY <2>1, <2>2, <2>3 DEF FrNext
<1>. QED  BY <1>1, InitDecoded, FrTypeOKHolds, PTL DEF FrSpec
============================================================================
