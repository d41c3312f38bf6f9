----------------------------- MODULE Net_proofs -----------------------------
(***************************************************************************)
(* What holds of the users of the WIZnet library, and of the memory of a   *)
(* socket under them, for any sizes, counts and neighbours.                *)
(***************************************************************************)
EXTENDS MCNetClients, Echo_proofs, FiniteSetTheorems

----------------------------------------------------------------------------
(* Pointers that wrap.                                                     *)

LEMMA DivMod ==
    ASSUME NEW a \in Int, NEW m \in Nat \ {0}
    PROVE  /\ a \div m \in Int /\ a % m \in 0 .. m - 1
           /\ a = m * (a \div m) + (a % m)
OBVIOUS

LEMMA TimesAtLeast ==
    ASSUME NEW m \in Nat, NEW k \in Nat \ {0}
    PROVE  m * k \in Nat /\ m * k >= m
OBVIOUS

LEMMA ModUnique ==
    ASSUME NEW m \in Nat \ {0}, NEW q \in Int, NEW r \in 0 .. m - 1
    PROVE  (m * q + r) % m = r
<1>. DEFINE a == m * q + r
            p == a \div m
            s == a % m
<1>1. a \in Int /\ p \in Int /\ s \in 0 .. m - 1 /\ a = m * p + s
  <2>1. a \in Int
    OBVIOUS
  <2>. HIDE DEF a
  <2>. QED  BY <2>1, DivMod
<1>. HIDE DEF p, s
<1>2. m * (q - p) = s - r
  BY <1>1
<1>3. ~(q - p >= 1)
  <2>. SUFFICES ASSUME q - p >= 1
                PROVE  FALSE
    OBVIOUS
  <2>1. m * (q - p) >= m
    BY <1>1, TimesAtLeast
  <2>. QED  BY <1>1, <1>2, <2>1
<1>4. ~(p - q >= 1)
  <2>. SUFFICES ASSUME p - q >= 1
                PROVE  FALSE
    OBVIOUS
  <2>1. m * (p - q) >= m
    BY <1>1, TimesAtLeast
  <2>2. m * (p - q) = r - s
    BY <1>1
  <2>. QED  BY <1>1, <2>1, <2>2
<1>5. p = q
  BY <1>1, <1>3, <1>4
<1>. QED  BY <1>1, <1>5 DEF s


LEMMA ModSmall ==
    ASSUME NEW m \in Nat \ {0}, NEW r \in 0 .. m - 1
    PROVE  r % m = r
<1>1. r = m * 0 + r
  OBVIOUS
<1>. QED  BY <1>1, ModUnique

LEMMA ModShift ==
    ASSUME NEW m \in Nat \ {0}, NEW a \in Int, NEW k \in Int
    PROVE  (a + m * k) % m = a % m
<1>. DEFINE q == a \div m
            r == a % m
<1>1. q \in Int /\ r \in 0 .. m - 1 /\ a = m * q + r
  BY DivMod
<1>. HIDE DEF q, r
<1>2. m * (q + k) = m * q + m * k
  BY <1>1
<1>3. a + m * k = m * (q + k) + r
  BY <1>1, <1>2
<1>4. (m * (q + k) + r) % m = r
  BY <1>1, ModUnique
<1>. QED  BY <1>3, <1>4 DEF r

LEMMA ModInside ==
    ASSUME NEW m \in Nat \ {0}, NEW a \in Int, NEW b \in Int
    PROVE  ((a % m) + b) % m = (a + b) % m
<1>. DEFINE q == a \div m
            r == a % m
<1>1. q \in Int /\ r \in 0 .. m - 1 /\ a = m * q + r
  BY DivMod
<1>. HIDE DEF q, r
<1>2. (r + b + m * q) % m = (r + b) % m
  <2>. DEFINE c == r + b
  <2>1. c \in Int
    BY <1>1
  <2>. HIDE DEF c
  <2>2. (c + m * q) % m = c % m
    BY <1>1, <2>1, ModShift
  <2>. QED  BY <2>2 DEF c
<1>3. r + b + m * q = a + b
  BY <1>1
<1>. QED  BY <1>2, <1>3 DEF r

Ptrs == 0 .. Word - 1

LEMMA Sizes ==
    /\ Word \in Nat \ {0} /\ SIZE \in Nat \ {0} /\ SIZE < Word /\ BYTE \in Nat \ {0}
    /\ Word = SIZE * (Word \div SIZE) /\ Word \div SIZE \in Int
<1>1. Word \in Nat
  BY MemoryAssumption DEF Word
<1>2. Word \in Nat \ {0} /\ SIZE \in Nat \ {0} /\ SIZE < Word
  BY <1>1, MemoryAssumption
<1>3. BYTE # 0
  <2>. SUFFICES ASSUME BYTE = 0
                PROVE  FALSE
    OBVIOUS
  <2>1. Word = 0
    BY DEF Word
  <2>. QED  BY <1>2, <2>1
<1>4. /\ Word = SIZE * (Word \div SIZE) + (Word % SIZE) /\ Word \div SIZE \in Int
  BY <1>2, DivMod
<1>. QED  BY <1>2, <1>3, <1>4, MemoryAssumption

\* The same place in the ring, whether the pointer has wrapped or not.
LEMMA SameCell ==
    ASSUME NEW k \in Int, NEW i \in Int
    PROVE  ((k % Word) + i) % SIZE = (k + i) % SIZE
<1>. DEFINE w == Word
            q == k \div w
            r == k % w
            d == w \div SIZE
<1>1. q \in Int /\ r \in Int /\ k = w * q + r
  BY Sizes, DivMod
<1>2. d \in Int /\ w = SIZE * d /\ SIZE \in Nat \ {0} /\ w \in Nat
  BY Sizes
<1>. HIDE DEF w, q, r, d
<1>3. ((r + i) + SIZE * (d * q)) % SIZE = (r + i) % SIZE
  <2>1. d * q \in Int /\ r + i \in Int
    BY <1>1, <1>2
  <2>. QED  BY <1>2, <2>1, ModShift
<1>4. SIZE * (d * q) = w * q
  BY <1>1, <1>2
<1>5. (r + i) + SIZE * (d * q) = k + i
  BY <1>1, <1>2, <1>4
<1>. QED  BY <1>3, <1>5 DEF r, w

\* How far one pointer is ahead of another.
Ahead(p, q) == (p - q) % Word

LEMMA AheadIs ==
    ASSUME NEW p \in Ptrs, NEW q \in Ptrs
    PROVE  Ahead(p, q) = IF q <= p THEN p - q ELSE p - q + Word
<1>. DEFINE w == Word
<1>1. w \in Nat \ {0} /\ p \in 0 .. w - 1 /\ q \in 0 .. w - 1
  BY Sizes DEF Ptrs
<1>2. Ahead(p, q) = (p - q) % w
  BY DEF Ahead
<1>. HIDE DEF w
<1>3. CASE q <= p
  <2>1. p - q \in 0 .. w - 1
    BY <1>1, <1>3
  <2>. QED  BY <1>1, <1>2, <1>3, <2>1, ModSmall DEF w
<1>4. CASE ~(q <= p)
  <2>1. p - q + w \in 0 .. w - 1 /\ p - q = w * (-1) + (p - q + w)
    BY <1>1, <1>4
  <2>2. (w * (-1) + (p - q + w)) % w = p - q + w
    BY <1>1, <2>1, ModUnique
  <2>. QED  BY <1>2, <1>4, <2>1, <2>2 DEF w
<1>. QED  BY <1>3, <1>4

LEMMA PastIs ==
    ASSUME NEW p \in Ptrs, NEW n \in 0 .. Word
    PROVE  /\ (p + n) % Word = IF p + n < Word THEN p + n ELSE p + n - Word
           /\ (p + n) % Word \in Ptrs
<1>. DEFINE w == Word
<1>1. w \in Nat \ {0} /\ p \in 0 .. w - 1 /\ n \in 0 .. w
  BY Sizes DEF Ptrs
<1>. HIDE DEF w
<1>2. CASE p + n < w
  <2>1. p + n \in 0 .. w - 1
    BY <1>1, <1>2
  <2>2. (p + n) % w = p + n
    BY <1>1, <2>1, ModSmall
  <2>. QED  BY <1>2, <2>1, <2>2 DEF Ptrs, w
<1>3. CASE ~(p + n < w)
  <2>1. p + n - w \in 0 .. w - 1 /\ p + n = w * 1 + (p + n - w)
    BY <1>1, <1>3
  <2>2. (w * 1 + (p + n - w)) % w = p + n - w
    BY <1>1, <2>1, ModUnique
  <2>. QED  BY <1>3, <2>1, <2>2 DEF Ptrs, w
<1>. QED  BY <1>2, <1>3

\* Distances, when one of two pointers moves on.
LEMMA AheadFacts ==
    ASSUME NEW p \in Ptrs, NEW q \in Ptrs
    PROVE  /\ Ahead(p, q) \in 0 .. Word - 1 /\ Ahead(p, p) = 0
           /\ p = (q + Ahead(p, q)) % Word
           /\ \A n \in 0 .. Word :
                  /\ Ahead(p, q) + n < Word => Ahead((p + n) % Word, q) = Ahead(p, q) + n
                  /\ n <= Ahead(p, q) => Ahead(p, (q + n) % Word) = Ahead(p, q) - n
<1>. DEFINE w == Word
<1>1. w \in Nat \ {0} /\ p \in 0 .. w - 1 /\ q \in 0 .. w - 1
  BY Sizes DEF Ptrs
<1>2. Ahead(p, q) = IF q <= p THEN p - q ELSE p - q + w
  BY AheadIs DEF w
<1>3. Ahead(p, p) = 0
  BY <1>1, AheadIs
<1>4. ASSUME NEW x \in Ptrs, NEW n \in 0 .. w
      PROVE  /\ (x + n) % w = IF x + n < w THEN x + n ELSE x + n - w
             /\ (x + n) % w \in Ptrs
  BY PastIs DEF w
<1>5. ASSUME NEW x \in Ptrs, NEW y \in Ptrs
      PROVE  Ahead(x, y) = IF y <= x THEN x - y ELSE x - y + w
  BY AheadIs DEF w
<1>6. \A x : x \in Ptrs => x \in 0 .. w - 1
  BY DEF Ptrs, w
<1>. HIDE DEF w
<1>7. Ahead(p, q) \in 0 .. w - 1
  BY <1>1, <1>2
<1>8. p = (q + Ahead(p, q)) % w
  <2>. DEFINE a == Ahead(p, q)
  <2>1. a \in 0 .. w /\ a = IF q <= p THEN p - q ELSE p - q + w
    BY <1>1, <1>2, <1>7
  <2>. HIDE DEF a
  <2>2. (q + a) % w = IF q + a < w THEN q + a ELSE q + a - w
    BY <1>4, <2>1
  <2>3. (q + a) % w = p
    BY <1>1, <2>1, <2>2
  <2>. QED  BY <2>3 DEF a
<1>9. ASSUME NEW n \in 0 .. w
      PROVE  /\ Ahead(p, q) + n < w => Ahead((p + n) % w, q) = Ahead(p, q) + n
             /\ n <= Ahead(p, q) => Ahead(p, (q + n) % w) = Ahead(p, q) - n
  <2>. DEFINE u == (p + n) % w
              v == (q + n) % w
  <2>1. /\ u = (IF p + n < w THEN p + n ELSE p + n - w) /\ u \in Ptrs
        /\ v = (IF q + n < w THEN q + n ELSE q + n - w) /\ v \in Ptrs
    BY <1>4
  <2>. HIDE DEF u, v
  <2>2. /\ Ahead(u, q) = IF q <= u THEN u - q ELSE u - q + w
        /\ Ahead(p, v) = IF v <= p THEN p - v ELSE p - v + w
    BY <1>5, <2>1
  <2>3. Ahead(p, q) + n < w => Ahead(u, q) = Ahead(p, q) + n
    BY <1>1, <1>2, <2>1, <2>2
  <2>4. n <= Ahead(p, q) => Ahead(p, v) = Ahead(p, q) - n
    BY <1>1, <1>2, <2>1, <2>2
  <2>. QED  BY <2>3, <2>4 DEF u, v
<1>. QED  BY <1>3, <1>7, <1>8, <1>9 DEF w

----------------------------------------------------------------------------
(* The ring.                                                               *)

Rings         == [0 .. SIZE - 1 -> 0 .. Word - 1]
CellsFrom(r, from, n) == [i \in 1 .. n |-> r[(from + i - 1) % SIZE]]
Written(r, from, n) ==
    [a \in 0 .. SIZE - 1 |->
        IF (a - from) % SIZE < n THEN (from + ((a - from) % SIZE)) % Word ELSE r[a]]

LEMMA CellsExist ==
    ASSUME NEW k \in Int
    PROVE  k % SIZE \in 0 .. SIZE - 1
<1>. DEFINE z == SIZE
<1>1. z \in Nat \ {0}
  BY Sizes
<1>. HIDE DEF z
<1>2. k % z \in 0 .. z - 1
  BY <1>1, DivMod
<1>. QED  BY <1>2 DEF z

\* The place of a byte before the pointer wr, seen from wr.
LEMMA CellBehind ==
    ASSUME NEW rd \in Ptrs, NEW d \in 1 .. SIZE, NEW i \in 0 .. d - 1
    PROVE  (((rd + i) % SIZE) - ((rd + d) % Word)) % SIZE = i - d + SIZE
<1>. DEFINE z == SIZE
            w == Word
            c == w \div z
            wr == (rd + d) % w
<1>1. /\ z \in Nat \ {0} /\ w \in Nat /\ z < w /\ c \in Int /\ w = z * c
  BY Sizes
<1>2. (wr = rd + d \/ wr = rd + d - w) /\ wr \in Int /\ rd \in Int
  <2>1. d \in 0 .. Word
    BY Sizes
  <2>. QED  BY <2>1, PastIs DEF Ptrs
<1>. HIDE DEF z, w, c, wr
<1>3. d \in 1 .. z /\ i \in 0 .. d - 1
  BY DEF z
<1>4. (((rd + i) % z) + (-wr)) % z = ((rd + i) + (-wr)) % z
  <2>. DEFINE a == rd + i
              b == -wr
  <2>1. a \in Int /\ b \in Int
    BY <1>2, <1>3
  <2>. HIDE DEF a, b
  <2>2. ((a % z) + b) % z = (a + b) % z
    BY <1>1, <2>1, ModInside
  <2>. QED  BY <2>2 DEF a, b
<1>5. \E k \in Int : (rd + i) + (-wr) = z * k + (i - d + z)
  <2>1. CASE wr = rd + d
    <3>1. z * (-1) = -z
      BY <1>1
    <3>2. (rd + i) + (-wr) = z * (-1) + (i - d + z)
      BY <1>1, <1>2, <1>3, <2>1, <3>1
    <3>. QED  BY <3>2
  <2>2. CASE wr = rd + d - w
    <3>1. z * (c - 1) = z * c - z /\ c - 1 \in Int
      BY <1>1
    <3>2. (rd + i) + (-wr) = z * (c - 1) + (i - d + z)
      BY <1>1, <1>2, <1>3, <2>2, <3>1
    <3>. QED  BY <3>1, <3>2
  <2>. QED  BY <1>2, <2>1, <2>2
<1>6. PICK k \in Int : (rd + i) + (-wr) = z * k + (i - d + z)
  BY <1>5
<1>7. i - d + z \in 0 .. z - 1
  BY <1>1, <1>3
<1>8. (z * k + (i - d + z)) % z = i - d + z
  BY <1>1, <1>7, ModUnique
<1>9. ((rd + i) % z) \in Int /\ ((rd + i) % z) + (-wr) = ((rd + i) % z) - wr
  <2>1. rd + i \in Int
    BY <1>2, <1>3
  <2>2. (rd + i) % z \in 0 .. z - 1
    BY <1>1, <2>1, DivMod
  <2>. QED  BY <1>2, <2>2
<1>. QED  BY <1>4, <1>6, <1>8, <1>9 DEF z, w, wr

LEMMA CellAhead ==
    ASSUME NEW wr \in Ptrs, NEW j \in 0 .. SIZE - 1
    PROVE  (((wr + j) % SIZE) - wr) % SIZE = j
<1>. DEFINE z == SIZE
<1>1. z \in Nat \ {0} /\ wr \in Int /\ j \in 0 .. z - 1
  BY Sizes DEF Ptrs
<1>. HIDE DEF z
<1>2. (((wr + j) % z) + (-wr)) % z = ((wr + j) + (-wr)) % z
  <2>. DEFINE a == wr + j
              b == -wr
  <2>1. a \in Int /\ b \in Int
    BY <1>1
  <2>. HIDE DEF a, b
  <2>2. ((a % z) + b) % z = (a + b) % z
    BY <1>1, <2>1, ModInside
  <2>. QED  BY <2>2 DEF a, b
<1>3. (wr + j) + (-wr) = j /\ j % z = j
  BY <1>1, ModSmall
<1>4. ((wr + j) % z) + (-wr) = ((wr + j) % z) - wr
  <2>1. wr + j \in Int
    BY <1>1
  <2>2. (wr + j) % z \in 0 .. z - 1
    BY <1>1, <2>1, DivMod
  <2>. QED  BY <1>1, <2>2
<1>. QED  BY <1>2, <1>3, <1>4 DEF z

\* What is written at wr leaves the d bytes before it alone, if there is room.
LEMMA WrittenFacts ==
    ASSUME NEW r \in Rings, NEW rd \in Ptrs, NEW d \in 0 .. SIZE, NEW n \in 0 .. SIZE - d,
           NEW wr, wr = (rd + d) % Word
    PROVE  /\ Written(r, wr, n) \in Rings
           /\ CellsFrom(Written(r, wr, n), rd, d) = CellsFrom(r, rd, d)
           /\ \A j \in 0 .. n - 1 : Written(r, wr, n)[(wr + j) % SIZE] = (wr + j) % Word
<1>. DEFINE s == Written(r, wr, n)
            W(k) == k % Word
<1>1. wr \in Ptrs /\ rd \in Int /\ wr \in Int
  <2>1. d \in 0 .. Word
    BY Sizes
  <2>. QED  BY <2>1, PastIs DEF Ptrs
<1>2. \A k \in Int : W(k) \in 0 .. Word - 1
  BY Sizes, DivMod
<1>3. \A a \in 0 .. SIZE - 1 :
          s[a] = IF (a - wr) % SIZE < n THEN W(wr + ((a - wr) % SIZE)) ELSE r[a]
  BY DEF Written
<1>4. DOMAIN s = 0 .. SIZE - 1 /\ s = [a \in 0 .. SIZE - 1 |-> s[a]]
  BY DEF Written
<1>. HIDE DEF s, W
<1>5. s \in Rings
  <2>1. ASSUME NEW a \in 0 .. SIZE - 1
        PROVE  s[a] \in 0 .. Word - 1
    <3>1. a - wr \in Int
      BY <1>1
    <3>2. (a - wr) % SIZE \in 0 .. SIZE - 1
      BY <3>1, CellsExist
    <3>3. wr + ((a - wr) % SIZE) \in Int
      BY <1>1, <3>2
    <3>. QED  BY <1>2, <1>3, <3>3 DEF Rings
  <2>. QED  BY <1>4, <2>1 DEF Rings
<1>6. ASSUME NEW i \in 0 .. d - 1
      PROVE  s[(rd + i) % SIZE] = r[(rd + i) % SIZE]
  <2>. DEFINE a == (rd + i) % SIZE
  <2>1. a \in 0 .. SIZE - 1
    <3>1. rd + i \in Int
      BY <1>1
    <3>. QED  BY <3>1, CellsExist
  <2>2. (a - wr) % SIZE = i - d + SIZE
    <3>1. d \in 1 .. SIZE
      OBVIOUS
    <3>. QED  BY <3>1, CellBehind
  <2>. HIDE DEF a
  <2>3. ~(i - d + SIZE < n)
    BY Sizes
  <2>. QED  BY <1>3, <2>1, <2>2, <2>3 DEF a
<1>7. ASSUME NEW j \in 0 .. n - 1
      PROVE  s[(wr + j) % SIZE] = W(wr + j)
  <2>. DEFINE a == (wr + j) % SIZE
  <2>1. a \in 0 .. SIZE - 1
    <3>1. wr + j \in Int
      BY <1>1
    <3>. QED  BY <3>1, CellsExist
  <2>2. (a - wr) % SIZE = j
    <3>1. j \in 0 .. SIZE - 1
      BY Sizes
    <3>. QED  BY <1>1, <3>1, CellAhead
  <2>. HIDE DEF a
  <2>3. j < n
    OBVIOUS
  <2>. QED  BY <1>3, <2>1, <2>2, <2>3 DEF a
<1>8. CellsFrom(s, rd, d) = CellsFrom(r, rd, d)
  <2>1. ASSUME NEW i \in 1 .. d
        PROVE  s[(rd + i - 1) % SIZE] = r[(rd + i - 1) % SIZE]
    <3>1. i - 1 \in 0 .. d - 1 /\ rd + (i - 1) = rd + i - 1
      BY <1>1
    <3>. QED  BY <1>6, <3>1
  <2>. QED  BY <2>1 DEF CellsFrom
<1>. QED  BY <1>5, <1>7, <1>8 DEF s, W

LEMMA LenAt ==
    ASSUME NEW r \in Rings, NEW from \in Ptrs, NEW n \in Nat
    PROVE  CellsFrom(r, from, n) \in Seq(0 .. Word - 1) /\ Len(CellsFrom(r, from, n)) = n
<1>. DEFINE V == 0 .. Word - 1
<1>1. ASSUME NEW i \in 1 .. n
      PROVE  r[(from + i - 1) % SIZE] \in V
  <2>1. from + i - 1 \in Int
    BY Sizes DEF Ptrs
  <2>. QED  BY <2>1, CellsExist DEF Rings
<1>. HIDE DEF V
<1>. QED  BY <1>1 DEF CellsFrom, V

LEMMA LenBytes ==
    ASSUME NEW from \in Int, NEW n \in Nat
    PROVE  Bytes16(from, n) \in Seq(0 .. Word - 1) /\ Len(Bytes16(from, n)) = n
<1>. DEFINE V == 0 .. Word - 1
<1>1. ASSUME NEW i \in 1 .. n
      PROVE  (from + i - 1) % Word \in V
  <2>1. from + i - 1 \in Int /\ Word \in Nat \ {0}
    BY Sizes
  <2>. QED  BY <2>1, DivMod
<1>. HIDE DEF V
<1>. QED  BY <1>1 DEF Bytes16, V

\* The bytes at wr come after the d bytes from rd on.
LEMMA PutFacts ==
    ASSUME NEW r \in Rings, NEW rd \in Ptrs, NEW d \in 0 .. SIZE, NEW n \in 0 .. SIZE - d,
           NEW wr, wr = (rd + d) % Word,
           \A j \in 0 .. n - 1 : r[(wr + j) % SIZE] = (wr + j) % Word
    PROVE  CellsFrom(r, rd, d + n) = CellsFrom(r, rd, d) \o Bytes16(wr, n)
<1>. DEFINE W(k) == k % Word
            C(k) == k % SIZE
            a == CellsFrom(r, rd, d)
            b == Bytes16(wr, n)
<1>1. wr \in Int /\ rd \in Int /\ d \in Nat /\ n \in Nat
  <2>1. d \in 0 .. Word /\ d \in Nat /\ n \in Nat
    BY Sizes
  <2>. QED  BY <2>1, PastIs DEF Ptrs
<1>2. \A j \in 0 .. n - 1 : r[C(wr + j)] = W(wr + j)
  OBVIOUS
<1>3. \A i \in Int : C(wr + i) = C(rd + d + i)
  <2>1. rd + d \in Int
    BY <1>1
  <2>. QED  BY <2>1, SameCell
<1>4. a = [i \in 1 .. d |-> r[C(rd + i - 1)]] /\ b = [i \in 1 .. n |-> W(wr + i - 1)]
      /\ CellsFrom(r, rd, d + n) = [i \in 1 .. d + n |-> r[C(rd + i - 1)]]
  BY DEF CellsFrom, Bytes16
<1>. HIDE DEF W, C, a, b
<1>5. ASSUME NEW i \in 1 .. n
      PROVE  r[C(rd + (d + i) - 1)] = W(wr + i - 1)
  <2>1. i - 1 \in 0 .. n - 1 /\ i - 1 \in Int
    BY <1>1
  <2>2. r[C(wr + (i - 1))] = W(wr + (i - 1)) /\ C(wr + (i - 1)) = C(rd + d + (i - 1))
    BY <1>2, <1>3, <2>1
  <2>3. wr + (i - 1) = wr + i - 1 /\ rd + d + (i - 1) = rd + (d + i) - 1
    BY <1>1
  <2>. QED  BY <2>2, <2>3
<1>6. /\ a \o b \in Seq(0 .. Word - 1) /\ Len(a \o b) = d + n
      /\ \A i \in 1 .. d + n : (a \o b)[i] = IF i <= d THEN a[i] ELSE b[i - d]
  <2>. DEFINE V == 0 .. Word - 1
  <2>1. a \in Seq(V) /\ Len(a) = d
    BY <1>1, LenAt DEF a
  <2>2. b \in Seq(V) /\ Len(b) = n
    BY <1>1, LenBytes DEF b
  <2>. HIDE DEF V
  <2>3. /\ a \o b \in Seq(V) /\ Len(a \o b) = d + n
        /\ \A i \in 1 .. d + n : (a \o b)[i] = IF i <= d THEN a[i] ELSE b[i - d]
    BY <2>1, <2>2, ConcatProperties
  <2>. QED  BY <2>3 DEF V
<1>7. ASSUME NEW i \in 1 .. d + n
      PROVE  r[C(rd + i - 1)] = IF i <= d THEN a[i] ELSE b[i - d]
  <2>1. CASE i <= d
    BY <1>1, <1>4, <2>1
  <2>2. CASE ~(i <= d)
    <3>1. i - d \in 1 .. n /\ d + (i - d) = i
      BY <1>1, <2>2
    <3>2. r[C(rd + (d + (i - d)) - 1)] = b[i - d]
      BY <1>4, <1>5, <3>1
    <3>. QED  BY <2>2, <3>1, <3>2
  <2>. QED  BY <2>1, <2>2
<1>8. CellsFrom(r, rd, d + n) = a \o b
  <2>. DEFINE V == 0 .. Word - 1
              e == CellsFrom(r, rd, d + n)
              f == a \o b
  <2>1. e \in Seq(V) /\ Len(e) = d + n
    <3>1. d + n \in Nat
      BY <1>1
    <3>. QED  BY <3>1, LenAt
  <2>2. \A i \in 1 .. d + n : e[i] = f[i]
    BY <1>4, <1>6, <1>7
  <2>3. f \in Seq(V) /\ Len(f) = d + n
    BY <1>6
  <2>. HIDE DEF V, e, f
  <2>4. e = f
    BY <2>1, <2>2, <2>3, SeqEqual
  <2>. QED  BY <2>4 DEF e, f
<1>. QED  BY <1>8 DEF a, b

\* The first n of the d bytes from rd on, and the others.
LEMMA TakeFacts ==
    ASSUME NEW r \in Rings, NEW rd \in Ptrs, NEW d \in 0 .. SIZE, NEW n \in 0 .. d
    PROVE  /\ CellsFrom(r, rd, n) = SubSeq(CellsFrom(r, rd, d), 1, n)
           /\ CellsFrom(r, (rd + n) % Word, d - n) = SubSeq(CellsFrom(r, rd, d), n + 1, d)
<1>. DEFINE C(k) == k % SIZE
            a == CellsFrom(r, rd, d)
            p == (rd + n) % Word
<1>1. rd \in Int /\ d \in Nat /\ n \in Nat /\ d - n \in Nat /\ p \in Int
  <2>1. n \in 0 .. Word /\ d \in Nat
    BY Sizes
  <2>. QED  BY <2>1, PastIs DEF Ptrs
<1>2. a \in Seq(0 .. Word - 1) /\ Len(a) = d
  BY <1>1, LenAt
<1>3. \A i \in Int : C(p + i) = C(rd + n + i)
  <2>1. rd + n \in Int
    BY <1>1
  <2>. QED  BY <2>1, SameCell
<1>4. /\ CellsFrom(r, rd, n) = [i \in 1 .. n |-> r[C(rd + i - 1)]]
      /\ CellsFrom(r, p, d - n) = [i \in 1 .. d - n |-> r[C(p + i - 1)]]
      /\ a = [i \in 1 .. d |-> r[C(rd + i - 1)]]
  BY DEF CellsFrom
<1>. HIDE DEF C, a, p
<1>5. SubSeq(a, 1, n) = [i \in 1 .. n |-> a[i]]
  <2>1. SubSeq(a, 1, n) = [i \in 1 .. (n - 1 + 1) |-> a[i + 1 - 1]]
    BY <1>1, <1>2
  <2>2. n - 1 + 1 = n /\ \A i \in 1 .. n : i + 1 - 1 = i
    BY <1>1
  <2>. QED  BY <2>1, <2>2
<1>6. SubSeq(a, n + 1, d) = [i \in 1 .. d - n |-> a[n + i]]
  <2>1. SubSeq(a, n + 1, d) = [i \in 1 .. (d - (n + 1) + 1) |-> a[i + (n + 1) - 1]]
    BY <1>1, <1>2
  <2>2. d - (n + 1) + 1 = d - n /\ \A i \in 1 .. d - n : i + (n + 1) - 1 = n + i
    BY <1>1
  <2>. QED  BY <2>1, <2>2
<1>7. CellsFrom(r, rd, n) = SubSeq(a, 1, n)
  <2>1. \A i \in 1 .. n : i \in 1 .. d
    BY <1>1
  <2>2. ASSUME NEW i \in 1 .. n
        PROVE  r[C(rd + i - 1)] = a[i]
    BY <1>4, <2>1
  <2>3. [i \in 1 .. n |-> r[C(rd + i - 1)]] = [i \in 1 .. n |-> a[i]]
    BY <2>2
  <2>. QED  BY <1>4, <1>5, <2>3, Zenon
<1>8. CellsFrom(r, p, d - n) = SubSeq(a, n + 1, d)
  <2>1. ASSUME NEW i \in 1 .. d - n
        PROVE  r[C(p + i - 1)] = a[n + i]
    <3>1. n + i \in 1 .. d /\ i - 1 \in Int
      BY <1>1
    <3>2. C(p + (i - 1)) = C(rd + n + (i - 1))
      BY <1>3, <3>1
    <3>3. p + (i - 1) = p + i - 1 /\ rd + n + (i - 1) = rd + (n + i) - 1
      BY <1>1
    <3>. QED  BY <1>4, <3>1, <3>2, <3>3
  <2>2. [i \in 1 .. d - n |-> r[C(p + i - 1)]] = [i \in 1 .. d - n |-> a[n + i]]
    BY <2>1
  <2>. QED  BY <1>4, <1>6, <2>2, Zenon
<1>. QED  BY <1>7, <1>8 DEF a, p

----------------------------------------------------------------------------
(* The library and the chip at one ring.                                   *)

Held == Ahead(Sn_WR, Sn_RD)

RingType ==
    /\ receives \in BOOLEAN /\ ring \in Rings
    /\ Sn_RD \in Ptrs /\ Sn_WR \in Ptrs /\ commanded \in Ptrs

LibType ==
    /\ mem_pc \in {"idle", "high", "low", "high again", "low again", "sized", "copied", "moved"}
    /\ val1 \in 0 .. SIZE /\ val \in 0 .. SIZE
    /\ wizdata \in Seq(Ptrs) /\ Len(wizdata) <= SIZE
    /\ moved \in Seq(Ptrs) /\ Len(moved) <= SIZE

\* While a size is read it only grows: no reading, torn or not, is too large.
SizeInv ==
    /\ mem_pc = "low" => val1 <= High
    /\ mem_pc \in {"high again", "low again"} => val1 <= SizeRegister
    /\ mem_pc = "low again" => val <= High
    /\ mem_pc = "sized" => val <= SizeRegister

\* The chip counts from the pointer of the last command, which stays behind for
\* as long as the library has moved its pointer and not told.
ReceiveInv ==
    /\ Ahead(Sn_WR, commanded) <= SIZE
    /\ IF mem_pc = "moved" THEN Ahead(Sn_WR, commanded) = Held + Len(wizdata)
                           ELSE commanded = Sn_RD
    /\ mem_pc = "copied" => /\ Len(wizdata) \in 1 .. Held
                            /\ wizdata = CellsFrom(ring, Sn_RD, Len(wizdata))

SendInv ==
    /\ Held <= SIZE
    /\ IF mem_pc = "moved" THEN Held = Ahead(commanded, Sn_RD) + Len(wizdata)
                           ELSE commanded = Sn_WR
    /\ mem_pc = "copied" =>
           /\ Len(wizdata) \in 1 .. SIZE - Held
           /\ \A j \in 0 .. Len(wizdata) - 1 : ring[(Sn_WR + j) % SIZE] = (Sn_WR + j) % Word

PointersInv == (receives => ReceiveInv) /\ (~receives => SendInv)

MemInv == RingType /\ LibType /\ SizeInv /\ PointersInv

LEMMA HeldFits ==
    ASSUME RingType, LibType, PointersInv
    PROVE  /\ Held \in 0 .. SIZE /\ Ahead(Sn_WR, commanded) \in Nat /\ Ahead(commanded, Sn_RD) \in Nat
           /\ Sn_WR = (Sn_RD + Held) % Word
           /\ SizeRegister = IF receives THEN Ahead(Sn_WR, commanded) ELSE SIZE - Held
           /\ SizeRegister \in 0 .. SIZE
<1>1. /\ Held \in 0 .. Word - 1 /\ Ahead(Sn_WR, commanded) \in 0 .. Word - 1
      /\ Ahead(commanded, Sn_RD) \in 0 .. Word - 1
      /\ Sn_WR = (Sn_RD + Held) % Word
  BY AheadFacts DEF RingType, Held
<1>2. SizeRegister = IF receives THEN Ahead(Sn_WR, commanded) ELSE SIZE - Held
  BY DEF SizeRegister, Ahead, Held
<1>3. Len(wizdata) \in Nat /\ Word \in Nat /\ SIZE \in Nat
  <2>1. Len(wizdata) \in Nat
    <3>1. wizdata \in Seq(Ptrs)
      BY DEF LibType
    <3>. QED  BY <3>1, LenProperties
  <2>. QED  BY <2>1, Sizes
<1>4. CASE receives
  <2>1. Ahead(Sn_WR, commanded) <= SIZE /\ Held <= Ahead(Sn_WR, commanded)
    BY <1>1, <1>3, <1>4 DEF PointersInv, ReceiveInv, Held
  <2>. QED  BY <1>1, <1>2, <1>3, <1>4, <2>1
<1>5. CASE ~receives
  <2>1. Held <= SIZE
    BY <1>5 DEF PointersInv, SendInv
  <2>. QED  BY <1>1, <1>2, <1>3, <1>5, <2>1
<1>. QED  BY <1>4, <1>5

\* The two bytes of a size.
LEMMA BytesOf ==
    ASSUME NEW s \in Nat
    PROVE  /\ s \div BYTE \in 0 .. s /\ s % BYTE \in Nat
           /\ \A x \in Nat : x <= s \div BYTE => x * BYTE + (s % BYTE) \in 0 .. s
           /\ \A t \in Nat : s <= t => s \div BYTE <= t \div BYTE
<1>. DEFINE b == BYTE
            h == s \div b
            l == s % b
<1>1. b \in Nat \ {0}
  BY Sizes
<1>. HIDE DEF b
<1>2. h \in Int /\ l \in 0 .. b - 1 /\ s = b * h + l
  BY <1>1, DivMod
<1>. HIDE DEF h, l
<1>3. h >= 0
  <2>. SUFFICES ASSUME h <= -1
                PROVE  FALSE
    BY <1>2
  <2>1. -h \in Nat \ {0}
    BY <1>2
  <2>2. b * (-h) >= b
    BY <1>1, <2>1, TimesAtLeast
  <2>3. b * (-h) = -(b * h)
    BY <1>1, <1>2
  <2>. QED  BY <1>1, <1>2, <2>2, <2>3
<1>4. h <= s
  <2>1. CASE h = 0
    BY <1>2, <2>1
  <2>2. CASE h # 0
    <3>1. b * h >= h
      BY <1>1, <1>2, <1>3, <2>2
    <3>. QED  BY <1>1, <1>2, <3>1
  <2>. QED  BY <2>1, <2>2
<1>5. ASSUME NEW x \in Nat, x <= h
      PROVE  x * b + l \in 0 .. s
  <2>1. x * b \in Nat /\ b * h = x * b + b * (h - x) /\ b * (h - x) >= 0
    BY <1>1, <1>2, <1>3, <1>5
  <2>. QED  BY <1>1, <1>2, <2>1
<1>6. ASSUME NEW t \in Nat, s <= t
      PROVE  h <= t \div b
  <2>. DEFINE g == t \div b
              k == t % b
  <2>1. g \in Int /\ k \in 0 .. b - 1 /\ t = b * g + k
    BY <1>1, DivMod
  <2>. HIDE DEF g, k
  <2>2. SUFFICES ASSUME g <= h - 1
                 PROVE  FALSE
    BY <1>2, <2>1 DEF g
  <2>3. h - g \in Nat \ {0}
    BY <1>2, <2>1, <2>2
  <2>4. b * (h - g) >= b
    BY <1>1, <2>3, TimesAtLeast
  <2>5. b * (h - g) = b * h - b * g
    BY <1>1, <1>2, <2>1
  <2>. QED  BY <1>1, <1>2, <1>6, <2>1, <2>4, <2>5
<1>. QED  BY <1>1, <1>2, <1>3, <1>4, <1>5, <1>6 DEF b, h, l

LEMMA LengthsAreNat ==
    ASSUME LibType
    PROVE  /\ Len(wizdata) \in Nat /\ Len(moved) \in Nat
           /\ wizdata \in Seq(Ptrs) /\ moved \in Seq(Ptrs)
<1>1. wizdata \in Seq(Ptrs) /\ moved \in Seq(Ptrs)
  BY DEF LibType
<1>. QED  BY <1>1, LenProperties

LEMMA SizeIsNat == SIZE \in Nat \ {0} /\ 0 .. SIZE \subseteq Nat
<1>1. SIZE \in Nat \ {0}
  BY Sizes
<1>. QED  BY <1>1

LEMMA NothingCopied == << >> \in Seq(Ptrs) /\ Len(<< >>) <= SIZE
BY Sizes

LEMMA ReadsSizeStep ==
    ASSUME MemInv, ReadsSize
    PROVE  MemInv' /\ UNCHANGED <<ring, Sn_RD, Sn_WR, moved>>
<1>1. UNCHANGED <<receives, ring, Sn_RD, Sn_WR, commanded, moved>>
  BY DEF ReadsSize, chipMem
<1>2. RingType /\ LibType /\ SizeInv /\ PointersInv
  BY DEF MemInv
<1>3. SizeRegister \in 0 .. SIZE /\ SizeRegister' = SizeRegister /\ High' = High /\ SIZE \in Nat
  <2>1. SizeRegister' = SizeRegister
    BY <1>1 DEF SizeRegister
  <2>. QED  BY <1>2, <2>1, HeldFits, Sizes DEF High
<1>. DEFINE s == SizeRegister
            h == High
            l == Low
            b == BYTE
<1>4. /\ h \in 0 .. s /\ l \in Nat /\ s \in 0 .. SIZE
      /\ \A x \in Nat : x <= h => x * b + l \in 0 .. s
  BY <1>3, BytesOf DEF High, Low
<1>5. /\ val1 \in 0 .. SIZE /\ val \in 0 .. SIZE
      /\ mem_pc = "low" => val1 <= h
      /\ mem_pc \in {"high again", "low again"} => val1 <= s
      /\ mem_pc = "low again" => val <= h
  BY <1>2 DEF LibType, SizeInv
<1>6. \/ Begins
      \/ mem_pc = "high" /\ val1' = h /\ mem_pc' = "low" /\ UNCHANGED <<val, wizdata>>
      \/ /\ mem_pc = "low" /\ val1' = val1 * b + l
         /\ mem_pc' = IF val1' # 0 THEN "high again" ELSE IF val = 0 THEN "idle" ELSE "high"
         /\ UNCHANGED <<val, wizdata>>
      \/ mem_pc = "high again" /\ val' = h /\ mem_pc' = "low again" /\ UNCHANGED <<val1, wizdata>>
      \/ /\ mem_pc = "low again" /\ val' = val * b + l
         /\ mem_pc' = IF val' = val1 THEN "sized" ELSE "high"
         /\ UNCHANGED <<val1, wizdata>>
  BY DEF ReadsSize, FirstReading, SecondReading
<1>. HIDE DEF s, h, l, b
<1>7. /\ mem_pc' \in {"idle", "high", "low", "high again", "low again", "sized"}
      /\ mem_pc \notin {"copied", "moved"}
      /\ val1' \in 0 .. SIZE /\ val' \in 0 .. SIZE
      /\ mem_pc' = "low" => val1' <= h
      /\ mem_pc' \in {"high again", "low again"} => val1' <= s
      /\ mem_pc' = "low again" => val' <= h
      /\ mem_pc' = "sized" => val' <= s
      /\ wizdata' = wizdata \/ wizdata' = << >>
  <2>1. CASE Begins
    BY <1>3, <2>1 DEF Begins
  <2>2. CASE mem_pc = "high" /\ val1' = h /\ mem_pc' = "low" /\ UNCHANGED <<val, wizdata>>
    <3>1. h \in 0 .. SIZE /\ h <= h
      BY <1>3, <1>4
    <3>. QED  BY <1>5, <2>2, <3>1
  <2>3. CASE /\ mem_pc = "low" /\ val1' = val1 * b + l
             /\ mem_pc' = IF val1' # 0 THEN "high again" ELSE IF val = 0 THEN "idle" ELSE "high"
             /\ UNCHANGED <<val, wizdata>>
    <3>0. mem_pc = "low" /\ 0 .. SIZE \subseteq Nat
      BY <2>3, SizeIsNat
    <3>1. val1 \in Nat /\ val1 <= h
      BY <1>5, <3>0
    <3>2. val1' \in 0 .. s
      BY <1>4, <2>3, <3>1
    <3>3. val1' \in 0 .. SIZE /\ val1' <= s
      BY <1>3, <1>4, <3>2
    <3>. QED  BY <1>5, <2>3, <3>3
  <2>4. CASE mem_pc = "high again" /\ val' = h /\ mem_pc' = "low again" /\ UNCHANGED <<val1, wizdata>>
    <3>1. h \in 0 .. SIZE /\ h <= h
      BY <1>3, <1>4
    <3>. QED  BY <1>5, <2>4, <3>1
  <2>5. CASE /\ mem_pc = "low again" /\ val' = val * b + l
             /\ mem_pc' = IF val' = val1 THEN "sized" ELSE "high"
             /\ UNCHANGED <<val1, wizdata>>
    <3>0. mem_pc = "low again" /\ 0 .. SIZE \subseteq Nat
      BY <2>5, SizeIsNat
    <3>1. val \in Nat /\ val <= h
      BY <1>5, <3>0
    <3>2. val' \in 0 .. s
      BY <1>4, <2>5, <3>1
    <3>3. val' \in 0 .. SIZE /\ val' <= s
      BY <1>3, <1>4, <3>2
    <3>. QED  BY <1>5, <2>5, <3>3
  <2>. QED  BY <1>6, <2>1, <2>2, <2>3, <2>4, <2>5
<1>8. RingType' /\ SizeInv'
  BY <1>1, <1>2, <1>3, <1>7 DEF RingType, SizeInv, s, h
<1>9. LibType'
  <2>1. wizdata' \in Seq(Ptrs) /\ Len(wizdata') <= SIZE
    BY <1>2, <1>7, NothingCopied DEF LibType
  <2>. QED  BY <1>1, <1>2, <1>7, <2>1 DEF LibType
<1>10. PointersInv'
  BY <1>1, <1>2, <1>7 DEF PointersInv, ReceiveInv, SendInv, Held
<1>. QED  BY <1>1, <1>8, <1>9, <1>10 DEF MemInv

LEMMA ReadBufStep ==
    ASSUME MemInv, WIZCHIP_READ_BUF
    PROVE  MemInv' /\ UNCHANGED <<ring, Sn_RD, Sn_WR, moved>>
<1>1. /\ mem_pc = "sized" /\ receives /\ mem_pc' = "copied"
      /\ UNCHANGED <<receives, ring, Sn_RD, Sn_WR, commanded, val1, val, moved>>
  BY DEF WIZCHIP_READ_BUF, chipMem
<1>2. RingType /\ LibType /\ SizeInv /\ PointersInv
  BY DEF MemInv
<1>3. PICK n \in 1 .. val : wizdata' = CellsFrom(ring, Sn_RD, n)
  BY DEF WIZCHIP_READ_BUF, CellsFrom, Stored
<1>4. /\ Ahead(Sn_WR, commanded) = Held /\ Held \in 0 .. SIZE /\ val <= Held /\ val \in 0 .. SIZE
      /\ commanded = Sn_RD
  <2>1. commanded = Sn_RD
    BY <1>1, <1>2 DEF PointersInv, ReceiveInv
  <2>2. val <= SizeRegister /\ val \in 0 .. SIZE
    BY <1>1, <1>2 DEF SizeInv, LibType
  <2>3. SizeRegister = Ahead(Sn_WR, commanded) /\ Held \in 0 .. SIZE
    BY <1>1, <1>2, HeldFits
  <2>. QED  BY <2>1, <2>2, <2>3 DEF Held
<1>5. n \in Nat /\ n \in 1 .. Held /\ n <= SIZE
  BY <1>4, Sizes
<1>6. wizdata' \in Seq(Ptrs) /\ Len(wizdata') = n
  BY <1>2, <1>3, <1>5, LenAt DEF RingType, Ptrs
<1>7. RingType' /\ LibType' /\ SizeInv'
  BY <1>1, <1>2, <1>5, <1>6 DEF RingType, LibType, SizeInv
<1>8. Held' = Held /\ Ahead(Sn_WR, commanded)' = Ahead(Sn_WR, commanded)
  BY <1>1 DEF Held
<1>9. PointersInv'
  BY <1>1, <1>2, <1>3, <1>5, <1>6, <1>8 DEF PointersInv, ReceiveInv
<1>. QED  BY <1>1, <1>7, <1>9 DEF MemInv

\* What the pipe holds.
Content == CellsFrom(ring, Sn_RD, Held)

LEMMA ContentIs ==
    ASSUME RingType, LibType, PointersInv
    PROVE  Content \in Seq(Ptrs) /\ Len(Content) = Held
<1>1. Held \in Nat
  BY HeldFits, SizeIsNat
<1>. QED  BY <1>1, LenAt DEF Content, RingType, Ptrs

Puts(n) ==
    /\ n \in 1 .. SIZE /\ n <= SIZE - Held
    /\ Content' = Content \o Bytes16(Sn_WR, n) /\ Sn_WR' = (Sn_WR + n) % Word /\ moved' = moved

Takes(n) ==
    /\ n \in 1 .. SIZE /\ n <= Held
    /\ moved' = SubSeq(Content, 1, n) /\ Content' = SubSeq(Content, n + 1, Held)
    /\ Sn_WR' = Sn_WR

LEMMA WriteBufStep ==
    ASSUME MemInv, WIZCHIP_WRITE_BUF
    PROVE  MemInv' /\ Content' = Content /\ UNCHANGED <<Sn_WR, moved>>
<1>1. /\ mem_pc = "sized" /\ ~receives /\ mem_pc' = "copied"
      /\ UNCHANGED <<receives, Sn_RD, Sn_WR, commanded, val1, val, moved>>
  BY DEF WIZCHIP_WRITE_BUF
<1>2. RingType /\ LibType /\ SizeInv /\ PointersInv
  BY DEF MemInv
<1>3. PICK n \in 1 .. val : wizdata' = Bytes16(Sn_WR, n) /\ ring' = Written(ring, Sn_WR, n)
  BY DEF WIZCHIP_WRITE_BUF, Written, WithBytes
<1>4. /\ Held \in 0 .. SIZE /\ val <= SIZE - Held /\ val \in 0 .. SIZE /\ commanded = Sn_WR
      /\ Sn_WR = (Sn_RD + Held) % Word
  <2>1. commanded = Sn_WR
    BY <1>1, <1>2 DEF PointersInv, SendInv
  <2>2. val <= SizeRegister /\ val \in 0 .. SIZE
    BY <1>1, <1>2 DEF SizeInv, LibType
  <2>3. SizeRegister = SIZE - Held /\ Held \in 0 .. SIZE /\ Sn_WR = (Sn_RD + Held) % Word
    BY <1>1, <1>2, HeldFits
  <2>. QED  BY <2>1, <2>2, <2>3
<1>5. n \in Nat /\ n \in 1 .. SIZE - Held /\ n \in 0 .. SIZE - Held /\ n <= SIZE
  BY <1>4, SizeIsNat
<1>6. /\ ring' \in Rings /\ CellsFrom(ring', Sn_RD, Held) = CellsFrom(ring, Sn_RD, Held)
      /\ \A j \in 0 .. n - 1 : ring'[(Sn_WR + j) % SIZE] = (Sn_WR + j) % Word
  BY <1>2, <1>3, <1>4, <1>5, WrittenFacts DEF RingType
<1>7. wizdata' \in Seq(Ptrs) /\ Len(wizdata') = n
  <2>1. Sn_WR \in Int
    BY <1>2 DEF RingType, Ptrs
  <2>. QED  BY <1>3, <1>5, <2>1, LenBytes DEF Ptrs
<1>8. RingType' /\ LibType' /\ SizeInv'
  BY <1>1, <1>2, <1>5, <1>6, <1>7 DEF RingType, LibType, SizeInv
<1>9. Held' = Held /\ Content' = Content
  BY <1>1, <1>6 DEF Held, Content
<1>10. PointersInv'
  BY <1>1, <1>4, <1>5, <1>6, <1>7, <1>9 DEF PointersInv, SendInv
<1>. QED  BY <1>1, <1>8, <1>9, <1>10 DEF MemInv

LEMMA RecvDataStep ==
    ASSUME MemInv, wiz_recv_data
    PROVE  MemInv' /\ \E n \in 1 .. SIZE : Takes(n)
<1>1. /\ mem_pc = "copied" /\ receives /\ mem_pc' = "moved"
      /\ Sn_RD' = (Sn_RD + Len(wizdata)) % Word /\ moved' = wizdata
      /\ UNCHANGED <<receives, ring, Sn_WR, commanded, val1, val, wizdata>>
  BY DEF wiz_recv_data
<1>2. RingType /\ LibType /\ SizeInv /\ PointersInv
  BY DEF MemInv
<1>. DEFINE n == Len(wizdata)
<1>3. /\ n \in 1 .. Held /\ wizdata = CellsFrom(ring, Sn_RD, n) /\ commanded = Sn_RD
      /\ Ahead(Sn_WR, commanded) = Held /\ Held <= SIZE
  BY <1>1, <1>2 DEF PointersInv, ReceiveInv, Held
<1>4. n \in Nat /\ Held \in Nat /\ n \in 0 .. Held /\ n \in 1 .. SIZE /\ n \in 0 .. Word
      /\ Held \in 0 .. SIZE
  <2>1. n \in Nat /\ Held \in Nat
    BY <1>2, HeldFits, SizeIsNat, LengthsAreNat
  <2>. QED  BY <1>3, <2>1, Sizes
<1>. HIDE DEF n
<1>5. Held' = Held - n /\ Sn_RD' \in Ptrs
  <2>1. Ahead(Sn_WR, (Sn_RD + n) % Word) = Held - n
    BY <1>2, <1>4, AheadFacts DEF RingType, Held
  <2>2. (Sn_RD + n) % Word \in Ptrs
    BY <1>2, <1>4, PastIs DEF RingType
  <2>. QED  BY <1>1, <2>1, <2>2 DEF Held, n
<1>6. RingType' /\ LibType' /\ SizeInv'
  BY <1>1, <1>2, <1>5 DEF RingType, LibType, SizeInv
<1>7. PointersInv'
  <2>1. Ahead(Sn_WR, commanded)' = Ahead(Sn_WR, commanded)
    BY <1>1
  <2>2. Ahead(Sn_WR, commanded)' = Held' + Len(wizdata)' /\ Ahead(Sn_WR, commanded)' <= SIZE
    BY <1>1, <1>3, <1>4, <1>5, <2>1 DEF n
  <2>. QED  BY <1>1, <2>2 DEF PointersInv, ReceiveInv
<1>8. Takes(n)
  <2>1. /\ CellsFrom(ring, Sn_RD, n) = SubSeq(Content, 1, n)
        /\ CellsFrom(ring, (Sn_RD + n) % Word, Held - n) = SubSeq(Content, n + 1, Held)
    BY <1>2, <1>4, TakeFacts DEF Content, RingType
  <2>2. Content' = CellsFrom(ring, (Sn_RD + n) % Word, Held - n)
    BY <1>1, <1>5 DEF Content, n
  <2>. QED  BY <1>1, <1>3, <1>4, <2>1, <2>2 DEF Takes
<1>. QED  BY <1>4, <1>6, <1>7, <1>8 DEF MemInv

LEMMA SendDataStep ==
    ASSUME MemInv, wiz_send_data
    PROVE  MemInv' /\ \E n \in 1 .. SIZE : Puts(n)
<1>1. /\ mem_pc = "copied" /\ ~receives /\ mem_pc' = "moved"
      /\ Sn_WR' = (Sn_WR + Len(wizdata)) % Word
      /\ UNCHANGED <<receives, ring, Sn_RD, commanded, val1, val, wizdata, moved>>
  BY DEF wiz_send_data
<1>2. RingType /\ LibType /\ SizeInv /\ PointersInv
  BY DEF MemInv
<1>. DEFINE n == Len(wizdata)
<1>3. /\ n \in 1 .. SIZE - Held /\ commanded = Sn_WR /\ Held <= SIZE
      /\ \A j \in 0 .. n - 1 : ring[(Sn_WR + j) % SIZE] = (Sn_WR + j) % Word
  BY <1>1, <1>2 DEF PointersInv, SendInv
<1>4. /\ n \in Nat /\ Held \in Nat /\ n \in 0 .. SIZE - Held /\ n \in 1 .. SIZE /\ n \in 0 .. Word
      /\ Held \in 0 .. SIZE /\ Held + n < Word /\ Held + n \in 0 .. SIZE
      /\ Sn_WR = (Sn_RD + Held) % Word
  <2>1. n \in Nat /\ Held \in Nat /\ Sn_WR = (Sn_RD + Held) % Word
    BY <1>2, HeldFits, SizeIsNat, LengthsAreNat
  <2>. QED  BY <1>3, <2>1, Sizes
<1>. HIDE DEF n
<1>5. Held' = Held + n /\ Sn_WR' \in Ptrs
  <2>1. Ahead((Sn_WR + n) % Word, Sn_RD) = Held + n
    BY <1>2, <1>4, AheadFacts DEF RingType, Held
  <2>2. (Sn_WR + n) % Word \in Ptrs
    BY <1>2, <1>4, PastIs DEF RingType
  <2>. QED  BY <1>1, <2>1, <2>2 DEF Held, n
<1>6. RingType' /\ LibType' /\ SizeInv'
  BY <1>1, <1>2, <1>5 DEF RingType, LibType, SizeInv
<1>7. PointersInv'
  <2>1. Ahead(commanded, Sn_RD)' = Held
    BY <1>1, <1>3 DEF Held
  <2>2. Held' = Ahead(commanded, Sn_RD)' + Len(wizdata)' /\ Held' <= SIZE
    BY <1>1, <1>4, <1>5, <2>1 DEF n
  <2>. QED  BY <1>1, <2>2 DEF PointersInv, SendInv
<1>8. Puts(n)
  <2>1. CellsFrom(ring, Sn_RD, Held + n) = CellsFrom(ring, Sn_RD, Held) \o Bytes16(Sn_WR, n)
    <3>. DEFINE d == Held
                wr == Sn_WR
    <3>1. /\ ring \in Rings /\ Sn_RD \in Ptrs /\ d \in 0 .. SIZE /\ n \in 0 .. SIZE - d
          /\ wr = (Sn_RD + d) % Word
          /\ \A j \in 0 .. n - 1 : ring[(wr + j) % SIZE] = (wr + j) % Word
      BY <1>2, <1>3, <1>4 DEF RingType
    <3>. HIDE DEF d, wr
    <3>2. CellsFrom(ring, Sn_RD, d + n) = CellsFrom(ring, Sn_RD, d) \o Bytes16(wr, n)
      BY <3>1, PutFacts
    <3>. QED  BY <3>2 DEF d, wr
  <2>2. Content' = CellsFrom(ring, Sn_RD, Held + n)
    BY <1>1, <1>5 DEF Content
  <2>3. n <= SIZE - Held
    BY <1>3, <1>4, SizeIsNat
  <2>. QED  BY <1>1, <1>4, <2>1, <2>2, <2>3 DEF Puts, Content, n
<1>. QED  BY <1>4, <1>6, <1>7, <1>8 DEF MemInv

LEMMA CommandStep ==
    ASSUME MemInv, Command
    PROVE  MemInv' /\ UNCHANGED <<ring, Sn_RD, Sn_WR, moved>>
<1>1. /\ mem_pc = "moved" /\ commanded' = (IF receives THEN Sn_RD ELSE Sn_WR)
      /\ mem_pc' = "idle" /\ val1' = 0 /\ val' = 0 /\ wizdata' = << >>
      /\ UNCHANGED <<receives, ring, Sn_RD, Sn_WR, moved>>
  BY DEF Command
<1>2. RingType /\ LibType /\ SizeInv /\ PointersInv
  BY DEF MemInv
<1>3. Held \in 0 .. SIZE /\ 0 \in 0 .. SIZE
  BY <1>2, HeldFits, SizeIsNat
<1>4. RingType' /\ SizeInv'
  BY <1>1, <1>2 DEF RingType, SizeInv
<1>5. LibType'
  <2>1. wizdata' \in Seq(Ptrs) /\ Len(wizdata') <= SIZE
    BY <1>1, NothingCopied
  <2>. QED  BY <1>1, <1>2, <1>3, <2>1 DEF LibType
<1>6. PointersInv'
  <2>1. Held <= SIZE /\ Held' = Held
    BY <1>1, <1>3, SizeIsNat DEF Held
  <2>2. receives => ReceiveInv'
    BY <1>1, <2>1 DEF ReceiveInv, Held
  <2>3. ~receives => SendInv'
    BY <1>1, <2>1 DEF SendInv
  <2>. QED  BY <1>1, <2>2, <2>3 DEF PointersInv
<1>. QED  BY <1>1, <1>4, <1>5, <1>6 DEF MemInv

\* Whatever was read of a size stays right when the size grows.
LEMMA SizesGrow ==
    ASSUME SizeInv, val1 \in Nat, val \in Nat, UNCHANGED <<mem_pc, val1, val>>,
           SizeRegister <= SizeRegister', High <= High', SizeRegister \in Nat,
           SizeRegister' \in Nat, High \in Nat, High' \in Nat
    PROVE  SizeInv'
<1>. DEFINE s == SizeRegister
            t == SizeRegister'
            h == High
            g == High'
<1>1. /\ mem_pc = "low" => val1 <= h
      /\ mem_pc \in {"high again", "low again"} => val1 <= s
      /\ mem_pc = "low again" => val <= h
      /\ mem_pc = "sized" => val <= s
  BY DEF SizeInv
<1>2. s <= t /\ h <= g /\ s \in Nat /\ t \in Nat /\ h \in Nat /\ g \in Nat
  OBVIOUS
<1>. HIDE DEF s, t, h, g
<1>3. /\ val1 <= h => val1 <= g
      /\ val1 <= s => val1 <= t
      /\ val <= h => val <= g
      /\ val <= s => val <= t
  BY <1>2
<1>4. /\ mem_pc = "low" => val1 <= g
      /\ mem_pc \in {"high again", "low again"} => val1 <= t
      /\ mem_pc = "low again" => val <= g
      /\ mem_pc = "sized" => val <= t
  BY <1>1, <1>3
<1>. QED  BY <1>4 DEF SizeInv, t, g

\* The bytes of a segment end up after what is held, and a size that the
\* library is reading grows by them.
LEMMA ArrivesStep ==
    ASSUME MemInv, SegmentArrives
    PROVE  MemInv' /\ \E n \in 1 .. SIZE : Puts(n)
<1>. DEFINE d == Held
            a == Ahead(Sn_WR, commanded)
<1>1. /\ receives
      /\ UNCHANGED <<receives, Sn_RD, commanded, mem_pc, val1, val, wizdata, moved>>
  BY DEF SegmentArrives, libMem
<1>2. RingType /\ LibType /\ SizeInv /\ PointersInv
  BY DEF MemInv
<1>3. PICK n \in 1 .. SIZE - a : ring' = Written(ring, Sn_WR, n) /\ Sn_WR' = (Sn_WR + n) % Word
  BY DEF SegmentArrives, Written, WithBytes, Ahead
<1>4. /\ d \in 0 .. SIZE /\ a \in Nat /\ d <= a /\ a <= SIZE
      /\ Sn_WR = (Sn_RD + d) % Word /\ SizeRegister = a
  <2>1. /\ d \in 0 .. SIZE /\ a \in Nat /\ Sn_WR = (Sn_RD + d) % Word /\ SizeRegister = a
    BY <1>1, <1>2, HeldFits
  <2>2. a <= SIZE /\ (a = d + Len(wizdata) \/ a = d)
    BY <1>1, <1>2 DEF PointersInv, ReceiveInv, Held
  <2>3. Len(wizdata) \in Nat
    BY <1>2, LengthsAreNat
  <2>. QED  BY <2>1, <2>2, <2>3, SizeIsNat
<1>5. /\ n \in Nat /\ n \in 0 .. SIZE - d /\ n \in 1 .. SIZE /\ n \in 0 .. Word
      /\ a + n < Word /\ a + n <= SIZE /\ d + n < Word /\ d \in Nat /\ d + n \in 0 .. SIZE
      /\ n <= SIZE - d
  <2>1. a + n <= SIZE /\ n \in Nat /\ n >= 1
    BY <1>4, SizeIsNat
  <2>. QED  BY <1>4, <2>1, Sizes
<1>6. /\ ring' \in Rings /\ CellsFrom(ring', Sn_RD, d) = CellsFrom(ring, Sn_RD, d)
      /\ \A j \in 0 .. n - 1 : ring'[(Sn_WR + j) % SIZE] = (Sn_WR + j) % Word
  <2>. DEFINE wr == Sn_WR
              s == Written(ring, wr, n)
  <2>1. ring \in Rings /\ Sn_RD \in Ptrs /\ d \in 0 .. SIZE /\ n \in 0 .. SIZE - d
        /\ wr = (Sn_RD + d) % Word
    BY <1>2, <1>4, <1>5 DEF RingType
  <2>. HIDE DEF d, wr, s
  <2>2. /\ s \in Rings /\ CellsFrom(s, Sn_RD, d) = CellsFrom(ring, Sn_RD, d)
        /\ \A j \in 0 .. n - 1 : s[(wr + j) % SIZE] = (wr + j) % Word
    BY <2>1, WrittenFacts DEF s
  <2>3. ring' = s
    BY <1>3 DEF s, wr
  <2>. QED  BY <2>2, <2>3 DEF wr
<1>7. Held' = d + n /\ Ahead(Sn_WR, commanded)' = a + n /\ Sn_WR' \in Ptrs
  <2>1. Ahead((Sn_WR + n) % Word, Sn_RD) = d + n
    BY <1>2, <1>5, AheadFacts DEF RingType, Held
  <2>2. Ahead((Sn_WR + n) % Word, commanded) = a + n
    BY <1>2, <1>5, AheadFacts DEF RingType
  <2>3. (Sn_WR + n) % Word \in Ptrs
    BY <1>2, <1>5, PastIs DEF RingType
  <2>. QED  BY <1>1, <1>3, <2>1, <2>2, <2>3 DEF Held
<1>8. RingType' /\ LibType'
  BY <1>1, <1>2, <1>6, <1>7 DEF RingType, LibType
<1>9. SizeInv'
  <2>1. SizeRegister' = a + n
    BY <1>1, <1>7 DEF SizeRegister, Ahead
  <2>2. SizeRegister <= SizeRegister' /\ High <= High' /\ SizeRegister \in Nat
        /\ SizeRegister' \in Nat /\ High \in Nat /\ High' \in Nat
    <3>. DEFINE s == SizeRegister
                t == a + n
    <3>1. s \in Nat /\ t \in Nat /\ s <= t
      BY <1>4, <1>5
    <3>. HIDE DEF s, t
    <3>2. s \div BYTE \in 0 .. s /\ t \div BYTE \in 0 .. t /\ s \div BYTE <= t \div BYTE
      BY <3>1, BytesOf
    <3>3. High = s \div BYTE /\ High' = t \div BYTE
      BY <2>1 DEF High, s, t
    <3>4. s \div BYTE \in Nat /\ t \div BYTE \in Nat
      BY <3>1, <3>2
    <3>. QED  BY <2>1, <3>1, <3>2, <3>3, <3>4 DEF s, t
  <2>3. val1 \in Nat /\ val \in Nat
    BY <1>2, SizeIsNat DEF LibType
  <2>. QED  BY <1>1, <1>2, <2>2, <2>3, SizesGrow
<1>10. PointersInv'
  <2>1. (Ahead(Sn_WR, commanded) <= SIZE)'
    BY <1>5, <1>7
  <2>2. Len(wizdata) \in Nat
    BY <1>2, LengthsAreNat
  <2>3. (IF mem_pc = "moved" THEN Ahead(Sn_WR, commanded) = Held + Len(wizdata)
                             ELSE commanded = Sn_RD)'
    <3>1. IF mem_pc = "moved" THEN a = d + Len(wizdata) ELSE commanded = Sn_RD
      BY <1>1, <1>2 DEF PointersInv, ReceiveInv
    <3>2. a = d + Len(wizdata) => a + n = (d + n) + Len(wizdata)
      BY <1>4, <1>5, <2>2
    <3>. QED  BY <1>1, <1>7, <3>1, <3>2
  <2>4. ASSUME mem_pc = "copied"
        PROVE  Len(wizdata) \in 1 .. Held' /\ wizdata = CellsFrom(ring', Sn_RD, Len(wizdata))
    <3>. DEFINE k == Len(wizdata)
                r == ring
                s == ring'
    <3>1. k \in 1 .. d /\ wizdata = CellsFrom(r, Sn_RD, k)
      BY <1>1, <1>2, <2>4 DEF PointersInv, ReceiveInv
    <3>2. r \in Rings /\ s \in Rings /\ Sn_RD \in Ptrs /\ d \in 0 .. SIZE /\ k \in 0 .. d
      BY <1>2, <1>4, <1>6, <2>2, <3>1 DEF RingType
    <3>3. k \in 1 .. Held'
      BY <1>5, <1>7, <2>2, <3>1
    <3>4. CellsFrom(s, Sn_RD, d) = CellsFrom(r, Sn_RD, d)
      BY <1>6
    <3>. HIDE DEF k, d, r, s
    <3>5. CellsFrom(r, Sn_RD, k) = SubSeq(CellsFrom(r, Sn_RD, d), 1, k)
      BY <3>2, TakeFacts
    <3>6. CellsFrom(s, Sn_RD, k) = SubSeq(CellsFrom(s, Sn_RD, d), 1, k)
      BY <3>2, TakeFacts
    <3>7. wizdata = CellsFrom(s, Sn_RD, k)
      BY <3>1, <3>4, <3>5, <3>6
    <3>. QED  BY <3>3, <3>7 DEF k, s
  <2>. QED  BY <1>1, <2>1, <2>3, <2>4 DEF PointersInv, ReceiveInv
<1>11. Puts(n)
  <2>1. CellsFrom(ring', Sn_RD, d + n) = CellsFrom(ring', Sn_RD, d) \o Bytes16(Sn_WR, n)
    <3>. DEFINE wr == Sn_WR
                s == ring'
    <3>1. /\ s \in Rings /\ Sn_RD \in Ptrs /\ d \in 0 .. SIZE /\ n \in 0 .. SIZE - d
          /\ wr = (Sn_RD + d) % Word
          /\ \A j \in 0 .. n - 1 : s[(wr + j) % SIZE] = (wr + j) % Word
      BY <1>2, <1>4, <1>5, <1>6 DEF RingType
    <3>. HIDE DEF d, wr, s
    <3>2. CellsFrom(s, Sn_RD, d + n) = CellsFrom(s, Sn_RD, d) \o Bytes16(wr, n)
      BY <3>1, PutFacts
    <3>. QED  BY <3>2 DEF wr, s
  <2>2. Content' = CellsFrom(ring', Sn_RD, d + n)
    BY <1>1, <1>7 DEF Content
  <2>. QED  BY <1>1, <1>3, <1>5, <1>6, <2>1, <2>2 DEF Puts, Content
<1>. QED  BY <1>5, <1>8, <1>9, <1>10, <1>11 DEF MemInv

\* What the peer takes was given by a SEND, so it is behind all that the
\* library may still be writing.
LEMMA AcknowledgedStep ==
    ASSUME MemInv, SegmentAcknowledged
    PROVE  MemInv' /\ \E n \in 1 .. SIZE : Takes(n)
<1>. DEFINE d == Held
            a == Ahead(commanded, Sn_RD)
<1>1. /\ ~receives
      /\ UNCHANGED <<receives, ring, Sn_WR, commanded, mem_pc, val1, val, wizdata>>
  BY DEF SegmentAcknowledged, libMem
<1>2. RingType /\ LibType /\ SizeInv /\ PointersInv
  BY DEF MemInv
<1>3. PICK n \in 1 .. a : moved' = CellsFrom(ring, Sn_RD, n) /\ Sn_RD' = (Sn_RD + n) % Word
  BY DEF SegmentAcknowledged, CellsFrom, Stored, Ahead
<1>4. /\ d \in 0 .. SIZE /\ d \in Nat /\ a \in Nat /\ a <= d /\ Len(wizdata) \in Nat
      /\ SizeRegister = SIZE - d
  <2>1. /\ d \in 0 .. SIZE /\ a \in Nat /\ SizeRegister = SIZE - d
    BY <1>1, <1>2, HeldFits
  <2>2. d = a + Len(wizdata) \/ d = a
    BY <1>1, <1>2 DEF PointersInv, SendInv, Held
  <2>3. Len(wizdata) \in Nat
    BY <1>2, LengthsAreNat
  <2>. QED  BY <2>1, <2>2, <2>3, SizeIsNat
<1>5. /\ n \in Nat /\ n \in 0 .. d /\ n \in 1 .. SIZE /\ n \in 0 .. Word /\ n <= d /\ n <= a
      /\ n <= SIZE /\ SIZE - d <= SIZE - (d - n) /\ SIZE - d \in Nat /\ SIZE - (d - n) \in Nat
      /\ d - n <= SIZE
  BY <1>4, Sizes
<1>6. Held' = d - n /\ Ahead(commanded, Sn_RD)' = a - n /\ Sn_RD' \in Ptrs
  <2>1. Ahead(Sn_WR, (Sn_RD + n) % Word) = d - n
    BY <1>2, <1>5, AheadFacts DEF RingType, Held
  <2>2. Ahead(commanded, (Sn_RD + n) % Word) = a - n
    BY <1>2, <1>5, AheadFacts DEF RingType
  <2>3. (Sn_RD + n) % Word \in Ptrs
    BY <1>2, <1>5, PastIs DEF RingType
  <2>. QED  BY <1>1, <1>3, <2>1, <2>2, <2>3 DEF Held
<1>7. RingType' /\ LibType'
  <2>1. CellsFrom(ring, Sn_RD, n) \in Seq(Ptrs) /\ Len(CellsFrom(ring, Sn_RD, n)) = n
    BY <1>2, <1>5, LenAt DEF RingType, Ptrs
  <2>2. moved' \in Seq(Ptrs) /\ Len(moved') <= SIZE
    BY <1>3, <1>5, <2>1
  <2>. QED  BY <1>1, <1>2, <1>6, <2>2 DEF RingType, LibType
<1>8. SizeInv'
  <2>1. SizeRegister' = SIZE - (d - n)
    BY <1>1, <1>6 DEF SizeRegister, Held, Ahead
  <2>2. SizeRegister <= SizeRegister' /\ High <= High' /\ SizeRegister \in Nat
        /\ SizeRegister' \in Nat /\ High \in Nat /\ High' \in Nat
    <3>. DEFINE s == SizeRegister
                t == SIZE - (d - n)
    <3>1. s \in Nat /\ t \in Nat /\ s <= t
      BY <1>4, <1>5
    <3>. HIDE DEF s, t
    <3>2. s \div BYTE \in 0 .. s /\ t \div BYTE \in 0 .. t /\ s \div BYTE <= t \div BYTE
      BY <3>1, BytesOf
    <3>3. High = s \div BYTE /\ High' = t \div BYTE
      BY <2>1 DEF High, s, t
    <3>4. s \div BYTE \in Nat /\ t \div BYTE \in Nat
      BY <3>1, <3>2
    <3>. QED  BY <2>1, <3>1, <3>2, <3>3, <3>4 DEF s, t
  <2>3. val1 \in Nat /\ val \in Nat
    BY <1>2, SizeIsNat DEF LibType
  <2>. QED  BY <1>1, <1>2, <2>2, <2>3, SizesGrow
<1>9. PointersInv'
  <2>1. (Held <= SIZE)'
    BY <1>5, <1>6
  <2>2. (IF mem_pc = "moved" THEN Held = Ahead(commanded, Sn_RD) + Len(wizdata)
                             ELSE commanded = Sn_WR)'
    <3>1. IF mem_pc = "moved" THEN d = a + Len(wizdata) ELSE commanded = Sn_WR
      BY <1>1, <1>2 DEF PointersInv, SendInv
    <3>2. d = a + Len(wizdata) => d - n = (a - n) + Len(wizdata)
      BY <1>4, <1>5
    <3>. QED  BY <1>1, <1>6, <3>1, <3>2
  <2>3. ASSUME mem_pc = "copied"
        PROVE  /\ Len(wizdata) \in 1 .. SIZE - Held'
               /\ \A j \in 0 .. Len(wizdata) - 1 : ring[(Sn_WR + j) % SIZE] = (Sn_WR + j) % Word
    <3>1. /\ Len(wizdata) \in 1 .. SIZE - d
          /\ \A j \in 0 .. Len(wizdata) - 1 : ring[(Sn_WR + j) % SIZE] = (Sn_WR + j) % Word
      BY <1>1, <1>2, <2>3 DEF PointersInv, SendInv
    <3>2. Len(wizdata) \in 1 .. SIZE - (d - n)
      BY <1>4, <1>5, <3>1
    <3>. QED  BY <1>6, <3>1, <3>2
  <2>. QED  BY <1>1, <2>1, <2>2, <2>3 DEF PointersInv, SendInv
<1>10. Takes(n)
  <2>1. /\ CellsFrom(ring, Sn_RD, n) = SubSeq(Content, 1, n)
        /\ CellsFrom(ring, (Sn_RD + n) % Word, d - n) = SubSeq(Content, n + 1, d)
    BY <1>2, <1>4, <1>5, TakeFacts DEF Content, RingType
  <2>2. Content' = CellsFrom(ring, (Sn_RD + n) % Word, d - n)
    BY <1>1, <1>3, <1>6 DEF Content
  <2>. QED  BY <1>1, <1>3, <1>5, <2>1, <2>2 DEF Takes
<1>. QED  BY <1>5, <1>7, <1>8, <1>9, <1>10 DEF MemInv

LEMMA StutterStep ==
    ASSUME MemInv, UNCHANGED memVars
    PROVE  MemInv' /\ UNCHANGED <<ring, Sn_RD, Sn_WR, moved>>
<1>1. UNCHANGED <<receives, ring, Sn_RD, Sn_WR, commanded, mem_pc, val1, val, wizdata, moved>>
  BY DEF memVars, chipMem, libMem
<1>2. RingType' /\ LibType'
  BY <1>1 DEF MemInv, RingType, LibType
<1>3. SizeInv'
  BY <1>1 DEF MemInv, SizeInv, High, SizeRegister
<1>4. PointersInv'
  BY <1>1 DEF MemInv, PointersInv, ReceiveInv, SendInv, Held
<1>. QED  BY <1>1, <1>2, <1>3, <1>4 DEF MemInv

LEMMA MemStarts ==
    ASSUME MemInit
    PROVE  MemInv /\ Content = << >>
<1>1. /\ receives \in BOOLEAN /\ ring = [i \in 0 .. SIZE - 1 |-> 0]
      /\ Sn_RD = 0 /\ Sn_WR = 0 /\ commanded = 0
      /\ mem_pc = "idle" /\ val1 = 0 /\ val = 0 /\ wizdata = << >> /\ moved = << >>
  BY DEF MemInit
<1>2. 0 \in Ptrs /\ 0 \in 0 .. SIZE /\ 0 \in 0 .. Word - 1
  BY Sizes DEF Ptrs
<1>3. RingType
  BY <1>1, <1>2 DEF RingType, Rings
<1>4. LibType
  BY <1>1, <1>2, NothingCopied DEF LibType
<1>5. SizeInv
  BY <1>1 DEF SizeInv
<1>6. Held = 0 /\ Ahead(Sn_WR, commanded) = 0 /\ 0 <= SIZE
  <2>1. Ahead(0, 0) = 0
    BY <1>2, AheadFacts
  <2>. QED  BY <1>1, <2>1, SizeIsNat DEF Held
<1>7. PointersInv
  BY <1>1, <1>6 DEF PointersInv, ReceiveInv, SendInv
<1>8. Content = << >>
  <2>1. Content \in Seq(Ptrs) /\ Len(Content) = 0
    BY <1>3, <1>4, <1>6, <1>7, ContentIs
  <2>. QED  BY <2>1, EmptySeq
<1>. QED  BY <1>3, <1>4, <1>5, <1>7, <1>8 DEF MemInv

\* One step: the invariant, and what the step does to what is held.
LEMMA MemStep ==
    ASSUME MemInv, [MemNext]_memVars
    PROVE  /\ MemInv'
           /\ \/ Content' = Content /\ UNCHANGED <<Sn_WR, moved>>
              \/ \E n \in 1 .. SIZE : Puts(n) \/ Takes(n)
<1>1. ASSUME UNCHANGED <<ring, Sn_RD, Sn_WR, moved>>
      PROVE  Content' = Content /\ UNCHANGED <<Sn_WR, moved>>
  BY <1>1 DEF Content, Held
<1>2. CASE ReadsSize
  BY <1>1, <1>2, ReadsSizeStep
<1>3. CASE WIZCHIP_READ_BUF
  BY <1>1, <1>3, ReadBufStep
<1>4. CASE WIZCHIP_WRITE_BUF
  BY <1>4, WriteBufStep
<1>5. CASE wiz_recv_data
  BY <1>5, RecvDataStep
<1>6. CASE wiz_send_data
  BY <1>6, SendDataStep
<1>7. CASE Command
  BY <1>1, <1>7, CommandStep
<1>8. CASE SegmentArrives
  BY <1>8, ArrivesStep
<1>9. CASE SegmentAcknowledged
  BY <1>9, AcknowledgedStep
<1>10. CASE UNCHANGED memVars
  BY <1>1, <1>10, StutterStep
<1>. QED  BY <1>2, <1>3, <1>4, <1>5, <1>6, <1>7, <1>8, <1>9, <1>10 DEF MemNext

LEMMA MemTypes == MemInv => MemTypeOK
BY DEF MemInv, RingType, LibType, Rings, Ptrs, MemTypeOK

\* The pointers, the sizes that are read and the bytes that are handed over
\* stay within the ring, however the chip moves between two readings of a
\* size's bytes: getSn_RX_RSR, getSn_TX_FSR, wiz_recv_data, wiz_send_data.
THEOREM MemTypeOKHolds == MemSpec => []MemTypeOK
<1>1. MemInit => MemInv
  BY MemStarts
<1>2. MemInv /\ [MemNext]_memVars => MemInv'
  BY MemStep
<1>. QED  BY <1>1, <1>2, MemTypes, PTL DEF MemSpec

\* The ring, its pointers and its torn sizes are a pipe, for any ring whose
\* size divides the pointers' range: no byte is lost, taken twice or
\* overwritten, wherever the pointers wrap and whenever the chip writes.
THEOREM MemImplementsPipe == MemSpec => PipeSpec
<1>1. MemInit => MemInv /\ Pipe!Init
  <2>. SUFFICES ASSUME MemInit
                PROVE  MemInv /\ Pipe!Init
    OBVIOUS
  <2>1. MemInv /\ Content = << >>
    BY MemStarts
  <2>2. Stored(Sn_RD, (Sn_WR - Sn_RD) % Word) = Content
    BY DEF Content, CellsFrom, Stored, Held, Ahead
  <2>. QED  BY <2>1, <2>2 DEF MemInit, Pipe!Init
<1>2. MemInv /\ [MemNext]_memVars
      => MemInv' /\ [Pipe!Next]_<<Stored(Sn_RD, (Sn_WR - Sn_RD) % Word), Sn_WR, moved>>
  <2>. SUFFICES ASSUME MemInv, [MemNext]_memVars
                PROVE  MemInv' /\ [Pipe!Next]_<<Stored(Sn_RD, (Sn_WR - Sn_RD) % Word), Sn_WR, moved>>
    OBVIOUS
  <2>1. /\ MemInv'
        /\ \/ Content' = Content /\ UNCHANGED <<Sn_WR, moved>>
           \/ \E n \in 1 .. SIZE : Puts(n) \/ Takes(n)
    BY MemStep
  <2>. DEFINE stored == Stored(Sn_RD, (Sn_WR - Sn_RD) % Word)
  <2>2. stored = Content /\ stored' = Content'
    BY DEF Content, CellsFrom, Stored, Held, Ahead
  <2>3. Len(Content) = Held
    BY ContentIs DEF MemInv
  <2>4. CASE Content' = Content /\ UNCHANGED <<Sn_WR, moved>>
    BY <2>1, <2>2, <2>4
  <2>5. ASSUME NEW n \in 1 .. SIZE, Puts(n)
        PROVE  Pipe!Put(n)
    BY <2>2, <2>3, <2>5 DEF Puts, Pipe!Put, Bytes16
  <2>6. ASSUME NEW n \in 1 .. SIZE, Takes(n)
        PROVE  Pipe!Take(n)
    BY <2>2, <2>3, <2>6 DEF Takes, Pipe!Take
  <2>. QED  BY <2>1, <2>4, <2>5, <2>6 DEF Pipe!Next
<1>. QED  BY <1>1, <1>2, PTL DEF MemSpec, PipeSpec, Pipe!Spec

----------------------------------------------------------------------------
(* DnsClient.                                                              *)

Msgs == [port : Ports, reply : Replies]
Ips  == Ports \union {NoIp, Garbage}

DnsType ==
    /\ dns_pc \in {"main", "ask", "wait", "halt"} /\ retval \in DhcpAnswers
    /\ g_dns_get_ip_flag \in BOOLEAN /\ timer \in BOOLEAN
    /\ g_dns_target_ip \in Ips /\ dns_said \subseteq Msgs
    /\ len \in {0, QueryLen} /\ sent \in 0 .. 1
    /\ retry_count \in 0 .. MAX_DNS_RETRY /\ dns_1s_tick \in 0 .. DNS_WAIT_TIME

\* No failure is counted past its limit by a program that still runs.
Counts ==
    /\ dhcp_retry \in 0 .. DHCP_RETRY_COUNT + 1 /\ dns_retry \in 0 .. DNS_RETRY_COUNT + 1
    /\ dns_pc # "halt" => dhcp_retry <= DHCP_RETRY_COUNT /\ dns_retry <= DNS_RETRY_COUNT

\* Each DNS_run takes a port of its own: the next one after as many ports as
\* lookups have failed.  What a socket has received was sent to its port.
PortOfLookup ==
    /\ dns_port \in Ports \union {0}
    /\ dns_pc = "ask" => dns_port = dns_retry
    /\ dns_pc = "wait" => dns_port = dns_retry + 1
    /\ dns_pc = "main" /\ ~g_dns_get_ip_flag => dns_port = dns_retry

OwnDatagram ==
    \/ dns_rx = << >>
    \/ dns_pc = "wait" /\ \E m \in Msgs : dns_rx = <<m>> /\ m.port = dns_port

DnsInv == DnsType /\ Counts /\ PortOfLookup /\ OwnDatagram

LEMMA DnsLimits ==
    /\ MAX_DNS_RETRY \in Nat /\ DNS_WAIT_TIME \in Nat /\ DHCP_RETRY_COUNT \in Nat
    /\ DNS_RETRY_COUNT \in Nat
BY DnsAssumption

LEMMA ParsedIp ==
    ASSUME NEW m \in Msgs, NEW ip \in Ips, NEW p \in parseDNSMSG(m, ip)
    PROVE  p.ip \in Ips
<1>1. m.port \in Ips /\ Garbage \in Ips
  BY DEF Msgs, Ips
<1>2. CASE Astray(m.reply.rrs)
  BY <1>1, <1>2 DEF parseDNSMSG
<1>3. CASE ~Astray(m.reply.rrs)
  BY <1>1, <1>3 DEF parseDNSMSG
<1>. QED  BY <1>2, <1>3

\* DNS_run has answered: its failure is counted and its port is used up.
LEMMA ReturnsKeeps ==
    ASSUME DnsInv, dns_pc = "wait", NEW success \in BOOLEAN, Returns(success), dns_port' = dns_port
    PROVE  /\ Counts' /\ PortOfLookup' /\ OwnDatagram' /\ dns_pc' \in {"main", "ask", "halt"}
           /\ g_dns_get_ip_flag' \in BOOLEAN /\ retval' = retval
<1>1. /\ dns_rx' = << >> /\ UNCHANGED <<retval, dhcp_retry>>
      /\ dns_port = dns_retry + 1 /\ dns_port \in Ports \union {0}
      /\ dhcp_retry \in 0 .. DHCP_RETRY_COUNT + 1 /\ dns_retry \in 0 .. DNS_RETRY_COUNT + 1
      /\ dhcp_retry <= DHCP_RETRY_COUNT /\ dns_retry <= DNS_RETRY_COUNT
      /\ g_dns_get_ip_flag \in BOOLEAN
  BY DEF Returns, DnsInv, DnsType, Counts, PortOfLookup
<1>2. CASE success
  <2>1. g_dns_get_ip_flag' = TRUE /\ dns_pc' = "main" /\ dns_retry' = dns_retry
    BY <1>2 DEF Returns
  <2>. QED  BY <1>1, <2>1, DnsLimits DEF Counts, PortOfLookup, OwnDatagram
<1>3. CASE ~success
  <2>1. /\ dns_retry' = dns_retry + 1 /\ g_dns_get_ip_flag' = g_dns_get_ip_flag
        /\ dns_pc' = IF dns_retry' > DNS_RETRY_COUNT THEN "halt" ELSE "ask"
    BY <1>3 DEF Returns
  <2>. QED  BY <1>1, <2>1, DnsLimits DEF Counts, PortOfLookup, OwnDatagram
<1>. QED  BY <1>2, <1>3

LEMMA DnsRunStep ==
    ASSUME DnsInv, DNS_run
    PROVE  DnsInv'
<1>1. /\ dns_pc = "ask" /\ dns_pc' = "wait" /\ retry_count' = 0 /\ dns_1s_tick' = 0
      /\ len' = QueryLen /\ sent' = 1 /\ dns_port' = dns_port + 1
      /\ UNCHANGED <<retval, dhcp_retry, dns_retry, g_dns_get_ip_flag, g_dns_target_ip, dns_rx,
                     dns_said, timer>>
  BY DEF DNS_run, main
<1>2. DnsType'
  BY <1>1, DnsLimits DEF DnsInv, DnsType
<1>3. Counts' /\ PortOfLookup' /\ OwnDatagram'
  BY <1>1, DnsLimits DEF DnsInv, Counts, PortOfLookup, OwnDatagram, Ports
<1>. QED  BY <1>2, <1>3 DEF DnsInv

LEMMA TakeReplyStep ==
    ASSUME DnsInv, TakeReply
    PROVE  DnsInv'
<1>1. /\ dns_pc = "wait" /\ dns_rx # << >> /\ len' = QueryLen
      /\ UNCHANGED <<retry_count, sent, dns_port, dns_1s_tick, dns_said, timer>>
  BY DEF TakeReply
<1>2. PICK p \in parseDNSMSG(Head(dns_rx), g_dns_target_ip) :
          g_dns_target_ip' = p.ip /\ Returns(p.ret = 1)
  BY DEF TakeReply
<1>3. Head(dns_rx) \in Msgs /\ g_dns_target_ip \in Ips
  BY <1>1 DEF DnsInv, DnsType, OwnDatagram
<1>4. g_dns_target_ip' \in Ips
  BY <1>2, <1>3, ParsedIp
<1>5. /\ Counts' /\ PortOfLookup' /\ OwnDatagram' /\ dns_pc' \in {"main", "ask", "halt"}
      /\ g_dns_get_ip_flag' \in BOOLEAN /\ retval' = retval
  <2>. DEFINE success == (p.ret = 1)
  <2>1. success \in BOOLEAN /\ Returns(success)
    BY <1>2
  <2>. HIDE DEF success
  <2>. QED  BY <1>1, <2>1, ReturnsKeeps
<1>6. DnsType'
  BY <1>1, <1>4, <1>5 DEF DnsInv, DnsType
<1>. QED  BY <1>5, <1>6 DEF DnsInv

LEMMA PollAgainStep ==
    ASSUME DnsInv, PollAgain
    PROVE  DnsInv'
<1>1. /\ dns_pc = "wait" /\ dns_rx = << >> /\ len' = 0
      /\ UNCHANGED <<g_dns_target_ip, dns_port, dns_said, timer>>
  BY DEF PollAgain
<1>2. CASE check_DNS_timeout = "WAIT"
  <2>1. UNCHANGED <<dns_pc, retval, dhcp_retry, dns_retry, g_dns_get_ip_flag, dns_rx, dns_1s_tick,
                    retry_count, sent>>
    BY <1>2 DEF PollAgain, main
  <2>. QED  BY <1>1, <2>1 DEF DnsInv, DnsType, Counts, PortOfLookup, OwnDatagram
<1>3. CASE check_DNS_timeout = "RETRY"
  <2>1. /\ dns_1s_tick' = 0 /\ retry_count' = NextRetry /\ sent' = sent
        /\ UNCHANGED <<dns_pc, retval, dhcp_retry, dns_retry, g_dns_get_ip_flag, dns_rx>>
    BY <1>1, <1>3 DEF PollAgain, main
  <2>2. retry_count \in 0 .. MAX_DNS_RETRY /\ ~(retry_count >= MAX_DNS_RETRY)
    BY <1>3 DEF check_DNS_timeout, DnsInv, DnsType
  <2>3. NextRetry \in 0 .. MAX_DNS_RETRY
    BY <2>2, DnsLimits DEF NextRetry
  <2>. QED  BY <1>1, <2>1, <2>3, DnsLimits DEF DnsInv, DnsType, Counts, PortOfLookup, OwnDatagram
<1>4. CASE check_DNS_timeout = "TIMEOUT"
  <2>1. dns_1s_tick' = 0 /\ retry_count' = 0 /\ Returns(FALSE) /\ UNCHANGED sent
    BY <1>4 DEF PollAgain
  <2>2. /\ Counts' /\ PortOfLookup' /\ OwnDatagram' /\ dns_pc' \in {"main", "ask", "halt"}
        /\ g_dns_get_ip_flag' \in BOOLEAN /\ retval' = retval
    BY <1>1, <2>1, ReturnsKeeps
  <2>3. DnsType'
    BY <1>1, <2>1, <2>2, DnsLimits DEF DnsInv, DnsType
  <2>. QED  BY <2>2, <2>3 DEF DnsInv
<1>. QED  BY <1>2, <1>3, <1>4 DEF check_DNS_timeout

LEMMA MainLoopStep ==
    ASSUME DnsInv, NEW answer \in DhcpAnswers, MainLoop(answer)
    PROVE  DnsInv'
<1>1. /\ dns_pc = "main"
      /\ retval' = (IF NETINFO_DHCP THEN answer ELSE retval)
      /\ dhcp_retry' = (IF NETINFO_DHCP /\ answer = "FAILED" THEN dhcp_retry + 1 ELSE dhcp_retry)
      /\ dns_pc' = (IF dhcp_retry' > DHCP_RETRY_COUNT THEN "halt"
                    ELSE IF WantsLookup(retval') THEN "ask" ELSE "main")
      /\ UNCHANGED <<dns_retry, g_dns_get_ip_flag, g_dns_target_ip, retry_count, len, sent,
                     dns_port, dns_1s_tick, dns_rx, dns_said, timer>>
  BY DEF MainLoop, lookup
<1>2. DnsType'
  BY <1>1 DEF DnsInv, DnsType
<1>3. Counts'
  BY <1>1, DnsLimits DEF DnsInv, Counts
<1>4. PortOfLookup' /\ OwnDatagram'
  BY <1>1 DEF DnsInv, PortOfLookup, OwnDatagram, WantsLookup
<1>. QED  BY <1>2, <1>3, <1>4 DEF DnsInv

LEMMA DnsStep == DnsInv /\ [DnsNext]_dnsVars => DnsInv'
<1>. SUFFICES ASSUME DnsInv, [DnsNext]_dnsVars
              PROVE  DnsInv'
  OBVIOUS
<1>1. CASE Lookup
  BY <1>1, DnsRunStep, TakeReplyStep, PollAgainStep DEF Lookup
<1>2. ASSUME NEW answer \in DhcpAnswers, MainLoop(answer)
      PROVE  DnsInv'
  BY <1>2, MainLoopStep
<1>3. CASE DhcpConflict
  <2>1. /\ dns_pc = "main" /\ dns_pc' = "halt"
        /\ UNCHANGED <<retval, dhcp_retry, dns_retry, g_dns_get_ip_flag, g_dns_target_ip, retry_count,
                       len, sent, dns_port, dns_1s_tick, dns_rx, dns_said, timer>>
    BY <1>3 DEF DhcpConflict, main, lookup
  <2>. QED  BY <2>1 DEF DnsInv, DnsType, Counts, PortOfLookup, OwnDatagram
<1>4. CASE Second
  <2>1. /\ timer' \in BOOLEAN
        /\ dns_1s_tick' = IF dns_1s_tick < DNS_WAIT_TIME THEN dns_1s_tick + 1 ELSE dns_1s_tick
        /\ UNCHANGED <<dns_pc, retval, dhcp_retry, dns_retry, g_dns_get_ip_flag, g_dns_target_ip,
                       retry_count, len, sent, dns_port, dns_rx, dns_said>>
    BY <1>4 DEF Second, wizchip_1ms_timer_callback, DNS_time_handler, main, lookup
  <2>2. dns_1s_tick' \in 0 .. DNS_WAIT_TIME
    BY <2>1, DnsLimits DEF DnsInv, DnsType
  <2>. QED  BY <2>1, <2>2 DEF DnsInv, DnsType, Counts, PortOfLookup, OwnDatagram
<1>5. ASSUME NEW port \in Ports, NEW reply \in Replies, DnsReplies(port, reply)
      PROVE  DnsInv'
  <2>1. /\ dns_said' = {[port |-> port, reply |-> reply]}
        /\ UNCHANGED <<dns_pc, retval, dhcp_retry, dns_retry, g_dns_get_ip_flag, g_dns_target_ip,
                       retry_count, len, sent, dns_port, dns_1s_tick, dns_rx, timer>>
    BY <1>5 DEF DnsReplies, main, lookup
  <2>2. dns_said' \subseteq Msgs
    BY <2>1 DEF Msgs
  <2>. QED  BY <2>1, <2>2 DEF DnsInv, DnsType, Counts, PortOfLookup, OwnDatagram
<1>6. ASSUME NEW m \in dns_said, DnsDeliver(m)
      PROVE  DnsInv'
  <2>1. /\ dns_pc = "wait" /\ m.port = dns_port /\ dns_rx' = <<m>>
        /\ UNCHANGED <<dns_pc, retval, dhcp_retry, dns_retry, g_dns_get_ip_flag, g_dns_target_ip,
                       retry_count, len, sent, dns_port, dns_1s_tick, dns_said, timer>>
    BY <1>6 DEF DnsDeliver, main, lookup
  <2>2. m \in Msgs
    BY DEF DnsInv, DnsType
  <2>. QED  BY <2>1, <2>2 DEF DnsInv, DnsType, Counts, PortOfLookup, OwnDatagram
<1>7. CASE UNCHANGED dnsVars
  BY <1>7 DEF dnsVars, main, lookup, DnsInv, DnsType, Counts, PortOfLookup, OwnDatagram
<1>. QED  BY <1>1, <1>2, <1>3, <1>4, <1>5, <1>6, <1>7 DEF DnsNext

LEMMA DnsStarts == DnsInit => DnsInv
<1>. SUFFICES ASSUME DnsInit
              PROVE  DnsInv
  OBVIOUS
<1>1. 0 \in 0 .. 1 /\ 0 \in 0 .. MAX_DNS_RETRY /\ 0 \in 0 .. DNS_WAIT_TIME
  BY DnsLimits
<1>2. DnsType
  <2>1. g_dns_target_ip \in Ips /\ dns_said \subseteq Msgs
    BY DEF DnsInit, Ips
  <2>2. dns_pc \in {"main", "ask", "wait", "halt"} /\ retval \in DhcpAnswers
    BY DEF DnsInit, DhcpAnswers
  <2>3. g_dns_get_ip_flag \in BOOLEAN /\ timer \in BOOLEAN /\ len \in {0, QueryLen}
    BY DEF DnsInit
  <2>. QED  BY <1>1, <2>1, <2>2, <2>3 DEF DnsInit, DnsType
<1>3. Counts /\ PortOfLookup /\ OwnDatagram
  BY DnsLimits DEF DnsInit, Counts, PortOfLookup, OwnDatagram
<1>. QED  BY <1>2, <1>3 DEF DnsInv

LEMMA DnsTypes == DnsInv => DnsTypeOK
<1>. SUFFICES ASSUME DnsInv
              PROVE  DnsTypeOK
  OBVIOUS
<1>1. sent \in 0 .. MAX_DNS_RETRY + 1
  BY DnsLimits DEF DnsInv, DnsType
<1>2. dns_rx \in {<< >>} \union {<<m>> : m \in Msgs}
  BY DEF DnsInv, OwnDatagram
<1>. QED  BY <1>1, <1>2 DEF DnsInv, DnsType, Counts, PortOfLookup, DnsTypeOK, Msgs, Ips

\* The counts of the DNS program stay within its limits, and the address it ends
\* up with is one that a reply carried, or garbage: wizchip_dhcp_dns.c, dns.c.
THEOREM DnsTypeOKHolds == DnsSpec => []DnsTypeOK
BY DnsTypes, DnsStarts, DnsStep, PTL DEF DnsSpec

\* A reply to a lookup that was given up is never taken for the reply to the
\* present one, for any limits and however late it comes: DNS_run compares no id,
\* and the ports of its sockets are what keeps the replies apart.
THEOREM OnlyOwnRepliesHolds == DnsSpec => []OnlyOwnReplies
<1>1. DnsInv => OnlyOwnReplies
  <2>. SUFFICES ASSUME DnsInv, dns_rx # << >>
                PROVE  Head(dns_rx).port = dns_retry + 1
    BY DEF OnlyOwnReplies
  <2>1. dns_pc = "wait" /\ \E m \in Msgs : dns_rx = <<m>> /\ m.port = dns_port
    BY DEF DnsInv, OwnDatagram
  <2>2. PICK m \in Msgs : dns_rx = <<m>> /\ m.port = dns_port
    BY <2>1
  <2>3. Head(dns_rx) = m
    BY <2>2
  <2>. QED  BY <2>1, <2>2, <2>3 DEF DnsInv, PortOfLookup
<1>. QED  BY <1>1, DnsStarts, DnsStep, PTL DEF DnsSpec

----------------------------------------------------------------------------
(* AutoConfig6.                                                            *)

PrefixValues == Routers \union {NoAddr}
Gateways == Routers \union Hosts \union {NoAddr}
Iids     == {NoAddr, Ours}
NetInfos == [lla : Iids, prefix : PrefixValues, iid : Iids, gw6 : Gateways]

\* An advertisement comes from the router of its prefix.
Packets == {p \in [type : {"RA", "other"}, src : Routers \union Hosts, mo : MOFlags,
                   prefix : PrefixValues, dns : PrefixValues] : p.prefix \in {NoAddr, p.src}}

AacType ==
    /\ recvfrom6 \in BOOLEAN /\ answered \in BOOLEAN
    /\ aac_pc \in {"begin", "dad", "ask router", "wait RA", "stateless", "stateful", "close", "done"}
    /\ SLCR \in {"", "NS", "RS"} /\ SLIR \subseteq {"NS", "RS", "TOUT"}
    /\ dhcp6_state \in {"STOP", "INIT", "RELEASE"} /\ asked6 \in BOOLEAN /\ result_aac \in {0, 1}
    /\ Len(dhcp6_rx) <= 1

Inbox == icmp_rx \in Seq(Packets) /\ Len(icmp_rx) <= IcmpMax

\* The tentative address is used only when the chip's question about it has timed
\* out, and the question that could still be answered is over by then.
Tentative ==
    /\ netinfo \in NetInfos /\ chip6 \in NetInfos
    /\ aac_pc \in {"begin", "dad"} => netinfo = Unset /\ chip6 = Unset
    /\ aac_pc = "begin" => SLCR = "" /\ SLIR = {} /\ ~answered
    /\ aac_pc = "dad" => \/ SLCR = "NS" /\ SLIR = {} /\ ~answered
                         \/ SLCR = "" /\ ("TOUT" \in SLIR => ~answered)
    /\ aac_pc \notin {"begin", "dad"} => SLCR # "NS"
    /\ answered => Ours \notin {netinfo.lla, netinfo.iid, chip6.lla, chip6.iid}

\* There is no prefix before the first advertisement, which ends the wait.
FirstPrefix ==
    /\ aac_pc \in {"begin", "dad", "ask router", "wait RA"} =>
           netinfo.prefix = NoAddr /\ chip6.prefix = NoAddr
    /\ chip6.prefix # NoAddr => chip6.gw6 = chip6.prefix

AacInv == AacType /\ Inbox /\ Tentative /\ FirstPrefix

LEMMA NoAddrIs == NoAddr # Ours /\ NoAddr \notin Routers \union Hosts /\ IcmpMax \in Nat
BY AutoConfigAssumption

LEMMA UnsetIs ==
    /\ Unset \in NetInfos /\ Unset.prefix = NoAddr
    /\ Ours \notin {Unset.lla, Unset.iid}
BY NoAddrIs DEF Unset, NetInfos, Iids, PrefixValues, Gateways

LEMMA NoPackets == << >> \in Seq(Packets) /\ Len(<< >>) <= IcmpMax
BY NoAddrIs

LEMMA DadAsksStep ==
    ASSUME AacInv, DadAsks, UNCHANGED recvfrom6
    PROVE  AacInv'
<1>1. /\ aac_pc = "begin" /\ SLCR' = "NS" /\ aac_pc' = "dad"
      /\ UNCHANGED <<netinfo, chip6, SLIR, answered, icmp_rx, dhcp6_state, dhcp6_rx,
                     asked6, DNS6_Address, result_aac>>
  BY DEF DadAsks
<1>2. AacType' /\ Inbox'
  BY <1>1 DEF AacInv, AacType, Inbox
<1>3. Tentative' /\ FirstPrefix'
  BY <1>1 DEF AacInv, Tentative, FirstPrefix
<1>. QED  BY <1>2, <1>3 DEF AacInv

LEMMA DetectionStep ==
    ASSUME AacInv, Duplicate_Address_Detection, UNCHANGED recvfrom6
    PROVE  AacInv'
<1>1. /\ aac_pc = "dad" /\ SLIR \intersect {"TOUT", "NS"} # {}
      /\ netinfo' = [netinfo EXCEPT !.lla = LinkLocal] /\ chip6' = netinfo'
      /\ SLIR' = {} /\ aac_pc' = "ask router"
      /\ UNCHANGED <<SLCR, answered, icmp_rx, dhcp6_state, dhcp6_rx, asked6, DNS6_Address, result_aac>>
  BY DEF Duplicate_Address_Detection
<1>2. AacType' /\ Inbox'
  BY <1>1 DEF AacInv, AacType, Inbox
<1>3. netinfo = Unset /\ SLCR = "" /\ ("TOUT" \in SLIR => ~answered)
  BY <1>1 DEF AacInv, Tentative
<1>4. LinkLocal \in Iids /\ (LinkLocal = Ours => ~answered)
  BY <1>3, NoAddrIs DEF LinkLocal, Unset, Iids
<1>5. /\ netinfo' \in NetInfos /\ netinfo'.lla = LinkLocal
      /\ netinfo'.iid = NoAddr /\ netinfo'.prefix = NoAddr
  BY <1>1, <1>3, <1>4 DEF Unset, NetInfos, Iids, PrefixValues, Gateways
<1>6. Tentative'
  BY <1>1, <1>3, <1>4, <1>5, NoAddrIs DEF Tentative
<1>7. FirstPrefix'
  BY <1>1, <1>5 DEF FirstPrefix
<1>. QED  BY <1>2, <1>6, <1>7 DEF AacInv

LEMMA ChipAnswersStep ==
    ASSUME AacInv, ChipAnswers, UNCHANGED recvfrom6
    PROVE  AacInv'
<1>1. /\ SLCR # "" /\ SLCR' = ""
      /\ UNCHANGED <<aac_pc, netinfo, chip6, icmp_rx, dhcp6_state, dhcp6_rx, asked6, DNS6_Address,
                     result_aac>>
  BY DEF ChipAnswers
<1>2. PICK irq \in {SLCR, "TOUT"} :
          SLIR' = SLIR \union {irq} /\ answered' = (answered \/ irq = "NS")
  BY DEF ChipAnswers
<1>3. AacType' /\ Inbox'
  BY <1>1, <1>2 DEF AacInv, AacType, Inbox
<1>4. FirstPrefix'
  BY <1>1 DEF AacInv, FirstPrefix
<1>5. Tentative'
  <2>1. aac_pc # "begin"
    BY <1>1 DEF AacInv, Tentative
  <2>2. CASE aac_pc = "dad"
    <3>1. SLCR = "NS" /\ SLIR = {} /\ ~answered /\ netinfo = Unset /\ chip6 = Unset
      BY <1>1, <2>2 DEF AacInv, Tentative
    <3>2. "TOUT" \in SLIR' => ~answered'
      BY <1>2, <3>1
    <3>. QED  BY <1>1, <2>2, <3>1, <3>2, UnsetIs DEF Tentative
  <2>3. CASE aac_pc \notin {"begin", "dad"}
    <3>1. SLCR # "NS"
      BY <2>3 DEF AacInv, Tentative
    <3>2. answered' = answered
      BY <1>2, <3>1 DEF AacInv, AacType
    <3>. QED  BY <1>1, <2>3, <3>2 DEF AacInv, Tentative
  <2>. QED  BY <2>1, <2>2, <2>3
<1>. QED  BY <1>3, <1>4, <1>5 DEF AacInv

LEMMA SolicitsStep ==
    ASSUME AacInv, SolicitsRouter, UNCHANGED recvfrom6
    PROVE  AacInv'
<1>1. /\ aac_pc = "ask router" /\ SLCR' = "RS" /\ aac_pc' = "wait RA" /\ icmp_rx' = << >>
      /\ UNCHANGED <<netinfo, chip6, SLIR, answered, dhcp6_state, dhcp6_rx, asked6, DNS6_Address,
                     result_aac>>
  BY DEF SolicitsRouter
<1>2. AacType' /\ Inbox'
  BY <1>1, NoPackets DEF AacInv, AacType, Inbox
<1>3. Tentative' /\ FirstPrefix'
  BY <1>1 DEF AacInv, Tentative, FirstPrefix
<1>. QED  BY <1>2, <1>3 DEF AacInv

LEMMA ArrivesInTime ==
    ASSUME AacInv, NEW p \in Packets, Arrives(p), UNCHANGED recvfrom6
    PROVE  AacInv'
<1>1. /\ Len(icmp_rx) < IcmpMax /\ icmp_rx' = Append(icmp_rx, p)
      /\ UNCHANGED <<aac_pc, netinfo, chip6, SLCR, SLIR, answered, dhcp6_state, dhcp6_rx,
                     asked6, DNS6_Address, result_aac>>
  BY DEF Arrives
<1>2. AacType' /\ Tentative' /\ FirstPrefix'
  <2>1. AacType'
    BY <1>1 DEF AacInv, AacType
  <2>2. Tentative'
    BY <1>1 DEF AacInv, Tentative
  <2>3. FirstPrefix'
    BY <1>1 DEF AacInv, FirstPrefix
  <2>. QED  BY <2>1, <2>2, <2>3
<1>3. Inbox'
  <2>1. icmp_rx \in Seq(Packets)
    BY DEF AacInv, Inbox
  <2>2. Len(icmp_rx) \in Nat
    BY <2>1, LenProperties
  <2>3. icmp_rx' \in Seq(Packets) /\ Len(icmp_rx') = Len(icmp_rx) + 1
    BY <1>1, <2>1, AppendProperties
  <2>. QED  BY <1>1, <2>2, <2>3, NoAddrIs DEF Inbox
<1>. QED  BY <1>2, <1>3 DEF AacInv

LEMMA FirstPacket ==
    ASSUME Inbox, icmp_rx # << >>
    PROVE  /\ Head(icmp_rx) \in Packets /\ Tail(icmp_rx) \in Seq(Packets)
           /\ Len(Tail(icmp_rx)) <= IcmpMax
<1>1. icmp_rx \in Seq(Packets) /\ Len(icmp_rx) <= IcmpMax
  BY DEF Inbox
<1>2. /\ Head(icmp_rx) \in Packets /\ Tail(icmp_rx) \in Seq(Packets)
      /\ Len(Tail(icmp_rx)) = Len(icmp_rx) - 1
  BY <1>1, HeadTailProperties
<1>3. Len(icmp_rx) \in Nat
  BY <1>1, LenProperties
<1>. QED  BY <1>1, <1>2, <1>3, NoAddrIs

\* The gateway alone changes while the wait goes on.
LEMMA GatewayStep ==
    ASSUME AacInv, aac_pc = "wait RA", NEW g \in Gateways, netinfo' = [netinfo EXCEPT !.gw6 = g],
           UNCHANGED <<recvfrom6, aac_pc, chip6, SLCR, SLIR, answered, dhcp6_state, dhcp6_rx, asked6,
                       result_aac>>
    PROVE  AacType' /\ Tentative' /\ FirstPrefix'
<1>1. netinfo \in NetInfos
  BY DEF AacInv, Tentative
<1>2. /\ netinfo' \in NetInfos /\ netinfo'.lla = netinfo.lla /\ netinfo'.iid = netinfo.iid
      /\ netinfo'.prefix = netinfo.prefix
  BY <1>1 DEF NetInfos
<1>3. AacType'
  BY DEF AacInv, AacType
<1>4. Tentative'
  BY <1>2 DEF AacInv, Tentative
<1>5. FirstPrefix'
  BY <1>2 DEF AacInv, FirstPrefix
<1>. QED  BY <1>3, <1>4, <1>5

LEMMA AdvertisementStep ==
    ASSUME AacInv, Address_Auto_Config_RA, UNCHANGED recvfrom6
    PROVE  AacInv'
<1>. DEFINE p == Head(icmp_rx)
<1>1. /\ aac_pc = "wait RA" /\ icmp_rx # << >> /\ UNCHANGED <<SLCR, SLIR, answered, dhcp6_rx, asked6>>
      /\ \/ /\ p.type = "other"
            /\ netinfo' = [netinfo EXCEPT !.gw6 = Gateway(p)]
            /\ icmp_rx' = Tail(icmp_rx)
            /\ UNCHANGED <<aac_pc, chip6, dhcp6_state, DNS6_Address, result_aac>>
         \/ /\ p.type = "RA"
            /\ RaOptions(p) /\ chip6' = netinfo' /\ icmp_rx' = << >>
            /\ aac_pc' = CASE p.mo = SLAAC_DHCP6 -> "stateless" [] p.mo = SFAAC_DHCP6 -> "stateful"
                           [] OTHER -> "close"
            /\ result_aac' = (IF p.mo = SLAAC_RDNSS THEN 1 ELSE 0)
            /\ dhcp6_state' = (IF p.mo = SLAAC_DHCP6 THEN "INIT" ELSE dhcp6_state)
  BY DEF Address_Auto_Config_RA
<1>2. p \in Packets /\ Tail(icmp_rx) \in Seq(Packets) /\ Len(Tail(icmp_rx)) <= IcmpMax
  BY <1>1, FirstPacket DEF AacInv
<1>. HIDE DEF p
<1>3. p.src \in Gateways /\ p.src \in Routers \union Hosts /\ p.prefix \in PrefixValues
      /\ p.prefix \in {NoAddr, p.src}
  BY <1>2 DEF Packets, Gateways
<1>4. CASE p.type = "other"
  <2>1. /\ netinfo' = [netinfo EXCEPT !.gw6 = p.src] /\ icmp_rx' = Tail(icmp_rx)
        /\ UNCHANGED <<aac_pc, chip6, dhcp6_state, DNS6_Address, result_aac>>
    BY <1>1, <1>4 DEF Gateway
  <2>2. AacType' /\ Tentative' /\ FirstPrefix'
    BY <1>1, <1>3, <2>1, GatewayStep
  <2>. QED  BY <1>2, <2>1, <2>2 DEF AacInv, Inbox
<1>5. CASE p.type = "RA"
  <2>1. /\ netinfo' = [netinfo EXCEPT !.gw6 = p.src,
                                      !.prefix = IF p.prefix = NoAddr THEN @ ELSE p.prefix,
                                      !.iid = IF p.prefix = NoAddr THEN @ ELSE chip6.lla]
        /\ chip6' = netinfo' /\ icmp_rx' = << >>
        /\ aac_pc' \in {"stateless", "stateful", "close"} /\ result_aac' \in {0, 1}
        /\ dhcp6_state' \in {"INIT", dhcp6_state}
    BY <1>1, <1>5 DEF RaOptions, Gateway
  <2>2. /\ netinfo \in NetInfos /\ chip6 \in NetInfos /\ netinfo.prefix = NoAddr
        /\ answered => Ours \notin {netinfo.lla, netinfo.iid, chip6.lla}
    BY <1>1 DEF AacInv, Tentative, FirstPrefix
  <2>3. /\ netinfo' \in NetInfos /\ netinfo'.lla = netinfo.lla
        /\ netinfo'.iid \in {netinfo.iid, chip6.lla}
        /\ netinfo'.gw6 = p.src /\ netinfo'.prefix \in {NoAddr, p.src}
    BY <1>3, <2>1, <2>2 DEF NetInfos
  <2>4. AacType' /\ Inbox'
    BY <1>1, <2>1, NoPackets DEF AacInv, AacType, Inbox
  <2>5. Tentative'
    <3>1. SLCR # "NS"
      BY <1>1 DEF AacInv, Tentative
    <3>2. answered => Ours \notin {netinfo'.lla, netinfo'.iid}
      BY <2>2, <2>3
    <3>. QED  BY <1>1, <2>1, <2>3, <3>1, <3>2 DEF Tentative
  <2>6. FirstPrefix'
    BY <2>1, <2>3 DEF FirstPrefix
  <2>. QED  BY <2>4, <2>5, <2>6 DEF AacInv
<1>. QED  BY <1>1, <1>4, <1>5

LEMMA RefusedStep ==
    ASSUME AacInv, RefusedRead, UNCHANGED recvfrom6
    PROVE  AacInv'
<1>1. /\ aac_pc = "wait RA"
      /\ UNCHANGED <<aac_pc, chip6, SLCR, SLIR, answered, icmp_rx, dhcp6_state, dhcp6_rx, asked6,
                     DNS6_Address, result_aac>>
  BY DEF RefusedRead
<1>2. PICK g \in Gateways : netinfo' = [netinfo EXCEPT !.gw6 = g]
  BY DEF RefusedRead, Gateways
<1>3. AacType' /\ Tentative' /\ FirstPrefix'
  BY <1>1, <1>2, GatewayStep
<1>. QED  BY <1>1, <1>3 DEF AacInv, Inbox

\* The rest of the configuration leaves the addresses alone.
LEMMA LaterStep ==
    ASSUME AacInv, \/ Address_Auto_Config_SLDHCP \/ CloseAac
                   \/ \E dns \in Routers \union {NoAddr} : ServerAnswers(dns),
           UNCHANGED recvfrom6
    PROVE  AacInv'
<1>1. /\ aac_pc \in {"stateless", "close"} /\ aac_pc' \in {"stateless", "close", "done"}
      /\ UNCHANGED <<netinfo, chip6, SLCR, SLIR, answered, icmp_rx>>
  BY DEF Address_Auto_Config_SLDHCP, CloseAac, ServerAnswers
<1>2. /\ dhcp6_rx' = << >> \/ \E dns \in Routers \union {NoAddr} : dhcp6_rx' = <<dns>>
      /\ dhcp6_state' \in {dhcp6_state, "RELEASE"} /\ asked6' \in {asked6, TRUE}
      /\ result_aac' \in {result_aac, 1}
  BY DEF Address_Auto_Config_SLDHCP, DHCP6_run2, parseDHCP6MSG, send_DHCP_INFOREQ, CloseAac,
         ServerAnswers
<1>3. Len(dhcp6_rx') <= 1
  <2>1. CASE dhcp6_rx' = << >>
    <3>1. Len(dhcp6_rx') = 0
      BY <2>1
    <3>. QED  BY <3>1
  <2>2. ASSUME NEW dns \in Routers \union {NoAddr}, dhcp6_rx' = <<dns>>
        PROVE  Len(dhcp6_rx') <= 1
    <3>1. Len(dhcp6_rx') = 1
      BY <2>2
    <3>. QED  BY <3>1
  <2>. QED  BY <1>2, <2>1, <2>2
<1>4. AacType' /\ Inbox'
  <2>1. AacType'
    BY <1>1, <1>2, <1>3 DEF AacInv, AacType
  <2>2. Inbox'
    BY <1>1 DEF AacInv, Inbox
  <2>. QED  BY <2>1, <2>2
<1>5. Tentative' /\ FirstPrefix'
  BY <1>1 DEF AacInv, Tentative, FirstPrefix
<1>. QED  BY <1>4, <1>5 DEF AacInv

LEMMA AacStep == AacInv /\ [AacNext]_aacVars => AacInv'
<1>. SUFFICES ASSUME AacInv, [AacNext]_aacVars
              PROVE  AacInv'
  OBVIOUS
<1>1. CASE UNCHANGED aacVars
  <2>. USE <1>1 DEF aacVars
  <2>1. AacType'
    BY DEF AacInv, AacType
  <2>2. Inbox'
    BY DEF AacInv, Inbox
  <2>3. Tentative'
    BY DEF AacInv, Tentative
  <2>4. FirstPrefix'
    BY DEF AacInv, FirstPrefix
  <2>. QED  BY <2>1, <2>2, <2>3, <2>4 DEF AacInv
<1>2. CASE AacNext
  <2>1. UNCHANGED recvfrom6 /\ (AacSteps \/ ChipAnswers \/ Neighbours)
    BY <1>2 DEF AacNext
  <2>2. CASE AacSteps
    BY <2>1, <2>2, DadAsksStep, DetectionStep, SolicitsStep, AdvertisementStep, RefusedStep, LaterStep
       DEF AacSteps
  <2>3. CASE ChipAnswers
    BY <2>1, <2>3, ChipAnswersStep
  <2>4. ASSUME NEW h \in Hosts, Arrives(Other(h))
        PROVE  AacInv'
    <3>1. Other(h) \in Packets
      BY DEF Other, Packets, PrefixValues, MOFlags
    <3>. QED  BY <2>1, <2>4, <3>1, ArrivesInTime
  <2>5. ASSUME NEW r \in Routers, NEW mo \in MOFlags, NEW prefix \in {NoAddr, r},
               NEW dns \in {NoAddr, r}, Arrives(RA(r, mo, prefix, dns))
        PROVE  AacInv'
    <3>1. RA(r, mo, prefix, dns) \in Packets
      BY DEF RA, Packets, PrefixValues
    <3>. QED  BY <2>1, <2>5, <3>1, ArrivesInTime
  <2>6. ASSUME NEW dns \in Routers \union {NoAddr}, ServerAnswers(dns)
        PROVE  AacInv'
    BY <2>1, <2>6, LaterStep
  <2>. QED  BY <2>1, <2>2, <2>3, <2>4, <2>5, <2>6 DEF Neighbours
<1>. QED  BY <1>1, <1>2

LEMMA AacStarts == AacInit => AacInv
<1>. SUFFICES ASSUME AacInit
              PROVE  AacInv
  OBVIOUS
<1>1. AacType
  <2>1. Len(dhcp6_rx) = 0
    BY DEF AacInit
  <2>2. Len(dhcp6_rx) <= 1
    BY <2>1
  <2>3. SLCR \in {"", "NS", "RS"} /\ SLIR \subseteq {"NS", "RS", "TOUT"} /\ result_aac \in {0, 1}
    BY DEF AacInit
  <2>4. /\ aac_pc \in {"begin", "dad", "ask router", "wait RA", "stateless", "stateful", "close",
                       "done"}
        /\ dhcp6_state \in {"STOP", "INIT", "RELEASE"}
    BY DEF AacInit
  <2>. QED  BY <2>2, <2>3, <2>4 DEF AacInit, AacType
<1>2. Inbox
  BY NoPackets DEF AacInit, Inbox
<1>3. Tentative /\ FirstPrefix
  BY UnsetIs DEF AacInit, Tentative, FirstPrefix
<1>. QED  BY <1>1, <1>2, <1>3 DEF AacInv

LEMMA AacTypes == AacInv => AacTypeOK
BY DEF AacInv, AacType, Inbox, Tentative, NetInfos, Iids, PrefixValues, Gateways, AacTypeOK

\* The interface, its registers and the inbox of its socket keep their shape
\* through the whole configuration: AddressAutoConfig_Init.
THEOREM AacTypeOKHolds == AacSpec => []AacTypeOK
BY AacTypes, AacStarts, AacStep, PTL DEF AacSpec

\* An identifier that a neighbour said is its own is never used, and the gateway
\* is the router of the prefix, for any routers and hosts on the link and whatever
\* they send while the interface waits: Duplicate_Address_Detection and
\* Address_Auto_Config_RA.
THEOREM AddressesAreOursHolds == AacSpec => []AddressesAreOurs
<1>1. AacInv => AddressesAreOurs
  BY DEF AacInv, Tentative, FirstPrefix, AddressesAreOurs
<1>. QED  BY <1>1, AacStarts, AacStep, PTL DEF AacSpec

----------------------------------------------------------------------------
(* Counting up: the element of a growing sequence of numbers below which a *)
(* number falls.                                                           *)

Grows(C) == \A i \in Nat : C[i] \in Int /\ C[i] < C[i + 1]

Between(C, n, z) == C[z] <= n /\ n < C[z + 1]

LEMMA GrowsAll ==
    ASSUME NEW C, Grows(C), NEW i \in Nat, NEW j \in Nat, i < j
    PROVE  C[i + 1] <= C[j]
<1>. DEFINE Good == {k \in Nat : C[i + 1] <= C[(i + 1) + k]}
<1>1. 0 \in Good
  BY DEF Grows
<1>2. ASSUME NEW k \in Nat, k \in Good
      PROVE  k + 1 \in Good
  <2>. DEFINE m == (i + 1) + k
  <2>1. m \in Nat /\ i + 1 \in Nat /\ (i + 1) + (k + 1) = m + 1 /\ m + 1 \in Nat
    OBVIOUS
  <2>2. C[i + 1] <= C[m]
    BY <1>2
  <2>. HIDE DEF m
  <2>3. C[m] < C[m + 1] /\ C[m] \in Int /\ C[m + 1] \in Int /\ C[i + 1] \in Int
    BY <2>1 DEF Grows
  <2>4. C[i + 1] <= C[m + 1]
    BY <2>2, <2>3
  <2>. QED  BY <2>1, <2>4
<1>. HIDE DEF Good
<1>3. j - (i + 1) \in Nat /\ (i + 1) + (j - (i + 1)) = j
  OBVIOUS
<1>4. j - (i + 1) \in Good
  BY <1>1, <1>2, <1>3, InductiveSet
<1>. QED  BY <1>3, <1>4 DEF Good

LEMMA BetweenExists ==
    ASSUME NEW C, Grows(C), NEW i \in Nat, NEW d \in Nat
    PROVE  \E z \in Nat : z >= i /\ Between(C, C[i] + d, z)
<1>. DEFINE Good == {k \in Nat : \E z \in Nat : z >= i /\ Between(C, C[i] + k, z)}
<1>1. 0 \in Good
  BY DEF Grows, Between
<1>2. ASSUME NEW k \in Nat, k \in Good
      PROVE  k + 1 \in Good
  <2>1. PICK z \in Nat : z >= i /\ Between(C, C[i] + k, z)
    BY <1>2
  <2>2. /\ C[i] \in Int /\ C[z] \in Int /\ C[z + 1] \in Int /\ C[(z + 1) + 1] \in Int
        /\ C[z] < C[z + 1] /\ C[z + 1] < C[(z + 1) + 1] /\ z \in Nat /\ z + 1 \in Nat
    BY DEF Grows
  <2>3. C[z] <= C[i] + k /\ C[i] + k < C[z + 1]
    BY <2>1 DEF Between
  <2>4. CASE C[i] + (k + 1) < C[z + 1]
    <3>1. Between(C, C[i] + (k + 1), z)
      BY <2>2, <2>3, <2>4 DEF Between
    <3>. QED  BY <2>1, <3>1
  <2>5. CASE ~(C[i] + (k + 1) < C[z + 1])
    <3>1. Between(C, C[i] + (k + 1), z + 1)
      BY <2>2, <2>3, <2>5 DEF Between
    <3>2. z + 1 >= i
      BY <2>1
    <3>. QED  BY <2>2, <3>1, <3>2
  <2>. QED  BY <2>4, <2>5
<1>. HIDE DEF Good
<1>3. d \in Good
  BY <1>1, <1>2, InductiveSet
<1>. QED  BY <1>3 DEF Good

LEMMA BetweenOne ==
    ASSUME NEW C, Grows(C), NEW n \in Int, NEW y \in Nat, NEW z \in Nat,
           Between(C, n, y), Between(C, n, z)
    PROVE  y = z
<1>1. /\ C[y] \in Int /\ C[z] \in Int /\ C[y + 1] \in Int /\ C[z + 1] \in Int
  BY DEF Grows
<1>2. C[y] <= n /\ n < C[y + 1] /\ C[z] <= n /\ n < C[z + 1]
  BY DEF Between
<1>3. ~(y < z)
  <2>. SUFFICES ASSUME y < z
                PROVE  FALSE
    OBVIOUS
  <2>1. C[y + 1] <= C[z]
    BY GrowsAll
  <2>. QED  BY <1>1, <1>2, <2>1
<1>4. ~(z < y)
  <2>. SUFFICES ASSUME z < y
                PROVE  FALSE
    OBVIOUS
  <2>1. C[z + 1] <= C[y]
    BY GrowsAll
  <2>. QED  BY <1>1, <1>2, <2>1
<1>. QED  BY <1>3, <1>4

PlaceIn(C, n) == CHOOSE z \in Nat : Between(C, n, z)

LEMMA PlaceFacts ==
    ASSUME NEW C, Grows(C), NEW i \in Nat, NEW d \in Nat
    PROVE  /\ C[i] + d < C[i + 1] => PlaceIn(C, C[i] + d) = i
           /\ ~(C[i] + d < C[i + 1]) => /\ d - (C[i + 1] - C[i]) \in Nat
                                        /\ C[i + 1] + (d - (C[i + 1] - C[i])) = C[i] + d
<1>1. C[i] \in Int /\ C[i + 1] \in Int /\ C[i] < C[i + 1]
  BY DEF Grows
<1>2. ASSUME C[i] + d < C[i + 1]
      PROVE  PlaceIn(C, C[i] + d) = i
  <2>1. Between(C, C[i] + d, i) /\ C[i] + d \in Int
    BY <1>1, <1>2 DEF Between
  <2>2. \A z \in Nat : Between(C, C[i] + d, z) => z = i
    BY <2>1, BetweenOne
  <2>. QED  BY <2>1, <2>2, Zenon DEF PlaceIn
<1>3. ASSUME ~(C[i] + d < C[i + 1])
      PROVE  /\ d - (C[i + 1] - C[i]) \in Nat
             /\ C[i + 1] + (d - (C[i + 1] - C[i])) = C[i] + d
  <2>. DEFINE a == C[i]
              b == C[i + 1]
  <2>1. a \in Int /\ b \in Int /\ a < b /\ ~(a + d < b)
    BY <1>1, <1>3
  <2>. HIDE DEF a, b
  <2>2. d - (b - a) \in Nat /\ b + (d - (b - a)) = a + d
    BY <2>1
  <2>. QED  BY <2>2 DEF a, b
<1>. QED  BY <1>2, <1>3

----------------------------------------------------------------------------
(* Years.                                                                  *)

\* Days before the year, counted from 1900.
PastLeaps(y) == (y - 1) \div 4 - (y - 1) \div 100 + (y - 1) \div 400 - 460
BeforeYear(y) == 365 * (y - 1900) + PastLeaps(y)

LEMMA DivNext ==
    ASSUME NEW y \in Nat
    PROVE  /\ y \div 4 = (y - 1) \div 4 + (IF y % 4 = 0 THEN 1 ELSE 0)
           /\ y \div 100 = (y - 1) \div 100 + (IF y % 100 = 0 THEN 1 ELSE 0)
           /\ y \div 400 = (y - 1) \div 400 + (IF y % 400 = 0 THEN 1 ELSE 0)
           /\ (y - 1) \div 4 \in Int /\ (y - 1) \div 100 \in Int /\ (y - 1) \div 400 \in Int
           /\ y % 400 = 0 => y % 100 = 0
           /\ y % 100 = 0 => y % 4 = 0
OBVIOUS

LEMMA LeapStep ==
    ASSUME NEW y \in Nat
    PROVE  /\ PastLeaps(y) \in Int
           /\ PastLeaps(y + 1) = PastLeaps(y) + (IF Leap(y) THEN 1 ELSE 0)
<1>1. (y + 1) - 1 = y
  OBVIOUS
<1>. DEFINE p == (y - 1) \div 4
            q == (y - 1) \div 100
            r == (y - 1) \div 400
            a == y % 4 = 0
            b == y % 100 = 0
            c == y % 400 = 0
<1>2. /\ p \in Int /\ q \in Int /\ r \in Int /\ (c => b) /\ (b => a)
      /\ y \div 4 = p + (IF a THEN 1 ELSE 0) /\ y \div 100 = q + (IF b THEN 1 ELSE 0)
      /\ y \div 400 = r + (IF c THEN 1 ELSE 0)
  BY DivNext
<1>3. PastLeaps(y) = p - q + r - 460
  BY DEF PastLeaps
<1>4. PastLeaps(y + 1) = y \div 4 - y \div 100 + y \div 400 - 460
  BY <1>1 DEF PastLeaps
<1>5. Leap(y) <=> c \/ (~b /\ a)
  BY DEF Leap
<1>. HIDE DEF p, q, r, a, b, c
<1>. QED  BY <1>2, <1>3, <1>4, <1>5

LEMMA YearStep ==
    ASSUME NEW y \in Nat
    PROVE  /\ BeforeYear(y) \in Int /\ DaysOfYear(y) \in {365, 366}
           /\ BeforeYear(y + 1) = BeforeYear(y) + DaysOfYear(y)
<1>1. PastLeaps(y) \in Int /\ PastLeaps(y + 1) = PastLeaps(y) + (IF Leap(y) THEN 1 ELSE 0)
  BY LeapStep
<1>2. CASE Leap(y)
  BY <1>1, <1>2 DEF BeforeYear, DaysOfYear
<1>3. CASE ~Leap(y)
  BY <1>1, <1>3 DEF BeforeYear, DaysOfYear
<1>. QED  BY <1>2, <1>3

YearFromIs(h) ==
    h = [when \in Nat \X Nat |->
            IF when[2] < DaysOfYear(when[1]) THEN when
                                              ELSE h[<<when[1] + 1, when[2] - DaysOfYear(when[1])>>]]

LEMMA YearFromExists == \E h : YearFromIs(h)
<1>. DEFINE C == [y \in Nat |-> BeforeYear(y)]
            z(n) == <<PlaceIn(C, n), n - C[PlaceIn(C, n)]>>
            g == [when \in Nat \X Nat |-> z(C[when[1]] + when[2])]
<1>1. Grows(C) /\ \A y \in Nat : C[y + 1] = C[y] + DaysOfYear(y) /\ DaysOfYear(y) \in {365, 366}
  BY YearStep DEF Grows
<1>2. \A y, d \in Nat : g[<<y, d>>] = z(C[y] + d)
  <2>. HIDE DEF C, z
  <2>. QED  OBVIOUS
<1>3. ASSUME NEW y \in Nat, NEW d \in Nat
      PROVE  g[<<y, d>>] = IF d < DaysOfYear(y) THEN <<y, d>> ELSE g[<<y + 1, d - DaysOfYear(y)>>]
  <2>1. C[y] \in Int /\ C[y + 1] = C[y] + DaysOfYear(y) /\ DaysOfYear(y) \in {365, 366}
    BY <1>1 DEF Grows
  <2>. HIDE DEF C, g
  <2>2. g[<<y, d>>] = z(C[y] + d)
    BY <1>2
  <2>. DEFINE b == DaysOfYear(y)
  <2>3. CASE d < b
    <3>1. C[y] + d < C[y + 1]
      BY <2>1, <2>3
    <3>2. PlaceIn(C, C[y] + d) = y
      BY <1>1, <3>1, PlaceFacts
    <3>3. (C[y] + d) - C[y] = d
      BY <2>1
    <3>. QED  BY <2>2, <2>3, <3>2, <3>3
  <2>4. CASE ~(d < b)
    <3>1. d - b \in Nat /\ y + 1 \in Nat /\ C[y + 1] + (d - b) = C[y] + d
      BY <2>1, <2>4
    <3>2. g[<<y + 1, d - b>>] = z(C[y + 1] + (d - b))
      BY <1>2, <3>1
    <3>. QED  BY <2>2, <2>4, <3>1, <3>2
  <2>. QED  BY <2>3, <2>4
<1>4. g = [when \in Nat \X Nat |-> g[when]]
  OBVIOUS
<1>. HIDE DEF g
<1>5. \A when \in Nat \X Nat : g[when] = IF when[2] < DaysOfYear(when[1]) THEN when
                                           ELSE g[<<when[1] + 1, when[2] - DaysOfYear(when[1])>>]
  <2>. SUFFICES ASSUME NEW when \in Nat \X Nat
                PROVE  g[when] = IF when[2] < DaysOfYear(when[1]) THEN when
                                       ELSE g[<<when[1] + 1, when[2] - DaysOfYear(when[1])>>]
    OBVIOUS
  <2>1. when = <<when[1], when[2]>> /\ when[1] \in Nat /\ when[2] \in Nat
    OBVIOUS
  <2>. QED  BY <1>3, <2>1
<1>6. YearFromIs(g)
  BY <1>4, <1>5, Zenon DEF YearFromIs
<1>. QED  BY <1>6

LEMMA YearFromUnfolds ==
    ASSUME NEW y \in Nat, NEW d \in Nat
    PROVE  YearFrom[<<y, d>>] = IF d < DaysOfYear(y) THEN <<y, d>>
                                                 ELSE YearFrom[<<y + 1, d - DaysOfYear(y)>>]
<1>1. YearFrom = CHOOSE h : YearFromIs(h)
  BY Zenon DEF YearFrom, YearFromIs
<1>2. YearFromIs(YearFrom)
  BY <1>1, YearFromExists, Zenon
<1>. HIDE DEF YearFrom
<1>3. <<y, d>> \in Nat \X Nat /\ <<y, d>>[1] = y /\ <<y, d>>[2] = d
  OBVIOUS
<1>. QED  BY <1>2, <1>3 DEF YearFromIs

\* The year of a day and the day in it.
LEMMA YearFromFacts ==
    ASSUME NEW y \in Nat, NEW d \in Nat
    PROVE  \E z \in Nat, e \in Nat :
              /\ YearFrom[<<y, d>>] = <<z, e>> /\ z >= y /\ e < DaysOfYear(z)
              /\ BeforeYear(y) + d = BeforeYear(z) + e
<1>. DEFINE Found(x, n) == \E z \in Nat, e \in Nat :
                              /\ YearFrom[<<x, n>>] = <<z, e>> /\ z >= x /\ e < DaysOfYear(z)
                              /\ BeforeYear(x) + n = BeforeYear(z) + e
            Good == {k \in Nat : \A x \in Nat, n \in 0 .. k : Found(x, n)}
<1>1. ASSUME NEW x \in Nat, NEW n \in Nat, n < DaysOfYear(x)
      PROVE  Found(x, n)
  <2>1. YearFrom[<<x, n>>] = <<x, n>>
    BY <1>1, YearFromUnfolds
  <2>2. x >= x
    OBVIOUS
  <2>. QED  BY <1>1, <2>1, <2>2
<1>2. ASSUME NEW x \in Nat, NEW n \in Nat, ~(n < DaysOfYear(x)),
             Found(x + 1, n - DaysOfYear(x))
      PROVE  Found(x, n)
  <2>. DEFINE b == DaysOfYear(x)
  <2>1. PICK z \in Nat, e \in Nat :
           /\ YearFrom[<<x + 1, n - b>>] = <<z, e>> /\ z >= x + 1 /\ e < DaysOfYear(z)
           /\ BeforeYear(x + 1) + (n - b) = BeforeYear(z) + e
    BY <1>2
  <2>2. YearFrom[<<x, n>>] = <<z, e>>
    BY <1>2, <2>1, YearFromUnfolds
  <2>3. b \in {365, 366} /\ BeforeYear(x) \in Int /\ BeforeYear(x + 1) = BeforeYear(x) + b
    BY YearStep
  <2>. HIDE DEF b
  <2>4. BeforeYear(x) + n = BeforeYear(x + 1) + (n - b)
    BY <2>3
  <2>5. z >= x /\ z \in Nat /\ e \in Nat
    <3>1. z \in Nat /\ e \in Nat /\ z >= x + 1
      BY <2>1
    <3>. QED  BY <3>1
  <2>6. YearFrom[<<x, n>>] = <<z, e>> /\ e < DaysOfYear(z) /\ BeforeYear(x) + n = BeforeYear(z) + e
    BY <2>1, <2>2, <2>4
  <2>. QED  BY <2>5, <2>6
<1>3. 0 \in Good
  <2>1. \A x \in Nat : 0 < DaysOfYear(x)
    BY DEF DaysOfYear
  <2>. HIDE DEF Found
  <2>. QED  BY <1>1, <2>1
<1>4. ASSUME NEW k \in Nat, k \in Good
      PROVE  k + 1 \in Good
  <2>1. ASSUME NEW x \in Nat, NEW n \in 0 .. k + 1
        PROVE  Found(x, n)
    <3>. DEFINE b == DaysOfYear(x)
    <3>1. b \in {365, 366} /\ n \in Nat
      BY YearStep
    <3>2. CASE n < b
      BY <1>1, <3>1, <3>2
    <3>3. CASE ~(n < b)
      <4>1. n - b \in 0 .. k /\ x + 1 \in Nat
        BY <3>1, <3>3
      <4>2. Found(x + 1, n - b)
        <5>. HIDE DEF Found, b
        <5>. QED  BY <1>4, <4>1
      <4>. HIDE DEF Found
      <4>. QED  BY <1>2, <3>1, <3>3, <4>2
    <3>. HIDE DEF Found
    <3>. QED  BY <3>2, <3>3
  <2>. HIDE DEF Found
  <2>2. k + 1 \in Nat
    OBVIOUS
  <2>. QED  BY <2>1, <2>2
<1>. HIDE DEF Good
<1>5. d \in Good /\ d \in 0 .. d
  BY <1>3, <1>4, InductiveSet
<1>. HIDE DEF Found
<1>6. Found(y, d)
  BY <1>5 DEF Good
<1>. QED  BY <1>6 DEF Found

----------------------------------------------------------------------------
(* Months.                                                                 *)

LeapDay(y) == IF Leap(y) THEN 1 ELSE 0

\* Days before a month of the year; the loop would go on with months of 30 days.
BeforeMonth(y, m) ==
    IF m = 0 THEN -30
    ELSE IF m > 12 THEN 365 + LeapDay(y) + 30 * (m - 13)
    ELSE <<0, 31, 59, 90, 120, 151, 181, 212, 243, 273, 304, 334>>[m]
             + (IF m > 2 THEN LeapDay(y) ELSE 0)

LEMMA BeforeMonthIs ==
    ASSUME NEW y \in Nat, NEW l, l = LeapDay(y)
    PROVE  /\ BeforeMonth(y, 1) = 0        /\ BeforeMonth(y, 2) = 31
           /\ BeforeMonth(y, 3) = 59 + l   /\ BeforeMonth(y, 4) = 90 + l
           /\ BeforeMonth(y, 5) = 120 + l  /\ BeforeMonth(y, 6) = 151 + l
           /\ BeforeMonth(y, 7) = 181 + l  /\ BeforeMonth(y, 8) = 212 + l
           /\ BeforeMonth(y, 9) = 243 + l  /\ BeforeMonth(y, 10) = 273 + l
           /\ BeforeMonth(y, 11) = 304 + l /\ BeforeMonth(y, 12) = 334 + l
           /\ BeforeMonth(y, 0) = -30
           /\ \A m \in Nat : m > 12 => BeforeMonth(y, m) = 365 + l + 30 * (m - 13)
BY DEF BeforeMonth

LEMMA DaysOfMonthIs ==
    ASSUME NEW y \in Nat, NEW l, l = LeapDay(y)
    PROVE  /\ \A m \in {1, 3, 5, 7, 8, 10, 12} : DaysOfMonth(y, m) = 31
           /\ DaysOfMonth(y, 2) = 28 + l
           /\ \A m \in Nat : m \notin {1, 2, 3, 5, 7, 8, 10, 12} => DaysOfMonth(y, m) = 30
           /\ l \in {0, 1}
BY DEF DaysOfMonth, LeapDay

LEMMA MonthStep ==
    ASSUME NEW y \in Nat, NEW m \in Nat
    PROVE  /\ BeforeMonth(y, m) \in Int /\ DaysOfMonth(y, m) \in 28 .. 31
           /\ BeforeMonth(y, m + 1) = BeforeMonth(y, m) + DaysOfMonth(y, m)
<1>. DEFINE l == LeapDay(y)
            B(n) == BeforeMonth(y, n)
            D(n) == DaysOfMonth(y, n)
<1>1. /\ B(0) = -30 /\ B(1) = 0 /\ B(2) = 31 /\ B(3) = 59 + l /\ B(4) = 90 + l
      /\ B(5) = 120 + l /\ B(6) = 151 + l /\ B(7) = 181 + l /\ B(8) = 212 + l
      /\ B(9) = 243 + l /\ B(10) = 273 + l /\ B(11) = 304 + l /\ B(12) = 334 + l
      /\ \A n \in Nat : n > 12 => B(n) = 365 + l + 30 * (n - 13)
  BY BeforeMonthIs
<1>2. /\ \A n \in {1, 3, 5, 7, 8, 10, 12} : D(n) = 31
      /\ D(2) = 28 + l /\ l \in {0, 1}
      /\ \A n \in Nat : n \notin {1, 2, 3, 5, 7, 8, 10, 12} => D(n) = 30
  BY DaysOfMonthIs
<1>. HIDE DEF l, B, D
<1>3. B(13) = 365 + l
  BY <1>1, <1>2
<1>4. CASE m > 12
  <2>1. m + 1 > 12 /\ m + 1 \in Nat /\ m \notin {1, 2, 3, 5, 7, 8, 10, 12}
    BY <1>4
  <2>2. B(m) = 365 + l + 30 * (m - 13) /\ B(m + 1) = 365 + l + 30 * ((m + 1) - 13) /\ D(m) = 30
    BY <1>1, <1>2, <1>4, <2>1
  <2>3. B(m) \in Int /\ D(m) \in 28 .. 31 /\ B(m + 1) = B(m) + D(m)
    BY <1>2, <2>2
  <2>. QED  BY <2>3 DEF B, D
<1>5. CASE ~(m > 12)
  <2>1. \/ m = 0 \/ m = 1 \/ m = 2 \/ m = 3 \/ m = 4 \/ m = 5 \/ m = 6 \/ m = 7 \/ m = 8
        \/ m = 9 \/ m = 10 \/ m = 11 \/ m = 12
    BY <1>5
  <2>2. D(0) = 30 /\ D(4) = 30 /\ D(6) = 30 /\ D(9) = 30 /\ D(11) = 30
    BY <1>2
  <2>3. D(1) = 31 /\ D(3) = 31 /\ D(5) = 31 /\ D(7) = 31 /\ D(8) = 31 /\ D(10) = 31 /\ D(12) = 31
    BY <1>2
  <2>4. B(m) \in Int /\ D(m) \in 28 .. 31 /\ B(m + 1) = B(m) + D(m)
    BY <1>1, <1>2, <1>3, <2>1, <2>2, <2>3
  <2>. QED  BY <2>4 DEF B, D
<1>. QED  BY <1>4, <1>5

MonthFromIs(h) ==
    h = [when \in Nat \X Nat \X Nat |->
            IF when[3] < 28 \/ when[3] < DaysOfMonth(when[1], when[2]) THEN when
            ELSE h[<<when[1], when[2] + 1, when[3] - DaysOfMonth(when[1], when[2])>>]]

LEMMA MonthFromExists == \E h : MonthFromIs(h)
<1>. DEFINE C(y) == [m \in Nat |-> BeforeMonth(y, m)]
            z(y, n) == <<y, PlaceIn(C(y), n), n - C(y)[PlaceIn(C(y), n)]>>
            g == [when \in Nat \X Nat \X Nat |-> z(when[1], C(when[1])[when[2]] + when[3])]
<1>1. ASSUME NEW y \in Nat
      PROVE  /\ Grows(C(y))
             /\ \A m \in Nat : C(y)[m + 1] = C(y)[m] + DaysOfMonth(y, m) /\ DaysOfMonth(y, m) \in 28 .. 31
  <2>. DEFINE K == C(y)
  <2>1. \A m \in Nat : m + 1 \in Nat /\ BeforeMonth(y, m) \in Int
            /\ DaysOfMonth(y, m) \in 28 .. 31
            /\ BeforeMonth(y, m + 1) = BeforeMonth(y, m) + DaysOfMonth(y, m)
    BY MonthStep
  <2>2. \A m \in Nat : K[m] = BeforeMonth(y, m) /\ K[m + 1] = BeforeMonth(y, m + 1)
    BY <2>1
  <2>. HIDE DEF K
  <2>3. \A m \in Nat : K[m] \in Int /\ K[m + 1] = K[m] + DaysOfMonth(y, m)
                        /\ DaysOfMonth(y, m) \in 28 .. 31
    BY <2>1, <2>2
  <2>4. \A m \in Nat : K[m] < K[m + 1]
    BY <2>3
  <2>5. Grows(K)
    BY <2>3, <2>4, Zenon DEF Grows
  <2>. QED  BY <2>3, <2>5 DEF K
<1>2. \A y, m, d \in Nat : g[<<y, m, d>>] = z(y, C(y)[m] + d)
  <2>. HIDE DEF C, z
  <2>. QED  OBVIOUS
<1>3. ASSUME NEW y \in Nat, NEW m \in Nat, NEW d \in Nat
      PROVE  g[<<y, m, d>>] = IF d < 28 \/ d < DaysOfMonth(y, m) THEN <<y, m, d>>
                              ELSE g[<<y, m + 1, d - DaysOfMonth(y, m)>>]
  <2>. DEFINE b == DaysOfMonth(y, m)
              K == C(y)
  <2>1. K[m] \in Int /\ K[m + 1] = K[m] + b /\ b \in 28 .. 31 /\ Grows(K)
    BY <1>1 DEF Grows
  <2>2. g[<<y, m, d>>] = z(y, K[m] + d)
    <3>. HIDE DEF C, g
    <3>. QED  BY <1>2
  <2>. HIDE DEF K, g, b
  <2>3. CASE d < b
    <3>1. K[m] + d < K[m + 1]
      BY <2>1, <2>3
    <3>2. PlaceIn(K, K[m] + d) = m
      BY <2>1, <3>1, PlaceFacts
    <3>3. (K[m] + d) - K[m] = d
      BY <2>1
    <3>4. z(y, K[m] + d) = <<y, m, d>>
      BY <3>2, <3>3 DEF K
    <3>. HIDE DEF z
    <3>. QED  BY <2>2, <2>3, <3>4 DEF b
  <2>4. CASE ~(d < b)
    <3>1. d - b \in Nat /\ m + 1 \in Nat /\ K[m + 1] + (d - b) = K[m] + d /\ ~(d < 28)
      BY <2>1, <2>4
    <3>2. g[<<y, m + 1, d - b>>] = z(y, K[m + 1] + (d - b))
      <4>. HIDE DEF C, z
      <4>. QED  BY <1>2, <3>1 DEF K
    <3>. HIDE DEF z
    <3>. QED  BY <2>2, <2>4, <3>1, <3>2 DEF b
  <2>. QED  BY <2>3, <2>4
<1>4. g = [when \in Nat \X Nat \X Nat |-> g[when]]
  OBVIOUS
<1>. HIDE DEF g
<1>5. \A when \in Nat \X Nat \X Nat :
         g[when] = IF when[3] < 28 \/ when[3] < DaysOfMonth(when[1], when[2]) THEN when
                 ELSE g[<<when[1], when[2] + 1, when[3] - DaysOfMonth(when[1], when[2])>>]
  <2>. SUFFICES ASSUME NEW when \in Nat \X Nat \X Nat
                PROVE  g[when] = IF when[3] < 28 \/ when[3] < DaysOfMonth(when[1], when[2]) THEN when
                               ELSE g[<<when[1], when[2] + 1, when[3] - DaysOfMonth(when[1], when[2])>>]
    OBVIOUS
  <2>1. when = <<when[1], when[2], when[3]>> /\ when[1] \in Nat /\ when[2] \in Nat /\ when[3] \in Nat
    OBVIOUS
  <2>. QED  BY <1>3, <2>1
<1>6. MonthFromIs(g)
  BY <1>4, <1>5, Zenon DEF MonthFromIs
<1>. QED  BY <1>6

LEMMA MonthFromUnfolds ==
    ASSUME NEW y \in Nat, NEW m \in Nat, NEW d \in Nat
    PROVE  MonthFrom[<<y, m, d>>] =
              IF d < DaysOfMonth(y, m) THEN <<y, m, d>>
                                       ELSE MonthFrom[<<y, m + 1, d - DaysOfMonth(y, m)>>]
<1>1. MonthFrom = CHOOSE h : MonthFromIs(h)
  BY Zenon DEF MonthFrom, MonthFromIs
<1>2. MonthFromIs(MonthFrom)
  BY <1>1, MonthFromExists, Zenon
<1>. HIDE DEF MonthFrom
<1>. DEFINE when == <<y, m, d>>
<1>3. when \in Nat \X Nat \X Nat /\ when[1] = y /\ when[2] = m /\ when[3] = d
  OBVIOUS
<1>. HIDE DEF when
<1>4. MonthFrom[when] = IF d < 28 \/ d < DaysOfMonth(y, m) THEN when
                      ELSE MonthFrom[<<y, m + 1, d - DaysOfMonth(y, m)>>]
  BY <1>2, <1>3 DEF MonthFromIs
<1>5. d < 28 => d < DaysOfMonth(y, m)
  <2>1. DaysOfMonth(y, m) \in 28 .. 31
    BY MonthStep
  <2>. QED  BY <2>1
<1>. QED  BY <1>4, <1>5 DEF when

InMonth(y, m, d) ==
    \E z \in Nat, e \in Nat :
        /\ MonthFrom[<<y, m, d>>] = <<y, z, e>> /\ z >= m /\ e < DaysOfMonth(y, z)
        /\ BeforeMonth(y, m) + d = BeforeMonth(y, z) + e

LEMMA MonthFromFacts ==
    ASSUME NEW y \in Nat, NEW m \in Nat, NEW d \in Nat
    PROVE  InMonth(y, m, d)
<1>. DEFINE Found(x, n) == \E z \in Nat, e \in Nat :
                              /\ MonthFrom[<<y, x, n>>] = <<y, z, e>> /\ z >= x
                              /\ e < DaysOfMonth(y, z)
                              /\ BeforeMonth(y, x) + n = BeforeMonth(y, z) + e
            Good == {k \in Nat : \A x \in Nat, n \in 0 .. k : Found(x, n)}
<1>1. ASSUME NEW x \in Nat, NEW n \in Nat, n < DaysOfMonth(y, x)
      PROVE  Found(x, n)
  <2>1. MonthFrom[<<y, x, n>>] = <<y, x, n>>
    BY <1>1, MonthFromUnfolds
  <2>2. x >= x
    OBVIOUS
  <2>. QED  BY <1>1, <2>1, <2>2
<1>2. ASSUME NEW x \in Nat, NEW n \in Nat, ~(n < DaysOfMonth(y, x)),
             Found(x + 1, n - DaysOfMonth(y, x))
      PROVE  Found(x, n)
  <2>. DEFINE b == DaysOfMonth(y, x)
  <2>1. PICK z \in Nat, e \in Nat :
           /\ MonthFrom[<<y, x + 1, n - b>>] = <<y, z, e>> /\ z >= x + 1 /\ e < DaysOfMonth(y, z)
           /\ BeforeMonth(y, x + 1) + (n - b) = BeforeMonth(y, z) + e
    BY <1>2
  <2>2. MonthFrom[<<y, x, n>>] = <<y, z, e>>
    BY <1>2, <2>1, MonthFromUnfolds
  <2>3. b \in 28 .. 31 /\ BeforeMonth(y, x) \in Int /\ BeforeMonth(y, x + 1) = BeforeMonth(y, x) + b
    BY MonthStep
  <2>. HIDE DEF b
  <2>4. BeforeMonth(y, x) + n = BeforeMonth(y, x + 1) + (n - b)
    BY <2>3
  <2>5. z >= x /\ z \in Nat /\ e \in Nat
    <3>1. z \in Nat /\ e \in Nat /\ z >= x + 1
      BY <2>1
    <3>. QED  BY <3>1
  <2>6. /\ MonthFrom[<<y, x, n>>] = <<y, z, e>> /\ e < DaysOfMonth(y, z)
        /\ BeforeMonth(y, x) + n = BeforeMonth(y, z) + e
    BY <2>1, <2>2, <2>4
  <2>. QED  BY <2>5, <2>6
<1>3. 0 \in Good
  <2>1. \A x \in Nat : 0 < DaysOfMonth(y, x)
    <3>1. \A x \in Nat : DaysOfMonth(y, x) \in 28 .. 31
      BY MonthStep
    <3>. QED  BY <3>1
  <2>. HIDE DEF Found
  <2>. QED  BY <1>1, <2>1
<1>4. ASSUME NEW k \in Nat, k \in Good
      PROVE  k + 1 \in Good
  <2>1. ASSUME NEW x \in Nat, NEW n \in 0 .. k + 1
        PROVE  Found(x, n)
    <3>. DEFINE b == DaysOfMonth(y, x)
    <3>1. b \in 28 .. 31 /\ n \in Nat
      BY MonthStep
    <3>2. CASE n < b
      BY <1>1, <3>1, <3>2
    <3>3. CASE ~(n < b)
      <4>1. n - b \in 0 .. k /\ x + 1 \in Nat
        BY <3>1, <3>3
      <4>2. Found(x + 1, n - b)
        <5>. HIDE DEF Found, b
        <5>. QED  BY <1>4, <4>1
      <4>. HIDE DEF Found
      <4>. QED  BY <1>2, <3>1, <3>3, <4>2
    <3>. HIDE DEF Found
    <3>. QED  BY <3>2, <3>3
  <2>. HIDE DEF Found
  <2>2. k + 1 \in Nat
    OBVIOUS
  <2>. QED  BY <2>1, <2>2
<1>. HIDE DEF Good
<1>5. d \in Good /\ d \in 0 .. d
  BY <1>3, <1>4, InductiveSet
<1>. HIDE DEF Found
<1>6. Found(m, d)
  BY <1>5 DEF Good
<1>. QED  BY <1>6, Zenon DEF Found, InMonth

\* The month of a day of the year and the day in it.
LEMMA MonthOfDay ==
    ASSUME NEW y \in Nat, NEW d \in Nat, d < DaysOfYear(y)
    PROVE  \E m \in 1 .. 12, e \in 0 .. 30 :
              MonthFrom[<<y, 1, d>>] = <<y, m, e>> /\ BeforeMonth(y, m) + e = d
<1>1. PICK m \in Nat, e \in Nat :
         /\ MonthFrom[<<y, 1, d>>] = <<y, m, e>> /\ m >= 1 /\ e < DaysOfMonth(y, m)
         /\ BeforeMonth(y, 1) + d = BeforeMonth(y, m) + e
  <2>1. 1 \in Nat
    OBVIOUS
  <2>2. InMonth(y, 1, d)
    BY <2>1, MonthFromFacts, Zenon
  <2>. QED  BY <2>2, Zenon DEF InMonth
<1>2. DaysOfMonth(y, m) \in 28 .. 31 /\ BeforeMonth(y, 1) = 0 /\ BeforeMonth(y, m) \in Int
  <2>1. DaysOfMonth(y, m) \in 28 .. 31 /\ BeforeMonth(y, m) \in Int
    BY MonthStep
  <2>2. BeforeMonth(y, 1) = 0
    BY DEF BeforeMonth
  <2>. QED  BY <2>1, <2>2
<1>3. e \in 0 .. 30 /\ BeforeMonth(y, m) + e = d
  BY <1>1, <1>2
<1>4. ~(m > 12)
  <2>. SUFFICES ASSUME m > 12
                PROVE  FALSE
    OBVIOUS
  <2>. DEFINE l == LeapDay(y)
  <2>1. BeforeMonth(y, m) = 365 + l + 30 * (m - 13) /\ l \in {0, 1}
    BY BeforeMonthIs, DaysOfMonthIs
  <2>2. DaysOfYear(y) = 365 + l
    BY DEF LeapDay, DaysOfYear
  <2>. HIDE DEF l
  <2>. QED  BY <1>3, <2>1, <2>2
<1>5. m \in 1 .. 12
  BY <1>1, <1>4
<1>. QED  BY <1>1, <1>3, <1>5

----------------------------------------------------------------------------
(* The date of a time, and the time of a date.                             *)

\* A date as calcdatetime finds it: the days before it are those of the time.
DateOf(q, y, m, e) ==
    /\ y \in Nat /\ y >= EPOCH /\ m \in 1 .. 12 /\ e \in 0 .. 30
    /\ BeforeYear(y) + BeforeMonth(y, m) + e = q \div PerDay
    /\ calcdatetime(q) = [yy |-> y, mo |-> m, dd |-> e + 1, quarter |-> q % PerDay]

LEMMA DateExists ==
    ASSUME NEW q \in Nat
    PROVE  \E y, m, e : DateOf(q, y, m, e)
<1>. DEFINE n == q \div PerDay
<1>1. n \in Nat /\ 1900 \in Nat
  BY DEF PerDay
<1>. HIDE DEF n
<1>2. PICK y \in Nat, d \in Nat :
         /\ YearFrom[<<1900, n>>] = <<y, d>> /\ y >= 1900 /\ d < DaysOfYear(y)
         /\ BeforeYear(1900) + n = BeforeYear(y) + d
  BY <1>1, YearFromFacts
<1>3. BeforeYear(1900) = 0
  BY DEF BeforeYear, PastLeaps
<1>4. y \in Nat /\ d \in Nat /\ d < DaysOfYear(y)
  BY <1>2
<1>5. PICK m \in 1 .. 12, e \in 0 .. 30 :
         MonthFrom[<<y, 1, d>>] = <<y, m, e>> /\ BeforeMonth(y, m) + e = d
  BY <1>4, MonthOfDay
<1>6. calcdatetime(q) = [yy |-> y, mo |-> m, dd |-> e + 1, quarter |-> q % PerDay]
  <2>1. YearFrom[<<1900, q \div PerDay>>] = <<y, d>>
    BY <1>2 DEF n
  <2>. HIDE DEF YearFrom, MonthFrom
  <2>. QED  BY <1>5, <2>1 DEF calcdatetime, EPOCH
<1>7. BeforeYear(y) \in Int /\ BeforeMonth(y, m) \in Int
  <2>1. m \in Nat
    BY <1>5
  <2>2. BeforeYear(y) \in Int
    BY <1>4, YearStep
  <2>3. BeforeMonth(y, m) \in Int
    BY <1>4, <2>1, MonthStep
  <2>. QED  BY <2>2, <2>3
<1>8. BeforeYear(y) + BeforeMonth(y, m) + e = n
  <2>. DEFINE p == BeforeYear(y)
              b == BeforeMonth(y, m)
              z == BeforeYear(1900)
  <2>1. z + n = p + d /\ b + e = d /\ z = 0 /\ p \in Int /\ b \in Int
    BY <1>2, <1>3, <1>5, <1>7
  <2>. HIDE DEF p, b, z
  <2>2. p + b + e = n
    BY <1>1, <1>4, <1>5, <2>1
  <2>. QED  BY <2>2 DEF p, b
<1>9. y >= 1900 /\ m \in 1 .. 12 /\ e \in 0 .. 30
  BY <1>2, <1>5
<1>. QED  BY <1>4, <1>6, <1>8, <1>9 DEF DateOf, n, EPOCH

LEMMA DayNumberIs ==
    ASSUME NEW y \in Nat, NEW m \in 1 .. 12, NEW e \in 0 .. 30
    PROVE  DayNumber(y, m, e + 1) = BeforeYear(y) + BeforeMonth(y, m) + e
<1>. DEFINE t == <<0, 31, 59, 90, 120, 151, 181, 212, 243, 273, 304, 334>>[m]
            l == IF m > 2 /\ Leap(y) THEN 1 ELSE 0
            p == PastLeaps(y)
<1>1. l = IF m > 2 /\ y % 4 = 0 /\ (y % 100 # 0 \/ y % 400 = 0) THEN 1 ELSE 0
  <2>1. /\ y % 400 = 0 => y % 100 = 0
        /\ y % 100 = 0 => y % 4 = 0
    BY DivNext
  <2>2. Leap(y) <=> (y % 4 = 0 /\ (y % 100 # 0 \/ y % 400 = 0))
    BY <2>1 DEF Leap
  <2>. QED  BY <2>2
<1>2. BeforeMonth(y, m) = t + l
  <2>1. m # 0 /\ ~(m > 12)
    OBVIOUS
  <2>2. l = IF m > 2 THEN LeapDay(y) ELSE 0
    BY DEF LeapDay
  <2>. HIDE DEF t, l
  <2>. QED  BY <2>1, <2>2 DEF BeforeMonth, t
<1>3. DayNumber(y, m, e + 1) = 365 * (y - 1900) + p + t + l + (e + 1) - 1
  <2>. HIDE DEF l, t, p
  <2>. QED  BY <1>1 DEF DayNumber, PastLeaps, t, p
<1>4. BeforeYear(y) = 365 * (y - 1900) + p
  BY DEF BeforeYear
<1>5. p \in Int /\ t \in Int /\ l \in Int /\ 365 * (y - 1900) \in Int
  <2>1. t \in Int
    OBVIOUS
  <2>2. p \in Int
    BY LeapStep
  <2>. HIDE DEF t, p
  <2>. QED  BY <2>1, <2>2
<1>. DEFINE x == 365 * (y - 1900)
<1>. HIDE DEF t, l, p, x
<1>6. DayNumber(y, m, e + 1) = x + p + t + l + (e + 1) - 1 /\ BeforeYear(y) = x + p /\ x \in Int
  BY <1>3, <1>4, <1>5 DEF x
<1>. QED  BY <1>2, <1>5, <1>6

\* The leap years before a year, counted one by one.
LEMMA LeapsCounted ==
    ASSUME NEW y \in Nat, y >= 1900
    PROVE  Cardinality({x \in 1900 .. y - 1 : Leap(x)}) = PastLeaps(y)
<1>. DEFINE Leaps(z) == {x \in 1900 .. z - 1 : Leap(x)}
            Good == {k \in Nat : /\ IsFiniteSet(Leaps(1900 + k))
                                 /\ Cardinality(Leaps(1900 + k)) = PastLeaps(1900 + k)}
<1>1. 0 \in Good
  <2>1. Leaps(1900 + 0) = {}
    OBVIOUS
  <2>2. PastLeaps(1900 + 0) = 0
    BY DEF PastLeaps
  <2>. QED  BY <2>1, <2>2, FS_EmptySet
<1>2. ASSUME NEW k \in Nat, k \in Good
      PROVE  k + 1 \in Good
  <2>. DEFINE z == 1900 + k
              A == Leaps(z)
              B == Leaps(z + 1)
  <2>1. z \in Nat /\ 1900 + (k + 1) = z + 1 /\ k + 1 \in Nat
    OBVIOUS
  <2>2. IsFiniteSet(A) /\ Cardinality(A) = PastLeaps(z) /\ z \notin A
    BY <1>2
  <2>3. B = IF Leap(z) THEN A \cup {z} ELSE A
    <3>1. \A x : x \in 1900 .. (z + 1) - 1 <=> (x \in 1900 .. z - 1 \/ x = z)
      OBVIOUS
    <3>. HIDE DEF z
    <3>. QED  BY <3>1
  <2>4. PastLeaps(z + 1) = PastLeaps(z) + (IF Leap(z) THEN 1 ELSE 0) /\ PastLeaps(z) \in Int
    BY <2>1, LeapStep
  <2>. HIDE DEF A, B, z
  <2>5. IsFiniteSet(B) /\ Cardinality(B) = PastLeaps(z + 1)
    <3>1. CASE Leap(z)
      <4>1. B = A \cup {z}
        BY <2>3, <3>1
      <4>2. IsFiniteSet(B) /\ Cardinality(B) = Cardinality(A) + 1
        BY <2>2, <4>1, FS_AddElement
      <4>. QED  BY <2>2, <2>4, <3>1, <4>2
    <3>2. CASE ~Leap(z)
      BY <2>2, <2>3, <2>4, <3>2
    <3>. QED  BY <3>1, <3>2
  <2>. QED  BY <2>1, <2>5 DEF B
<1>. HIDE DEF Good
<1>3. y - 1900 \in Nat /\ 1900 + (y - 1900) = y
  OBVIOUS
<1>4. y - 1900 \in Good
  BY <1>1, <1>2, <1>3, InductiveSet
<1>. QED  BY <1>3, <1>4 DEF Good

\* The days of some months of a year.
OneMonth(y, s, m) == IF m \in s THEN DaysOfMonth(y, m) ELSE 0
DaysOfAll(y, s) ==
    OneMonth(y, s, 1) + OneMonth(y, s, 2) + OneMonth(y, s, 3) + OneMonth(y, s, 4)
        + OneMonth(y, s, 5) + OneMonth(y, s, 6) + OneMonth(y, s, 7) + OneMonth(y, s, 8)
        + OneMonth(y, s, 9) + OneMonth(y, s, 10) + OneMonth(y, s, 11) + OneMonth(y, s, 12)

WithoutOne(y, s, x) ==
    /\ \A m \in 1 .. 12 : OneMonth(y, s, m) \in Int
    /\ OneMonth(y, s, x) = DaysOfMonth(y, x) /\ OneMonth(y, s \ {x}, x) = 0
    /\ \A m \in 1 .. 12 : m # x => OneMonth(y, s \ {x}, m) = OneMonth(y, s, m)

LEMMA OneMonthLess ==
    ASSUME NEW y \in Nat, NEW s, NEW x \in 1 .. 12, x \in s
    PROVE  WithoutOne(y, s, x)
<1>1. \A m \in 1 .. 12 : DaysOfMonth(y, m) \in Int
  <2>1. \A m \in Nat : DaysOfMonth(y, m) \in 28 .. 31
    BY MonthStep
  <2>. QED  BY <2>1
<1>. QED  BY <1>1 DEF OneMonth, WithoutOne

LEMMA DaysOfAllLess ==
    ASSUME NEW y \in Nat, NEW s, NEW x \in 1 .. 12, x \in s
    PROVE  DaysOfAll(y, s) = DaysOfAll(y, s \ {x}) + DaysOfMonth(y, x)
<1>. DEFINE a(m) == OneMonth(y, s, m)
            b(m) == OneMonth(y, s \ {x}, m)
            d == DaysOfMonth(y, x)
<1>1. /\ \A m \in 1 .. 12 : a(m) \in Int
      /\ a(x) = d /\ b(x) = 0
      /\ \A m \in 1 .. 12 : m # x => b(m) = a(m)
  <2>1. WithoutOne(y, s, x)
    BY OneMonthLess, Zenon
  <2>. QED  BY <2>1, Zenon DEF WithoutOne
<1>2. /\ DaysOfAll(y, s) = a(1) + a(2) + a(3) + a(4) + a(5) + a(6) + a(7) + a(8) + a(9) + a(10) + a(11) + a(12)
      /\ DaysOfAll(y, s \ {x}) = b(1) + b(2) + b(3) + b(4) + b(5) + b(6) + b(7) + b(8) + b(9) + b(10) + b(11) + b(12)
  BY DEF DaysOfAll
<1>. HIDE DEF a, b, d
<1>3. /\ a(1) \in Int /\ a(2) \in Int /\ a(3) \in Int /\ a(4) \in Int /\ a(5) \in Int /\ a(6) \in Int
      /\ a(7) \in Int /\ a(8) \in Int /\ a(9) \in Int /\ a(10) \in Int /\ a(11) \in Int /\ a(12) \in Int
  BY <1>1
<1>4. /\ x # 1 => b(1) = a(1)
      /\ x # 2 => b(2) = a(2)
      /\ x # 3 => b(3) = a(3)
      /\ x # 4 => b(4) = a(4)
      /\ x # 5 => b(5) = a(5)
      /\ x # 6 => b(6) = a(6)
      /\ x # 7 => b(7) = a(7)
      /\ x # 8 => b(8) = a(8)
      /\ x # 9 => b(9) = a(9)
      /\ x # 10 => b(10) = a(10)
      /\ x # 11 => b(11) = a(11)
      /\ x # 12 => b(12) = a(12)
  BY <1>1
<1>5. \/ x = 1 \/ x = 2 \/ x = 3 \/ x = 4 \/ x = 5 \/ x = 6 \/ x = 7 \/ x = 8 \/ x = 9
      \/ x = 10 \/ x = 11 \/ x = 12
  OBVIOUS
<1>6. a(x) = d /\ b(x) = 0
  BY <1>1
<1>7. DaysOfAll(y, s) = DaysOfAll(y, s \ {x}) + d
  <2>1. CASE x = 1
    BY <1>2, <1>3, <1>4, <1>6, <2>1
  <2>2. CASE x = 2
    BY <1>2, <1>3, <1>4, <1>6, <2>2
  <2>3. CASE x = 3
    BY <1>2, <1>3, <1>4, <1>6, <2>3
  <2>4. CASE x = 4
    BY <1>2, <1>3, <1>4, <1>6, <2>4
  <2>5. CASE x = 5
    BY <1>2, <1>3, <1>4, <1>6, <2>5
  <2>6. CASE x = 6
    BY <1>2, <1>3, <1>4, <1>6, <2>6
  <2>7. CASE x = 7
    BY <1>2, <1>3, <1>4, <1>6, <2>7
  <2>8. CASE x = 8
    BY <1>2, <1>3, <1>4, <1>6, <2>8
  <2>9. CASE x = 9
    BY <1>2, <1>3, <1>4, <1>6, <2>9
  <2>10. CASE x = 10
    BY <1>2, <1>3, <1>4, <1>6, <2>10
  <2>11. CASE x = 11
    BY <1>2, <1>3, <1>4, <1>6, <2>11
  <2>12. CASE x = 12
    BY <1>2, <1>3, <1>4, <1>6, <2>12
  <2>. QED  BY <1>5, <2>1, <2>2, <2>3, <2>4, <2>5, <2>6, <2>7, <2>8, <2>9, <2>10, <2>11, <2>12
<1>. QED  BY <1>7 DEF d

\* FoldSet adds up the days, whatever month it takes next.
DaysFolded(y, S, h) ==
    h = [s \in SUBSET S |->
            IF s = {} THEN 0
            ELSE LET x == CHOOSE m \in s : TRUE
                 IN  h[s \ {x}] + DaysOfMonth(y, x)]

FoldedDays(y, S) == FoldSet(LAMBDA m, n : n + DaysOfMonth(y, m), 0, S)

LEMMA DaysAdded ==
    ASSUME NEW y \in Nat, NEW S \in SUBSET (1 .. 12)
    PROVE  FoldedDays(y, S) = DaysOfAll(y, S)
<1>. DEFINE x(s) == CHOOSE m \in s : TRUE
            w == [s \in SUBSET S |-> DaysOfAll(y, s)]
            h == CHOOSE f : DaysFolded(y, S, f)
<1>1. ASSUME NEW s \in SUBSET S, s # {}
      PROVE  x(s) \in s /\ x(s) \in 1 .. 12 /\ s \ {x(s)} \in SUBSET S
  <2>1. x(s) \in s
    BY <1>1
  <2>. HIDE DEF x
  <2>. QED  BY <2>1
<1>2. DaysOfAll(y, {}) = 0
  BY DEF DaysOfAll, OneMonth
<1>3. \E f : DaysFolded(y, S, f)
  <2>1. w = [s \in SUBSET S |-> w[s]]
    OBVIOUS
  <2>2. ASSUME NEW s \in SUBSET S
        PROVE  w[s] = IF s = {} THEN 0 ELSE w[s \ {x(s)}] + DaysOfMonth(y, x(s))
    <3>1. CASE s = {}
      BY <1>2, <3>1
    <3>2. CASE s # {}
      <4>1. x(s) \in s /\ x(s) \in 1 .. 12 /\ s \ {x(s)} \in SUBSET S
        BY <1>1, <3>2
      <4>. HIDE DEF x
      <4>2. DaysOfAll(y, s) = DaysOfAll(y, s \ {x(s)}) + DaysOfMonth(y, x(s))
        BY <4>1, DaysOfAllLess
      <4>. QED  BY <3>2, <4>1, <4>2
    <3>. QED  BY <3>1, <3>2
  <2>. HIDE DEF w
  <2>3. DaysFolded(y, S, w)
    BY <2>1, <2>2, Zenon DEF DaysFolded
  <2>. QED  BY <2>3
<1>4. DaysFolded(y, S, h)
  BY <1>3, Zenon
<1>5. FoldedDays(y, S) = h[S]
  BY Zenon DEF FoldedDays, FoldSet, MapThenFoldSet, DaysFolded
<1>. HIDE DEF h
<1>6. \A s \in SUBSET S : h[s] = IF s = {} THEN 0 ELSE h[s \ {x(s)}] + DaysOfMonth(y, x(s))
  BY <1>4, Zenon DEF DaysFolded
<1>7. \A s \in SUBSET S : IsFiniteSet(s)
  <2>1. IsFiniteSet(1 .. 12)
    <3>1. 1 \in Int /\ 12 \in Int
      OBVIOUS
    <3>. QED  BY <3>1, FS_Interval
  <2>. QED  BY <2>1, FS_Subset
<1>. HIDE DEF x, w
<1>. DEFINE Good == {k \in Nat : \A s \in SUBSET S : Cardinality(s) = k => h[s] = DaysOfAll(y, s)}
<1>8. 0 \in Good
  <2>1. \A s \in SUBSET S : Cardinality(s) = 0 => s = {}
    BY <1>7, FS_EmptySet
  <2>. QED  BY <1>2, <1>6, <2>1
<1>9. ASSUME NEW k \in Nat, k \in Good
      PROVE  k + 1 \in Good
  <2>1. ASSUME NEW s \in SUBSET S, Cardinality(s) = k + 1
        PROVE  h[s] = DaysOfAll(y, s)
    <3>1. s # {}
      <4>1. Cardinality({}) = 0
        BY FS_EmptySet
      <4>. QED  BY <2>1, <4>1
    <3>2. x(s) \in s /\ x(s) \in 1 .. 12 /\ s \ {x(s)} \in SUBSET S
      BY <1>1, <3>1
    <3>3. Cardinality(s \ {x(s)}) = k
      <4>1. Cardinality(s \ {x(s)}) = Cardinality(s) - 1
        BY <1>7, <3>2, FS_RemoveElement
      <4>. QED  BY <2>1, <4>1
    <3>4. h[s \ {x(s)}] = DaysOfAll(y, s \ {x(s)})
      BY <1>9, <3>2, <3>3
    <3>5. h[s] = h[s \ {x(s)}] + DaysOfMonth(y, x(s))
      BY <1>6, <3>1
    <3>6. DaysOfAll(y, s) = DaysOfAll(y, s \ {x(s)}) + DaysOfMonth(y, x(s))
      BY <3>2, DaysOfAllLess
    <3>. QED  BY <3>4, <3>5, <3>6
  <2>. QED  BY <2>1
<1>10. Cardinality(S) \in Nat
  BY <1>7, FS_CardinalityType
<1>. HIDE DEF Good
<1>11. Cardinality(S) \in Good
  BY <1>8, <1>9, <1>10, InductiveSet
<1>12. h[S] = DaysOfAll(y, S)
  BY <1>11 DEF Good
<1>. QED  BY <1>5, <1>12

LEMMA MonthsBefore ==
    ASSUME NEW y \in Nat, NEW m \in 1 .. 12
    PROVE  DaysOfAll(y, 1 .. m - 1) = BeforeMonth(y, m)
<1>. DEFINE l == LeapDay(y)
            B(n) == BeforeMonth(y, n)
            D(n) == DaysOfMonth(y, n)
            o(n) == OneMonth(y, 1 .. m - 1, n)
<1>1. /\ B(1) = 0 /\ B(2) = 31 /\ B(3) = 59 + l /\ B(4) = 90 + l
      /\ B(5) = 120 + l /\ B(6) = 151 + l /\ B(7) = 181 + l /\ B(8) = 212 + l
      /\ B(9) = 243 + l /\ B(10) = 273 + l /\ B(11) = 304 + l /\ B(12) = 334 + l
  BY BeforeMonthIs
<1>2. /\ D(1) = 31 /\ D(2) = 28 + l /\ D(3) = 31 /\ D(4) = 30 /\ D(5) = 31 /\ D(6) = 30
      /\ D(7) = 31 /\ D(8) = 31 /\ D(9) = 30 /\ D(10) = 31 /\ D(11) = 30 /\ D(12) = 31
      /\ l \in {0, 1}
  BY DaysOfMonthIs
<1>3. ASSUME NEW n \in 1 .. 12
      PROVE  o(n) = IF n < m THEN D(n) ELSE 0
  <2>1. n \in 1 .. m - 1 <=> n < m
    OBVIOUS
  <2>. QED  BY <2>1 DEF OneMonth
<1>4. DaysOfAll(y, 1 .. m - 1) = o(1) + o(2) + o(3) + o(4) + o(5) + o(6) + o(7) + o(8) + o(9) + o(10) + o(11) + o(12)
  BY DEF DaysOfAll
<1>. HIDE DEF l, B, D, o
<1>5. /\ o(1) = (IF 1 < m THEN D(1) ELSE 0) /\ o(2) = (IF 2 < m THEN D(2) ELSE 0)
      /\ o(3) = (IF 3 < m THEN D(3) ELSE 0) /\ o(4) = (IF 4 < m THEN D(4) ELSE 0)
      /\ o(5) = (IF 5 < m THEN D(5) ELSE 0) /\ o(6) = (IF 6 < m THEN D(6) ELSE 0)
      /\ o(7) = (IF 7 < m THEN D(7) ELSE 0) /\ o(8) = (IF 8 < m THEN D(8) ELSE 0)
      /\ o(9) = (IF 9 < m THEN D(9) ELSE 0) /\ o(10) = (IF 10 < m THEN D(10) ELSE 0)
      /\ o(11) = (IF 11 < m THEN D(11) ELSE 0) /\ o(12) = (IF 12 < m THEN D(12) ELSE 0)
  BY <1>3
<1>6. \/ m = 1 \/ m = 2 \/ m = 3 \/ m = 4 \/ m = 5 \/ m = 6 \/ m = 7 \/ m = 8 \/ m = 9
      \/ m = 10 \/ m = 11 \/ m = 12
  OBVIOUS
<1>7. DaysOfAll(y, 1 .. m - 1) = B(m)
  <2>1. CASE m = 1
    BY <1>1, <1>2, <1>4, <1>5, <2>1
  <2>2. CASE m = 2
    BY <1>1, <1>2, <1>4, <1>5, <2>2
  <2>3. CASE m = 3
    BY <1>1, <1>2, <1>4, <1>5, <2>3
  <2>4. CASE m = 4
    BY <1>1, <1>2, <1>4, <1>5, <2>4
  <2>5. CASE m = 5
    BY <1>1, <1>2, <1>4, <1>5, <2>5
  <2>6. CASE m = 6
    BY <1>1, <1>2, <1>4, <1>5, <2>6
  <2>7. CASE m = 7
    BY <1>1, <1>2, <1>4, <1>5, <2>7
  <2>8. CASE m = 8
    BY <1>1, <1>2, <1>4, <1>5, <2>8
  <2>9. CASE m = 9
    BY <1>1, <1>2, <1>4, <1>5, <2>9
  <2>10. CASE m = 10
    BY <1>1, <1>2, <1>4, <1>5, <2>10
  <2>11. CASE m = 11
    BY <1>1, <1>2, <1>4, <1>5, <2>11
  <2>12. CASE m = 12
    BY <1>1, <1>2, <1>4, <1>5, <2>12
  <2>. QED  BY <1>6, <2>1, <2>2, <2>3, <2>4, <2>5, <2>6, <2>7, <2>8, <2>9, <2>10, <2>11, <2>12
<1>. QED  BY <1>7 DEF B

LeapsBefore(y) == {x \in EPOCH .. y - 1 : Leap(x)}

LEMMA BackAdds ==
    ASSUME NEW t
    PROVE  changedatetime_to_seconds(t) =
              ((t.yy - EPOCH) * 365 + Cardinality(LeapsBefore(t.yy))
                   + FoldedDays(t.yy, 1 .. t.mo - 1) + t.dd - 1) * PerDay + t.quarter
BY Zenon DEF changedatetime_to_seconds, FoldedDays, LeapsBefore

LEMMA BackIs ==
    ASSUME NEW t, t.yy \in Nat, t.yy >= EPOCH, t.mo \in 1 .. 12, t.dd \in 1 .. 31,
           t.quarter \in Nat
    PROVE  changedatetime_to_seconds(t)
               = (BeforeYear(t.yy) + BeforeMonth(t.yy, t.mo) + (t.dd - 1)) * 96 + t.quarter
<1>. DEFINE y == t.yy
            m == t.mo
            e == t.dd - 1
            r == t.quarter
            leaps == Cardinality(LeapsBefore(y))
            days == FoldedDays(y, 1 .. m - 1)
            p == PastLeaps(y)
            b == BeforeMonth(y, m)
            w == (y - EPOCH) * 365
<1>1. /\ y \in Nat /\ y >= EPOCH /\ m \in 1 .. 12 /\ e \in 0 .. 30 /\ r \in Nat
      /\ t.yy = y /\ t.mo = m /\ t.dd = e + 1 /\ t.quarter = r
  OBVIOUS
<1>. HIDE DEF y, m, e, r
<1>2. changedatetime_to_seconds(t) = ((y - EPOCH) * 365 + leaps + days + (e + 1) - 1) * 96 + r
  <2>. HIDE DEF leaps, days
  <2>1. changedatetime_to_seconds(t) =
          ((t.yy - EPOCH) * 365 + Cardinality(LeapsBefore(t.yy))
               + FoldedDays(t.yy, 1 .. t.mo - 1) + t.dd - 1) * PerDay + t.quarter
    BY BackAdds, Zenon
  <2>2. Cardinality(LeapsBefore(t.yy)) = leaps /\ FoldedDays(t.yy, 1 .. t.mo - 1) = days
    BY <1>1, Zenon DEF leaps, days
  <2>. DEFINE Back(a, l, n, d, q) == ((a - EPOCH) * 365 + l + n + d - 1) * PerDay + q
  <2>3. changedatetime_to_seconds(t) = Back(t.yy, leaps, days, t.dd, t.quarter)
    BY <2>1, <2>2, Zenon
  <2>4. Back(y, leaps, days, e + 1, r)
          = ((y - EPOCH) * 365 + leaps + days + (e + 1) - 1) * 96 + r
    BY Zenon DEF PerDay
  <2>. HIDE DEF Back
  <2>. QED  BY <1>1, <2>3, <2>4, Zenon
<1>3. leaps = p
  <2>1. Cardinality(LeapsBefore(y)) = PastLeaps(y)
    BY <1>1, LeapsCounted DEF LeapsBefore, EPOCH
  <2>. QED  BY <2>1
<1>4. days = b
  <2>1. 1 .. m - 1 \in SUBSET (1 .. 12)
    BY <1>1
  <2>2. days = DaysOfAll(y, 1 .. m - 1)
    BY <1>1, <2>1, DaysAdded
  <2>3. DaysOfAll(y, 1 .. m - 1) = b
    BY <1>1, MonthsBefore
  <2>. HIDE DEF days, b
  <2>. QED  BY <2>2, <2>3
<1>5. p \in Int /\ b \in Int /\ w \in Int /\ BeforeYear(y) = w + p
  <2>1. p \in Int /\ b \in Int
    <3>1. y \in Nat /\ m \in Nat
      BY <1>1
    <3>. QED  BY <3>1, LeapStep, MonthStep
  <2>2. w \in Int /\ w = 365 * (y - 1900)
    BY <1>1 DEF EPOCH
  <2>3. BeforeYear(y) = 365 * (y - 1900) + p
    BY DEF BeforeYear
  <2>. HIDE DEF p, b, w
  <2>. QED  BY <2>1, <2>2, <2>3
<1>. HIDE DEF leaps, days, p, b, w
<1>6. changedatetime_to_seconds(t) = (w + p + b + (e + 1) - 1) * 96 + r
  BY <1>2, <1>3, <1>4 DEF w
<1>7. w + p + b + (e + 1) - 1 = BeforeYear(y) + b + e
  BY <1>1, <1>5
<1>. QED  BY <1>6, <1>7 DEF b, y, m, e, r

\* For every time: the date found is the time's, and leads back to it.
LEMMA DateAndBack ==
    ASSUME NEW q \in Nat
    PROVE  LET t == calcdatetime(q)
           IN  /\ t.mo \in 1 .. 12 /\ t.dd \in 1 .. 31
               /\ DayNumber(t.yy, t.mo, t.dd) * 96 + t.quarter = q
               /\ changedatetime_to_seconds(t) = q
<1>. DEFINE t == calcdatetime(q)
            n == q \div 96
            r == q % 96
<1>1. n \in Nat /\ r \in Nat /\ n * 96 + r = q
  OBVIOUS
<1>2. PICK y, m, e : DateOf(q, y, m, e)
  BY DateExists
<1>3. /\ y \in Nat /\ y >= EPOCH /\ m \in 1 .. 12 /\ e \in 0 .. 30
      /\ BeforeYear(y) + BeforeMonth(y, m) + e = n
      /\ t = [yy |-> y, mo |-> m, dd |-> e + 1, quarter |-> r]
  <2>1. n = q \div PerDay /\ r = q % PerDay
    BY DEF PerDay
  <2>. HIDE DEF t, n, r
  <2>. QED  BY <1>2, <2>1 DEF DateOf, t
<1>. HIDE DEF t, n, r
<1>4. t.yy = y /\ t.mo = m /\ t.dd = e + 1 /\ t.quarter = r
  BY <1>3
<1>5. DayNumber(y, m, e + 1) = n
  BY <1>3, DayNumberIs
<1>6. changedatetime_to_seconds(t) = n * 96 + r
  <2>1. /\ t.yy \in Nat /\ t.yy >= EPOCH /\ t.mo \in 1 .. 12 /\ t.dd \in 1 .. 31
        /\ t.quarter \in Nat /\ t.dd - 1 = e
    BY <1>1, <1>3, <1>4
  <2>2. changedatetime_to_seconds(t)
           = (BeforeYear(t.yy) + BeforeMonth(t.yy, t.mo) + (t.dd - 1)) * 96 + t.quarter
    BY <2>1, BackIs
  <2>. QED  BY <1>3, <1>4, <2>1, <2>2, Zenon
<1>7. e + 1 \in 1 .. 31
  BY <1>3
<1>. QED  BY <1>1, <1>3, <1>4, <1>5, <1>6, <1>7 DEF t

----------------------------------------------------------------------------
(* The client.                                                             *)

\* No zone moves a stamp before 1900.
LEMMA LocalIsNat ==
    ASSUME NEW s \in Stamps, NEW z \in TimeZones
    PROVE  s[1] * 96 + s[2] + ZoneTable[z + 1] \in Nat
<1>1. s[1] \in 1 .. LastDay /\ s[2] \in 0 .. 95
  <2>1. s \in (1 .. LastDay) \X (0 .. PerDay - 1)
    BY SntpAssumption, Zenon
  <2>2. PerDay - 1 = 95
    BY DEF PerDay
  <2>. QED  BY <2>1, <2>2
<1>2. z \in 0 .. 49
  BY SntpAssumption
<1>3. ZoneTable[z + 1] \in -48 .. 56
  BY <1>2 DEF ZoneTable
<1>. DEFINE k == ZoneTable[z + 1]
            i == s[1]
            j == s[2]
<1>4. k \in Int /\ k >= -48 /\ i \in Nat /\ i >= 1 /\ j \in Nat
  BY <1>1, <1>3
<1>. HIDE DEF k, i, j
<1>5. i * 96 + j + k \in Nat
  BY <1>4
<1>. QED  BY <1>5 DEF k, i, j

\* The types, and DateIsTheStamp with what is received known to have been sent.
SntpInv ==
    /\ SntpTypeOK
    /\ \A s \in Stamps : ntp_rx = <<s>> => s \in ntp_said
    /\ DateIsTheStamp

LEMMA SntpInvInit == SntpInit => SntpInv
<1>. SUFFICES ASSUME SntpInit
              PROVE  SntpInv
  OBVIOUS
<1>1. SntpTypeOK
  <2>1. RetryMax \in Nat
    BY SntpAssumption
  <2>2. ntp_retry_cnt \in 0 .. RetryMax
    BY <2>1 DEF SntpInit
  <2>3. ntp_rx \in {<< >>} \union {<<s>> : s \in Stamps} /\ ntp_said \subseteq Stamps
    BY DEF SntpInit
  <2>. QED  BY <2>2, <2>3 DEF SntpInit, SntpTypeOK
<1>2. \A s \in Stamps : ntp_rx # <<s>>
  BY DEF SntpInit
<1>3. DateIsTheStamp
  BY DEF SntpInit, DateIsTheStamp
<1>. QED  BY <1>1, <1>2, <1>3 DEF SntpInv

LEMMA SntpInvNext == SntpInv /\ [SntpNext]_sntpVars => SntpInv'
<1>. SUFFICES ASSUME SntpInv, [SntpNext]_sntpVars
              PROVE  SntpInv'
  OBVIOUS
<1>. USE DEF SntpInv
<1>1. ASSUME NEW s \in Stamps, NtpAnswers(s)
      PROVE  SntpInv'
  <2>1. SntpTypeOK'
    BY <1>1 DEF NtpAnswers, SntpTypeOK
  <2>2. DateIsTheStamp'
    BY <1>1 DEF NtpAnswers, DateIsTheStamp
  <2>3. \A x \in Stamps : ntp_rx' = <<x>> => x \in ntp_said'
    BY <1>1 DEF NtpAnswers
  <2>. QED  BY <2>1, <2>2, <2>3
<1>2. ASSUME NEW s \in Stamps, NtpDelivers(s)
      PROVE  SntpInv'
  <2>1. SntpTypeOK'
    BY <1>2 DEF NtpDelivers, SntpTypeOK
  <2>2. DateIsTheStamp'
    BY <1>2 DEF NtpDelivers, DateIsTheStamp
  <2>3. \A x \in Stamps : ntp_rx' = <<x>> => x \in ntp_said'
    BY <1>2 DEF NtpDelivers
  <2>. QED  BY <2>1, <2>2, <2>3
<1>3. CASE NtpReceive
  <2>1. SntpTypeOK'
    <3>1. RetryMax \in Nat
      BY SntpAssumption
    <3>2. ntp_retry_cnt' \in 0 .. RetryMax
      BY <1>3, <3>1 DEF NtpReceive
    <3>3. ntp_rx' \in {<< >>} \union {<<s>> : s \in Stamps}
      BY <1>3 DEF NtpReceive
    <3>4. ntp_said' = ntp_said /\ ntp_asked' = ntp_asked /\ time_zone' = time_zone
      BY <1>3 DEF NtpReceive
    <3>5. ntp_SR' = "CLOSED" /\ ntp_rx' = << >> /\ sntp_pc' = "done"
      BY <1>3 DEF NtpReceive
    <3>. QED  BY <3>2, <3>3, <3>4, <3>5 DEF SntpTypeOK
  <2>2. \A x \in Stamps : ntp_rx' # <<x>>
    BY <1>3 DEF NtpReceive
  <2>3. PICK s \in Stamps : ntp_rx = <<s>>
    BY <1>3 DEF NtpReceive, SntpTypeOK
  <2>4. s \in ntp_said /\ ntp_said' = ntp_said /\ time_zone' = time_zone /\ time_zone \in TimeZones
    BY <1>3, <2>3 DEF NtpReceive, SntpTypeOK
  <2>. DEFINE local == s[1] * 96 + s[2] + ZoneTable[time_zone + 1]
  <2>5. local \in Nat
    BY <2>4, LocalIsNat
  <2>6. ntp_time' = calcdatetime(local)
    BY <1>3, <2>3 DEF NtpReceive, get_seconds_from_ntp_server, PerDay
  <2>7. local = s[1] * 96 + s[2] + ZoneTable[time_zone' + 1]
    BY <2>4
  <2>. HIDE DEF local
  <2>8. /\ ntp_time'.mo \in 1 .. 12 /\ ntp_time'.dd \in 1 .. 31
        /\ DayNumber(ntp_time'.yy, ntp_time'.mo, ntp_time'.dd) * 96 + ntp_time'.quarter = local
        /\ changedatetime_to_seconds(ntp_time') = local
    BY <2>5, <2>6, DateAndBack
  <2>9. DateIsTheStamp'
    BY <2>4, <2>7, <2>8, Zenon DEF DateIsTheStamp, PerDay
  <2>. QED  BY <2>1, <2>2, <2>9
<1>4. CASE NtpOpen \/ NtpRequest \/ NtpIdle \/ NtpTimeout \/ NtpLoses \/ UNCHANGED sntpVars
  <2>1. /\ ntp_rx' = ntp_rx /\ ntp_said' = ntp_said /\ ntp_time' = ntp_time
        /\ time_zone' = time_zone
    BY <1>4 DEF NtpOpen, NtpRequest, NtpIdle, NtpTimeout, NtpLoses, sntpVars
  <2>2. SntpTypeOK'
    <3>1. ntp_retry_cnt' \in 0 .. RetryMax
      <4>1. RetryMax \in Nat /\ ntp_retry_cnt \in 0 .. RetryMax
        BY SntpAssumption DEF SntpTypeOK
      <4>2. \/ ntp_retry_cnt' = ntp_retry_cnt
            \/ ntp_retry_cnt < RetryMax /\ ntp_retry_cnt' = ntp_retry_cnt + 1
        BY <1>4 DEF NtpOpen, NtpRequest, NtpIdle, NtpTimeout, NtpLoses, sntpVars
      <4>. QED  BY <4>1, <4>2
    <3>2. /\ sntp_pc' = sntp_pc \/ sntp_pc' = "halt"
          /\ ntp_SR' = ntp_SR \/ (sntp_pc = "run" /\ sntp_pc' = sntp_pc /\ ntp_SR' = "UDP")
          /\ ntp_asked' = ntp_asked \/ ntp_asked' \in BOOLEAN
      BY <1>4 DEF NtpOpen, NtpRequest, NtpIdle, NtpTimeout, NtpLoses, sntpVars, Runs
    <3>. QED  BY <2>1, <3>1, <3>2 DEF SntpTypeOK
  <2>3. DateIsTheStamp'
    BY <2>1 DEF DateIsTheStamp
  <2>. QED  BY <2>1, <2>2, <2>3
<1>. QED  BY <1>1, <1>2, <1>3, <1>4 DEF SntpNext, SNTP_run

\* What the client keeps, for any stamps, zones and limits.
THEOREM SntpTypeOKHolds == SntpSpec => []SntpTypeOK
<1>1. SntpInv => SntpTypeOK
  BY DEF SntpInv
<1>. QED  BY <1>1, SntpInvInit, SntpInvNext, PTL DEF SntpSpec

\* The date the program is given is the local date of a stamp the server sent,
\* for every stamp of 32 bits but those at its ends and every zone of the table,
\* and sntp.c's way back finds the stamp again.
THEOREM DateIsTheStampHolds == SntpSpec => []DateIsTheStamp
<1>1. SntpInv => DateIsTheStamp
  BY DEF SntpInv
<1>. QED  BY <1>1, SntpInvInit, SntpInvNext, PTL DEF SntpSpec
----------------------------------------------------------------------------
(* The users of the library side by side.                                  *)

\* A program and the network it uses keep their types while the other programs
\* of the library stand still, whichever of the five it is: the sockets of
\* socket.c, dns.c, sntp.c, loopback.c, multicast.c and the IPv6 configuration.
THEOREM NetTypeOKHolds == Spec => []NetTypeOK
<1>1. Init => DnsInit /\ SntpInit /\ EchoInit /\ AacInit /\ MemInit
  BY DEF Init
<1>2. [Next]_vars => [DnsNext]_dnsVars
  BY DEF Next, vars
<1>3. [Next]_vars => [SntpNext]_sntpVars
  BY DEF Next, vars
<1>4. [Next]_vars => [EchoNext]_echoVars
  BY DEF Next, vars
<1>5. [Next]_vars => [AacNext]_aacVars
  BY DEF Next, vars
<1>6. [Next]_vars => [MemNext]_memVars
  BY DEF Next, vars
<1>7. MemInit => MemInv
  BY MemStarts
<1>8. MemInv /\ [MemNext]_memVars => MemInv'
  BY MemStep
<1>9. DnsInv => DnsTypeOK
  BY DnsTypes
<1>10. SntpInv => SntpTypeOK
  BY DEF SntpInv
<1>11. AacInv => AacTypeOK
  BY AacTypes
<1>12. MemInv => MemTypeOK
  BY MemTypes
<1>13. DnsTypeOK /\ SntpTypeOK /\ EchoTypeOK /\ AacTypeOK /\ MemTypeOK => NetTypeOK
  BY DEF NetTypeOK
<1>. QED  BY <1>1, <1>2, <1>3, <1>4, <1>5, <1>6, <1>7, <1>8, <1>9, <1>10, <1>11, <1>12, <1>13,
             DnsStarts, DnsStep, SntpInvInit, SntpInvNext, EchoTypeOKHolds, AacStarts, AacStep, PTL
          DEF Spec
=============================================================================
