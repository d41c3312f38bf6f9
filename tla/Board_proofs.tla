---------------------------- MODULE Board_proofs ----------------------------
(***************************************************************************)
(* What holds of the board of tib-pico2 for any switches, routes, lasers,  *)
(* attenuators and any length of pub_out: the coils of the MEMS switches,  *)
(* the lasers on their line, the samples of the photodiodes, the copies in *)
(* command_in; of the firmware that does not know "set"; of the tables of  *)
(* main() and maiman.cpp as they stand; and the types of the board as a    *)
(* whole.  Induction and the lemmas about FlattenSeq come from Recursions. *)
(***************************************************************************)
EXTENDS MCBoard, Maiman, Framer_proofs, SequenceTheorems, FiniteSetTheorems

----------------------------------------------------------------------------
(* FlattenSeq and SetToSeq.                                                *)

\* Blocks of four, one after the other.
LEMMA FlattenFours ==
    ASSUME NEW S, NEW ss \in Seq(Seq(S)), \A i \in 1 .. Len(ss) : Len(ss[i]) = 4
    PROVE  /\ FlattenSeq(ss) \in Seq(S) /\ Len(FlattenSeq(ss)) = 4 * Len(ss)
           /\ \A i \in 1 .. Len(ss), j \in 1 .. 4 : FlattenSeq(ss)[4 * (i - 1) + j] = ss[i][j]
<1>. DEFINE n == Len(ss)
            Fours(f, k) == /\ f \in Seq(S) /\ Len(f) = 4 * k
                           /\ \A i \in 1 .. k, j \in 1 .. 4 : f[4 * (i - 1) + j] = ss[i][j]
<1>1. n \in Nat /\ \A i \in 1 .. n : ss[i] \in Seq(S) /\ Len(ss[i]) = 4
  OBVIOUS
<1>2. CASE n = 0
  <2>1. FlattenSeq(ss) = << >>
    BY <1>2 DEF FlattenSeq
  <2>. QED  BY <1>2, <2>1
<1>3. CASE n # 0
  <2>1. PICK g : Flattens(g, ss) /\ FlattenSeq(ss) = g[n]
    BY <1>1, <1>3, FlattenIs
  <2>2. \A i \in 1 .. n : g[i] = IF i = 1 THEN ss[i] ELSE g[i - 1] \o ss[i]
    BY <2>1 DEF Flattens
  <2>. HIDE DEF n
  <2>. DEFINE Good == {k \in Nat : k + 1 \in 1 .. n => Fours(g[k + 1], k + 1)}
  <2>3. 0 \in Good
    <3>1. ASSUME 1 \in 1 .. n PROVE Fours(g[1], 1)
      <4>1. g[1] = ss[1] /\ ss[1] \in Seq(S) /\ Len(ss[1]) = 4
        BY <1>1, <2>2, <3>1
      <4>. QED  BY <4>1
    <3>. HIDE DEF Fours
    <3>2. 0 \in Nat /\ 0 + 1 = 1
      OBVIOUS
    <3>. QED  BY <3>1, <3>2
  <2>4. ASSUME NEW k \in Nat, k \in Good
        PROVE  k + 1 \in Good
    <3>. DEFINE m == (k + 1) + 1
    <3>. SUFFICES ASSUME m \in 1 .. n
                  PROVE  Fours(g[m], m)
      OBVIOUS
    <3>1. m = k + 2 /\ k + 1 \in 1 .. n /\ m # 1 /\ m - 1 = k + 1
      BY <1>1
    <3>2. Fours(g[k + 1], k + 1)
      BY <2>4, <3>1
    <3>. HIDE DEF m
    <3>3. g[m] = g[k + 1] \o ss[m] /\ ss[m] \in Seq(S) /\ Len(ss[m]) = 4
      BY <1>1, <2>2, <3>1
    <3>. DEFINE f == g[k + 1]
                b == ss[m]
    <3>4. f \in Seq(S) /\ Len(f) = 4 * (k + 1) /\ b \in Seq(S) /\ Len(b) = 4
      BY <3>2, <3>3
    <3>. HIDE DEF f, b
    <3>5. /\ f \o b \in Seq(S) /\ Len(f \o b) = Len(f) + Len(b)
          /\ \A i \in 1 .. Len(f) + Len(b) :
                (f \o b)[i] = IF i <= Len(f) THEN f[i] ELSE b[i - Len(f)]
      BY <3>4, ConcatProperties
    <3>. DEFINE fb == f \o b
                l  == 4 * (k + 1)
    <3>6. /\ fb \in Seq(S) /\ Len(fb) = l + 4 /\ l \in Nat
          /\ \A i \in 1 .. l + 4 : fb[i] = IF i <= l THEN f[i] ELSE b[i - l]
      BY <3>4, <3>5
    <3>. HIDE DEF fb, l
    <3>7. (\A p \in 1 .. l : fb[p] = f[p]) /\ \A j \in 1 .. 4 : fb[l + j] = b[j]
      <4>1. ASSUME NEW j \in 1 .. 4
            PROVE  fb[l + j] = b[j]
        <5>1. l + j \in 1 .. l + 4 /\ ~(l + j <= l) /\ (l + j) - l = j
          BY <3>6
        <5>. QED  BY <3>6, <5>1
      <4>. QED  BY <3>6, <4>1
    <3>8. l + 4 = 4 * m
      BY <3>1 DEF l
    <3>9. ASSUME NEW i \in 1 .. m, NEW j \in 1 .. 4
          PROVE  fb[4 * (i - 1) + j] = ss[i][j]
      <4>1. CASE i = m
        <5>1. 4 * (i - 1) = l
          BY <3>1, <4>1 DEF l
        <5>. QED  BY <3>7, <4>1, <5>1 DEF b
      <4>2. CASE i # m
        <5>1. i \in 1 .. k + 1 /\ 4 * (i - 1) + j \in 1 .. l
          BY <3>1, <4>2 DEF l
        <5>2. f[4 * (i - 1) + j] = ss[i][j]
          BY <3>2, <5>1 DEF f
        <5>. QED  BY <3>7, <5>1, <5>2
      <4>. QED  BY <4>1, <4>2
    <3>. QED  BY <3>3, <3>6, <3>8, <3>9 DEF f, b, fb
  <2>5. n - 1 \in Good
    <3>. HIDE DEF Good
    <3>1. Nat \subseteq Good
      BY <2>3, <2>4, InductiveSet
    <3>. QED  BY <1>1, <1>3, <3>1
  <2>6. Fours(g[n], n)
    <3>1. (n - 1) + 1 = n /\ n \in 1 .. n
      BY <1>1, <1>3
    <3>. QED  BY <2>5, <3>1
  <2>. QED  BY <2>1, <2>6 DEF n
<1>. QED  BY <1>2, <1>3

\* Every element of a finite set is in its sequence.
LEMMA SetToSeqFacts ==
    ASSUME NEW S, IsFiniteSet(S)
    PROVE  /\ SetToSeq(S) \in Seq(S)
           /\ \A x \in S : \E i \in DOMAIN SetToSeq(S) : SetToSeq(S)[i] = x
<1>. DEFINE n == Cardinality(S)
            s == CHOOSE f \in [1 .. n -> S] : IsInjective(f)
<1>1. n \in Nat /\ \E b : b \in Bijection(1 .. n, S)
  BY FS_CardinalityType DEF ExistsBijection
<1>2. PICK b : b \in Bijection(1 .. n, S)
  BY <1>1
<1>3. b \in [1 .. n -> S] /\ IsInjective(b)
  BY <1>2 DEF Bijection, Injection, IsInjective
<1>4. s \in [1 .. n -> S] /\ IsInjective(s)
  BY <1>3
<1>5. IsFiniteSet(1 .. n) /\ Cardinality(1 .. n) = n
  BY <1>1, FS_Interval
<1>. HIDE DEF s
<1>6. s \in Injection(1 .. n, S)
  BY <1>4 DEF Injection, IsInjective
<1>7. s \in Surjection(1 .. n, S)
  BY <1>5, <1>6, FS_Injection
<1>8. \A x \in S : \E i \in 1 .. n : s[i] = x
  BY <1>7 DEF Surjection
<1>9. s = SetToSeq(S)
  BY DEF s, SetToSeq
<1>. QED  BY <1>1, <1>4, <1>8, <1>9

----------------------------------------------------------------------------
(* The switches: what is written to the expander.                          *)

Ops == [kind : {"mode", "low", "high", "release", "state"}, pin : Pins]

\* A pulse is never cut: the transfers that follow on each one of it.
Follows(t) ==
    \A i \in DOMAIN t :
        /\ t[i].kind \in {"low", "high", "release", "state"}
        /\ t[i].kind = "low" => i + 1 \in DOMAIN t /\ t[i + 1] = Op("high", t[i].pin)
        /\ t[i].kind = "high" => i + 1 \in DOMAIN t /\ t[i + 1] = Op("release", t[i].pin)
        /\ t[i].kind = "release" => i + 1 \in DOMAIN t /\ t[i + 1] = Op("state", t[i].pin)
        /\ t[i].kind = "state" /\ i + 1 \in DOMAIN t => t[i + 1].kind = "low"

\* Nor is it begun in the middle.
FromLow(t) == t # << >> => Head(t).kind = "low"

LEMMA OpType ==
    ASSUME NEW kind \in {"mode", "low", "high", "release", "state"}, NEW p \in Pins
    PROVE  Op(kind, p) \in Ops /\ Op(kind, p).kind = kind /\ Op(kind, p).pin = p
BY DEF Op, Ops

InFours(ss) == ss \in Seq(Seq(Ops)) /\ \A i \in 1 .. Len(ss) : Len(ss[i]) = 4

OneAfterTheOther(f, ss) ==
    /\ f \in Seq(Ops) /\ Len(f) = 4 * Len(ss)
    /\ \A i \in 1 .. Len(ss), j \in 1 .. 4 : f[4 * (i - 1) + j] = ss[i][j]

LEMMA FlattenOps ==
    ASSUME NEW ss, InFours(ss)
    PROVE  OneAfterTheOther(FlattenSeq(ss), ss)
<1>. DEFINE f == FlattenSeq(ss)
<1>1. ss \in Seq(Seq(Ops)) /\ \A i \in 1 .. Len(ss) : Len(ss[i]) = 4
  BY DEF InFours
<1>2. /\ f \in Seq(Ops) /\ Len(f) = 4 * Len(ss)
      /\ \A i \in 1 .. Len(ss), j \in 1 .. 4 : f[4 * (i - 1) + j] = ss[i][j]
  BY <1>1, FlattenFours, Zenon
<1>. QED  BY <1>2, Zenon DEF OneAfterTheOther

LEMMA SetUpFacts ==
    ASSUME NEW sw \in Switches
    PROVE  /\ SetUp(sw) \in Seq(Ops) /\ Len(SetUp(sw)) = 4
           /\ \A j \in 1 .. 4 : SetUp(sw)[j].kind \in {"mode", "low"}
           /\ SetUp(sw)[3] = Op("low", <<sw, "A">>) /\ SetUp(sw)[4] = Op("low", <<sw, "B">>)
<1>. DEFINE a == Op("mode", <<sw, "A">>)
            b == Op("mode", <<sw, "B">>)
            c == Op("low", <<sw, "A">>)
            d == Op("low", <<sw, "B">>)
<1>1. a \in Ops /\ b \in Ops /\ c \in Ops /\ d \in Ops
  BY OpType DEF Pins, Sides
<1>2. a.kind = "mode" /\ b.kind = "mode" /\ c.kind = "low" /\ d.kind = "low"
  BY DEF Op
<1>3. SetUp(sw) = <<a, b, c, d>>
  BY DEF SetUp
<1>. HIDE DEF a, b, c, d
<1>4. /\ <<a, b, c, d>> \in Seq(Ops) /\ Len(<<a, b, c, d>>) = 4
      /\ <<a, b, c, d>>[1] = a /\ <<a, b, c, d>>[2] = b
      /\ <<a, b, c, d>>[3] = c /\ <<a, b, c, d>>[4] = d
  BY <1>1
<1>5. \A j \in 1 .. 4 : j = 1 \/ j = 2 \/ j = 3 \/ j = 4
  OBVIOUS
<1>6. \A j \in 1 .. 4 : SetUp(sw)[j].kind \in {"mode", "low"}
  BY <1>2, <1>3, <1>4, <1>5
<1>. QED  BY <1>3, <1>4, <1>6 DEF c, d

LEMMA AppendFourth ==
    ASSUME NEW S, NEW s \in Seq(S), NEW x \in S
    PROVE  Len(s) = 3 =>
           /\ Append(s, x) \in Seq(S) /\ Len(Append(s, x)) = 4 /\ Append(s, x)[4] = x
           /\ \A i \in 1 .. 3 : Append(s, x)[i] = s[i]
<1>. DEFINE n == Len(s)
            t == Append(s, x)
<1>1. /\ t \in Seq(S) /\ Len(t) = n + 1 /\ t[n + 1] = x
      /\ \A i \in 1 .. n : t[i] = s[i]
  OBVIOUS
<1>. HIDE DEF n, t
<1>2. n = 3 => Len(t) = 4 /\ t[4] = x /\ \A i \in 1 .. 3 : t[i] = s[i]
  BY <1>1
<1>. QED  BY <1>1, <1>2 DEF n, t

LEMMA SetStateFacts ==
    ASSUME NEW p \in Pins
    PROVE  LET t == setState(p[1], p[2])
           IN  /\ t \in Seq(Ops) /\ Len(t) = 4
               /\ t[1] = Op("low", p) /\ t[2] = Op("high", p)
               /\ t[3] = Op("release", p) /\ t[4] = Op("state", p)
<1>. DEFINE a == Op("low", p)
            b == Op("high", p)
            c == Op("release", p)
            d == Op("state", p)
<1>1. a \in Ops /\ b \in Ops /\ c \in Ops /\ d \in Ops
  BY OpType
<1>2. p = <<p[1], p[2]>>
  BY DEF Pins
<1>3. setState(p[1], p[2]) = Append(<<a, b, c>>, d)
  BY <1>2 DEF setState, pulse
<1>. HIDE DEF a, b, c, d
<1>. DEFINE e == <<a, b, c>>
<1>4. e \in Seq(Ops) /\ Len(e) = 3 /\ e[1] = a /\ e[2] = b /\ e[3] = c
  BY <1>1
<1>. HIDE DEF e
<1>5. /\ Append(e, d) \in Seq(Ops) /\ Len(Append(e, d)) = 4 /\ Append(e, d)[4] = d
      /\ \A i \in 1 .. 3 : Append(e, d)[i] = e[i]
  BY <1>1, <1>4, AppendFourth
<1>. QED  BY <1>3, <1>4, <1>5 DEF a, b, c, d, e

\* The place of a transfer: which block of four it is in, and where.
LEMMA BlockOf ==
    ASSUME NEW n \in Nat, NEW k \in 1 .. 4 * n
    PROVE  \E i \in 1 .. n, j \in 1 .. 4 : k = 4 * (i - 1) + j
<1>1. \E q \in Nat, r \in 0 .. 3 : k - 1 = 4 * q + r
  <2>1. (k - 1) \div 4 \in Nat /\ (k - 1) % 4 \in 0 .. 3
        /\ k - 1 = 4 * ((k - 1) \div 4) + ((k - 1) % 4)
    OBVIOUS
  <2>. QED  BY <2>1
<1>2. PICK q \in Nat, r \in 0 .. 3 : k - 1 = 4 * q + r
  BY <1>1
<1>3. q + 1 \in 1 .. n /\ r + 1 \in 1 .. 4 /\ k = 4 * ((q + 1) - 1) + (r + 1)
  BY <1>2
<1>. QED  BY <1>3

LEMMA ConstructorsFacts ==
    /\ Constructors \in Seq(Ops)
    /\ \A k \in DOMAIN Constructors : Constructors[k].kind \in {"mode", "low"}
    /\ \A p \in Pins : \E k \in DOMAIN Constructors : Constructors[k] = Op("low", p)
<1>. DEFINE s  == SetToSeq(Switches)
            n  == Len(s)
            ss == [i \in DOMAIN s |-> SetUp(s[i])]
            f  == FlattenSeq(ss)
<1>1. /\ s \in Seq(Switches) /\ n \in Nat /\ DOMAIN s = 1 .. n
      /\ \A sw \in Switches : \E i \in 1 .. n : s[i] = sw
  <2>1. s \in Seq(Switches) /\ \A sw \in Switches : \E i \in DOMAIN s : s[i] = sw
    BY SetToSeqFacts, DevicesAssumption
  <2>. QED  BY <2>1
<1>2. Constructors = f
  BY DEF Constructors
<1>. HIDE DEF s, n
<1>3. \A i \in 1 .. n : ss[i] = SetUp(s[i]) /\ s[i] \in Switches
  BY <1>1
<1>4. ss \in Seq(Seq(Ops)) /\ Len(ss) = n /\ \A i \in 1 .. n : Len(ss[i]) = 4
  <2>1. \A i \in 1 .. n : ss[i] \in Seq(Ops) /\ Len(ss[i]) = 4
    BY <1>3, SetUpFacts
  <2>. QED  BY <1>1, <2>1
<1>. HIDE DEF ss
<1>5. /\ f \in Seq(Ops) /\ Len(f) = 4 * n
      /\ \A i \in 1 .. n, j \in 1 .. 4 : f[4 * (i - 1) + j] = ss[i][j]
  <2>1. InFours(ss)
    BY <1>4 DEF InFours
  <2>2. OneAfterTheOther(f, ss)
    BY <2>1, FlattenOps, Zenon
  <2>. HIDE DEF f
  <2>. QED  BY <1>4, <2>2 DEF OneAfterTheOther
<1>. HIDE DEF f
<1>6. DOMAIN f = 1 .. 4 * n
  BY <1>5
<1>7. ASSUME NEW k \in DOMAIN f
      PROVE  f[k].kind \in {"mode", "low"}
  <2>1. PICK i \in 1 .. n, j \in 1 .. 4 : k = 4 * (i - 1) + j
    <3>1. k \in 1 .. 4 * n
      BY <1>6
    <3>. QED  BY <1>1, <3>1, BlockOf, Zenon
  <2>2. f[k] = SetUp(s[i])[j] /\ s[i] \in Switches
    BY <1>3, <1>5, <2>1
  <2>. QED  BY <2>2, SetUpFacts
<1>8. ASSUME NEW p \in Pins
      PROVE  \E k \in DOMAIN f : f[k] = Op("low", p)
  <2>1. p = <<p[1], p[2]>> /\ p[1] \in Switches /\ p[2] \in {"A", "B"}
    BY DEF Pins, Sides
  <2>2. PICK i \in 1 .. n : s[i] = p[1]
    BY <1>1, <2>1
  <2>3. f[4 * (i - 1) + 3] = Op("low", <<p[1], "A">>) /\ f[4 * (i - 1) + 4] = Op("low", <<p[1], "B">>)
    BY <1>3, <1>5, <2>1, <2>2, SetUpFacts
  <2>4. 4 * (i - 1) + 3 \in 1 .. 4 * n /\ 4 * (i - 1) + 4 \in 1 .. 4 * n
    BY <1>1
  <2>5. Op("low", p) \in {f[4 * (i - 1) + 3], f[4 * (i - 1) + 4]}
    BY <2>1, <2>3, Zenon
  <2>. QED  BY <1>6, <2>4, <2>5
<1>. QED  BY <1>2, <1>5, <1>7, <1>8

LEMMA FollowsPulse ==
    ASSUME NEW p \in Pins
    PROVE  LET t == setState(p[1], p[2])
           IN  t \in Seq(Ops) /\ Follows(t) /\ FromLow(t)
<1>. DEFINE t == setState(p[1], p[2])
<1>1. /\ t \in Seq(Ops) /\ DOMAIN t = 1 .. 4
      /\ t[1] = Op("low", p) /\ t[2] = Op("high", p)
      /\ t[3] = Op("release", p) /\ t[4] = Op("state", p)
  BY SetStateFacts
<1>. HIDE DEF t
<1>2. \A i \in 1 .. 4 : i = 1 \/ i = 2 \/ i = 3 \/ i = 4
  OBVIOUS
<1>3. Follows(t)
  BY <1>1, <1>2 DEF Follows, Op
<1>4. FromLow(t)
  <2>1. Head(t) = t[1]
    OBVIOUS
  <2>. QED  BY <1>1, <2>1 DEF FromLow, Op
<1>. QED  BY <1>1, <1>3, <1>4 DEF t

LEMMA FollowsRoute ==
    ASSUME NEW r \in DOMAIN Routes
    PROVE  route(r) \in Seq(Ops) /\ Follows(route(r)) /\ FromLow(route(r))
<1>. DEFINE path == Routes[r]
            n    == Len(path)
            p(i) == <<path[i].sw, path[i].state>>
            ss   == [i \in DOMAIN path |-> setState(path[i].sw, path[i].state)]
            f    == FlattenSeq(ss)
<1>1. /\ path \in Seq([sw : Switches, state : Sides]) /\ n \in Nat /\ DOMAIN path = 1 .. n
      /\ \A i \in 1 .. n : path[i].sw \in Switches /\ path[i].state \in Sides
  <2>1. path \in Seq([sw : Switches, state : Sides])
    BY DevicesAssumption
  <2>. HIDE DEF path
  <2>2. n \in Nat /\ DOMAIN path = 1 .. n
    BY <2>1
  <2>3. \A i \in 1 .. n : path[i] \in [sw : Switches, state : Sides]
    BY <2>1, ElementOfSeq
  <2>. QED  BY <2>1, <2>2, <2>3
<1>2. route(r) = f
  BY DEF route
<1>3. \A i \in 1 .. n : p(i) \in Pins /\ path[i].sw = p(i)[1] /\ path[i].state = p(i)[2]
  BY <1>1 DEF Pins
<1>. HIDE DEF n, p
<1>4. \A i \in 1 .. n : /\ ss[i] \in Seq(Ops) /\ Len(ss[i]) = 4
                        /\ ss[i][1] = Op("low", p(i)) /\ ss[i][2] = Op("high", p(i))
                        /\ ss[i][3] = Op("release", p(i)) /\ ss[i][4] = Op("state", p(i))
  BY <1>1, <1>3, SetStateFacts
<1>5. ss \in Seq(Seq(Ops)) /\ Len(ss) = n /\ \A i \in 1 .. Len(ss) : Len(ss[i]) = 4
  <2>1. DOMAIN ss = 1 .. n /\ \A i \in 1 .. n : ss[i] \in Seq(Ops)
    BY <1>1, <1>4
  <2>2. ss \in Seq(Seq(Ops)) /\ Len(ss) = n
    BY <1>1, <2>1
  <2>. QED  BY <1>4, <2>2
<1>. HIDE DEF ss, path
<1>6. /\ f \in Seq(Ops) /\ Len(f) = 4 * n
      /\ \A i \in 1 .. n, j \in 1 .. 4 : f[4 * (i - 1) + j] = ss[i][j]
  <2>1. InFours(ss)
    BY <1>5 DEF InFours
  <2>2. OneAfterTheOther(f, ss)
    BY <2>1, FlattenOps, Zenon
  <2>. HIDE DEF f
  <2>. QED  BY <1>5, <2>2 DEF OneAfterTheOther
<1>. HIDE DEF f
<1>7. DOMAIN f = 1 .. 4 * n
  BY <1>6
<1>8. \A i \in 1 .. n : /\ f[4 * (i - 1) + 1] = Op("low", p(i))
                        /\ f[4 * (i - 1) + 2] = Op("high", p(i))
                        /\ f[4 * (i - 1) + 3] = Op("release", p(i))
                        /\ f[4 * (i - 1) + 4] = Op("state", p(i))
  <2>1. 1 \in 1 .. 4 /\ 2 \in 1 .. 4 /\ 3 \in 1 .. 4 /\ 4 \in 1 .. 4
    OBVIOUS
  <2>2. ASSUME NEW i \in 1 .. n
        PROVE  /\ f[4 * (i - 1) + 1] = ss[i][1] /\ f[4 * (i - 1) + 2] = ss[i][2]
               /\ f[4 * (i - 1) + 3] = ss[i][3] /\ f[4 * (i - 1) + 4] = ss[i][4]
    BY <1>6, <2>1, Zenon
  <2>. QED  BY <1>4, <2>2
<1>9. ASSUME NEW k \in DOMAIN f
      PROVE  /\ f[k].kind \in {"low", "high", "release", "state"}
             /\ f[k].kind = "low" => k + 1 \in DOMAIN f /\ f[k + 1] = Op("high", f[k].pin)
             /\ f[k].kind = "high" => k + 1 \in DOMAIN f /\ f[k + 1] = Op("release", f[k].pin)
             /\ f[k].kind = "release" => k + 1 \in DOMAIN f /\ f[k + 1] = Op("state", f[k].pin)
             /\ f[k].kind = "state" /\ k + 1 \in DOMAIN f => f[k + 1].kind = "low"
  <2>1. PICK i \in 1 .. n, j \in 1 .. 4 : k = 4 * (i - 1) + j
    <3>1. k \in 1 .. 4 * n
      BY <1>7
    <3>. QED  BY <1>1, <3>1, BlockOf, Zenon
  <2>. DEFINE b == 4 * (i - 1)
  <2>2. b \in Nat /\ b + 4 \in 1 .. 4 * n /\ k = b + j
    BY <1>1, <2>1
  <2>3. /\ f[b + 1] = Op("low", p(i)) /\ f[b + 2] = Op("high", p(i))
        /\ f[b + 3] = Op("release", p(i)) /\ f[b + 4] = Op("state", p(i))
    BY <1>8
  <2>4. b + 5 \in DOMAIN f => f[b + 5].kind = "low"
    <3>1. SUFFICES ASSUME b + 5 \in 1 .. 4 * n
                   PROVE  f[b + 5].kind = "low"
      BY <1>7
    <3>2. i + 1 \in 1 .. n /\ 4 * ((i + 1) - 1) + 1 = b + 5
      BY <1>1, <3>1
    <3>3. f[b + 5] = Op("low", p(i + 1))
      BY <1>8, <3>2
    <3>. QED  BY <3>3 DEF Op
  <2>. HIDE DEF b
  <2>5. CASE j = 1
    <3>1. k = b + 1 /\ k + 1 = b + 2 /\ k + 1 \in DOMAIN f
      BY <1>1, <1>7, <2>2, <2>5
    <3>. QED  BY <2>3, <3>1 DEF Op
  <2>6. CASE j = 2
    <3>1. k = b + 2 /\ k + 1 = b + 3 /\ k + 1 \in DOMAIN f
      BY <1>1, <1>7, <2>2, <2>6
    <3>. QED  BY <2>3, <3>1 DEF Op
  <2>7. CASE j = 3
    <3>1. k = b + 3 /\ k + 1 = b + 4 /\ k + 1 \in DOMAIN f
      BY <1>1, <1>7, <2>2, <2>7
    <3>. QED  BY <2>3, <3>1 DEF Op
  <2>8. CASE j = 4
    <3>1. k = b + 4 /\ k + 1 = b + 5
      BY <2>2, <2>8
    <3>. QED  BY <2>3, <2>4, <3>1 DEF Op
  <2>. QED  BY <2>5, <2>6, <2>7, <2>8
<1>10. FromLow(f)
  <2>. SUFFICES ASSUME f # << >>
                PROVE  Head(f).kind = "low"
    BY DEF FromLow
  <2>1. Head(f) = f[1] /\ Len(f) # 0
    BY <1>6
  <2>2. 1 \in 1 .. n /\ 4 * (1 - 1) + 1 = 1
    BY <1>1, <1>6, <2>1
  <2>3. f[1] = Op("low", p(1))
    BY <1>8, <2>2
  <2>. QED  BY <2>1, <2>3 DEF Op
<1>. QED  BY <1>2, <1>6, <1>9, <1>10 DEF Follows

LEMMA FollowsTail ==
    ASSUME NEW t \in Seq(Ops), t # << >>, Follows(t)
    PROVE  /\ Tail(t) \in Seq(Ops) /\ Follows(Tail(t))
           /\ Head(t) = t[1] /\ 1 \in DOMAIN t /\ t[1] \in Ops
           /\ \A i \in DOMAIN Tail(t) : i + 1 \in DOMAIN t /\ Tail(t)[i] = t[i + 1]
           /\ \A i \in DOMAIN t : i # 1 => i - 1 \in DOMAIN Tail(t) /\ Tail(t)[i - 1] = t[i]
<1>1. /\ Tail(t) \in Seq(Ops) /\ Len(t) \in Nat \ {0} /\ DOMAIN t = 1 .. Len(t)
      /\ Len(Tail(t)) = Len(t) - 1 /\ DOMAIN Tail(t) = 1 .. Len(t) - 1
      /\ \A i \in 1 .. Len(t) - 1 : Tail(t)[i] = t[i + 1]
  OBVIOUS
<1>2. Head(t) = t[1] /\ 1 \in DOMAIN t /\ t[1] \in Ops
  BY <1>1
<1>. DEFINE n == Len(t)
            u == Tail(t)
<1>. HIDE DEF n, u
<1>3. \A i \in 1 .. n - 1 : i + 1 \in 1 .. n
  BY <1>1 DEF n
<1>4. \A i \in 1 .. n : i # 1 => i - 1 \in 1 .. n - 1 /\ (i - 1) + 1 = i
  BY <1>1 DEF n
<1>5. ASSUME NEW i \in 1 .. n - 1
      PROVE  (i + 1) + 1 \in 1 .. n <=> i + 1 \in 1 .. n - 1
  BY <1>1 DEF n
<1>6. Follows(u)
  BY <1>1, <1>3, <1>5 DEF Follows, n, u
<1>. QED  BY <1>1, <1>2, <1>3, <1>4, <1>6 DEF n, u

----------------------------------------------------------------------------
(* The executor: types, and what it is at.                                 *)

\* A command keeps its key, and its id and argument are of the key's kind.
LEMMA CommandParts ==
    ASSUME NEW key \in Keys, NEW c \in Commands(key)
    PROVE  /\ c.key = key /\ c.id \in Ids(key) /\ c.arg \in Args(key)
           /\ c # NoCommand
<1>. DEFINE I == Ids(key)
            A == Args(key)
<1>1. c \in [word : {"get", "set"}, key : {key}, id : I, arg : A]
  BY DEF Commands
<1>2. key # ""
  BY DEF Keys
<1>. HIDE DEF I, A
<1>3. c.key = key /\ c.id \in I /\ c.arg \in A
  BY <1>1
<1>4. NoCommand.key = ""
  BY DEF NoCommand
<1>5. c # NoCommand
  BY <1>2, <1>3, <1>4
<1>. QED  BY <1>3, <1>5 DEF I, A

\* DevTypeOK in three parts.
Replies     == [kind : {"none", "error", "ok", "routes", "U", "A", "B", "value"}, value : Raw]
LateAnswers == [unit : Lasers, fc : {"get", "set"}, value : Raw]

ExecType ==
    /\ dpc \in {"boot", "idle", "handle", "i2c", "wait"}
    /\ command = NoCommand \/ (command.key \in Keys /\ command \in Commands(command.key))
    /\ handler \in {"none", "get", "set"}
    /\ answer \in Replies

SwitchType ==
    /\ todo \in Seq(Ops)
    /\ state \in [Switches -> Sides \union {"U"}] /\ position \in [Switches -> Sides]
    /\ out \subseteq Pins /\ inputs \subseteq Pins /\ poor \subseteq Pins

LineType ==
    /\ dac \in [Channels -> DacCodes]
    /\ dest \in Lasers \union {1} /\ level \in [Lasers -> Raw] /\ had \in [Lasers -> SUBSET Raw]
    /\ late \in Seq(LateAnswers) /\ Len(late) <= MaxLate

LEMMA DevTypeParts == DevTypeOK <=> ExecType /\ SwitchType /\ LineType
<1>1. DevTypeOK => ExecType
  BY DEF DevTypeOK, ExecType, Replies
<1>2. DevTypeOK => SwitchType
  BY DEF DevTypeOK, SwitchType, Ops
<1>3. DevTypeOK => LineType
  BY Zenon DEF DevTypeOK, LineType, LateAnswers
<1>4. ExecType /\ SwitchType /\ LineType => DevTypeOK
  BY Zenon DEF DevTypeOK, ExecType, SwitchType, LineType, Ops, Replies, LateAnswers
<1>. QED  BY <1>1, <1>2, <1>3, <1>4

\* Where the executor is, in terms of what it holds.
AtWork ==
    /\ dpc \in {"handle", "i2c", "wait"} => command # NoCommand /\ handler \in {"get", "set"}
    /\ dpc # "idle" => answer.kind = "none"
    /\ dpc = "wait" => command.key = "laser" /\ dest = command.id
    /\ dpc \notin {"boot", "i2c"} => todo = << >>

ExecInv == ExecType /\ SwitchType /\ LineType /\ AtWork

LEMMA SaysType ==
    ASSUME NEW kind \in {"none", "error", "ok", "routes", "U", "A", "B", "value"}
    PROVE  Says(kind) \in Replies /\ Says(kind).kind = kind
BY DevicesAssumption DEF Says, Raw, Replies

LEMMA ReportsType ==
    ASSUME NEW v \in Raw
    PROVE  Reports(v) \in Replies
BY DEF Reports, Replies

LEMMA CodeType ==
    ASSUME NEW v \in Int
    PROVE  Code(v) \in DacCodes
<1>1. Clamp(v) \in Int /\ 0 <= Clamp(v) /\ Clamp(v) <= 4096
  BY DEF Clamp, FullScale
<1>. DEFINE c == Clamp(v)
            x == (c * 4095) \div 4096
<1>. HIDE DEF c
<1>2. x \in Int /\ 0 <= x /\ x <= 4095
  <2>1. c \in Int /\ 0 <= c /\ c <= 4096
    BY <1>1 DEF c
  <2>. QED  BY <2>1
<1>. HIDE DEF x
<1>3. (x * 16) % 65536 = x * 16
  BY <1>2
<1>4. (x * 16) \div 16 = x
  BY <1>2
<1>5. Code(v) = ((x * 16) % 65536) \div 16
  BY DEF Code, FullScale, x, c
<1>6. Code(v) = x
  BY <1>3, <1>4, <1>5
<1>7. x \in DacCodes
  BY <1>2 DEF DacCodes
<1>. QED  BY <1>6, <1>7

LEMMA InitExecInv == DevInit => ExecInv
<1>. SUFFICES ASSUME DevInit
              PROVE  ExecInv
  OBVIOUS
<1>1. todo \in Seq(Ops)
  BY ConstructorsFacts DEF DevInit
<1>2. answer \in Replies /\ answer.kind = "none"
  BY SaysType DEF DevInit
<1>3. 0 \in Raw
  BY DevicesAssumption DEF Raw
<1>4. late \in Seq(LateAnswers) /\ Len(late) <= MaxLate
  BY DevicesAssumption DEF DevInit
<1>5. ExecType /\ AtWork
  BY <1>2 DEF DevInit, ExecType, AtWork
<1>6. SwitchType
  BY <1>1 DEF DevInit, SwitchType
<1>7. LineType
  <2>1. 0 \in DacCodes
    BY DEF DacCodes
  <2>2. dac \in [Channels -> DacCodes]
    BY <2>1 DEF DevInit
  <2>. QED  BY <1>3, <1>4, <2>2 DEF DevInit, LineType
<1>. QED  BY <1>5, <1>6, <1>7 DEF ExecInv

\* The next transfer.
LEMMA HeadOp ==
    ASSUME SwitchType, todo # << >>
    PROVE  /\ Head(todo) \in Ops /\ Tail(todo) \in Seq(Ops)
           /\ Head(todo).pin \in Pins
           /\ Head(todo).pin[1] \in Switches /\ Head(todo).pin[2] \in Sides
           /\ Head(todo).pin = <<Head(todo).pin[1], Head(todo).pin[2]>>
           /\ Head(todo) = Op(Head(todo).kind, Head(todo).pin)
<1>1. Head(todo) \in Ops /\ Tail(todo) \in Seq(Ops)
  BY DEF SwitchType
<1>2. Head(todo).pin \in Pins /\ Head(todo) = Op(Head(todo).kind, Head(todo).pin)
  BY <1>1 DEF Ops, Op
<1>. QED  BY <1>1, <1>2 DEF Pins

LEMMA SwitchStepType ==
    ASSUME ExecInv, SwitchStep
    PROVE  ExecInv'
<1>. USE DEF ExecInv
<1>1. /\ todo # << >> /\ todo' = Tail(todo) /\ dpc \in {"boot", "i2c"}
      /\ UNCHANGED <<dpc, command, handler, answer, dac, dest, level, late, had>>
  BY DEF SwitchStep, lasers
<1>2. ExecType' /\ LineType' /\ AtWork'
  <2>1. ExecType'
    BY <1>1 DEF ExecType
  <2>2. LineType'
    BY <1>1, Zenon DEF LineType
  <2>3. AtWork'
    BY <1>1 DEF AtWork
  <2>. QED  BY <2>1, <2>2, <2>3
<1>3. SwitchType'
  <2>. DEFINE op == Head(todo)
  <2>1. /\ op.pin \in Pins /\ op.pin[1] \in Switches /\ op.pin[2] \in Sides
        /\ todo' \in Seq(Ops)
    BY <1>1, HeadOp
  <2>. HIDE DEF op
  <2>2. CASE op.kind = "state"
    <3>1. state' = [state EXCEPT ![op.pin[1]] = op.pin[2]] /\ UNCHANGED expander
      BY <2>2 DEF SwitchStep, op
    <3>. QED  BY <2>1, <3>1 DEF SwitchType, expander
  <2>3. CASE op.kind # "state"
    <3>1. PICK ok \in BOOLEAN, reached \in BOOLEAN : Transfer(op, ok, reached)
      BY <2>3 DEF SwitchStep, op
    <3>2. UNCHANGED state
      BY <2>3 DEF SwitchStep, op
    <3>3. Registers(op).out \subseteq Pins /\ Registers(op).inputs \subseteq Pins
      BY <2>1 DEF SwitchType, Registers
    <3>4. out' \subseteq Pins /\ inputs' \subseteq Pins /\ poor' \subseteq Pins
      BY <2>1, <3>1, <3>3 DEF Transfer, SwitchType
    <3>5. position' \in [Switches -> Sides]
      BY <3>1 DEF Transfer, Settles
    <3>. QED  BY <2>1, <3>2, <3>4, <3>5 DEF SwitchType
  <2>. QED  BY <2>2, <2>3
<1>. QED  BY <1>2, <1>3

\* What an action that ends a command leaves: the answer, and nothing in hand.
LEMMA DoneKeeps ==
    ASSUME ExecInv, NEW reply \in Replies, Done(reply),
           dpc \in {"boot", "i2c"} => todo = << >>, UNCHANGED todo
    PROVE  ExecType' /\ AtWork'
<1>1. /\ dpc' = "idle" /\ answer' = reply /\ command' = NoCommand /\ handler' = "none"
      /\ todo' = << >>
  BY DEF Done, ExecInv, AtWork, ExecType
<1>. QED  BY <1>1 DEF ExecType, AtWork

LEMMA LineUnchanged ==
    ASSUME LineType, UNCHANGED <<dac, dest, level, late, had>>
    PROVE  LineType'
BY DEF LineType

LEMMA SwitchUnchanged ==
    ASSUME SwitchType, UNCHANGED <<todo, state, out, inputs, position, poor>>
    PROVE  SwitchType'
BY DEF SwitchType

\* Less is on the line.
LEMMA LateTail ==
    ASSUME LineType, late # << >>
    PROVE  /\ Head(late) \in LateAnswers /\ Head(late) = late[1] /\ 1 \in DOMAIN late
           /\ Tail(late) \in Seq(LateAnswers) /\ Len(Tail(late)) <= MaxLate
           /\ \A i \in DOMAIN Tail(late) : i + 1 \in DOMAIN late /\ Tail(late)[i] = late[i + 1]
BY DevicesAssumption DEF LineType

\* The command of a handler that is not refused.
LEMMA Served ==
    ASSUME ExecInv, NEW key \in Keys, dpc = "handle", ~Refused(command), command.key = key
    PROVE  /\ command \in Commands(key)
           /\ command.id \in Ids(key) /\ command.arg \in Args(key)
<1>1. command # NoCommand /\ command \in Commands(command.key)
  BY DEF ExecInv, AtWork, ExecType
<1>. QED  BY <1>1, CommandParts

LEMMA AnswersType ==
    ASSUME ExecInv,
           SwitchesDone \/ Refuse \/ GetRoutes \/ GetSwitch \/ GetAttenuator \/ TimedOut
    PROVE  ExecInv'
<1>1. Says("none") \in Replies /\ Says("ok") \in Replies /\ Says("error") \in Replies
      /\ Says("routes") \in Replies /\ Reports(0) \in Replies
  <2>1. 0 \in Raw
    BY DevicesAssumption DEF Raw
  <2>. QED  BY <2>1, SaysType, ReportsType
<1>2. \E reply \in Replies : Done(reply)
  <2>1. CASE SwitchesDone \/ Refuse \/ GetRoutes \/ TimedOut
    BY <1>1, <2>1 DEF SwitchesDone, Refuse, GetRoutes, TimedOut
  <2>2. CASE GetSwitch
    <3>1. command.id \in Switches
      <4>1. command.id \in Ids("mems.switch") /\ command.id # NoArg
        BY <2>2, Served DEF GetSwitch, Serves, Refused, Keys
      <4>. QED  BY <4>1 DEF Ids
    <3>2. state[command.id] \in {"U", "A", "B"}
      BY <3>1 DEF ExecInv, SwitchType, Sides
    <3>. QED  BY <2>2, <3>2, SaysType DEF GetSwitch
  <2>3. CASE GetAttenuator
    BY <1>1, <2>3 DEF GetAttenuator
  <2>. QED  BY <2>1, <2>2, <2>3
<1>3. /\ UNCHANGED <<todo, state, out, inputs, position, poor, dac, dest, level, late, had>>
      /\ dpc \in {"boot", "i2c"} => todo = << >>
  BY DEF SwitchesDone, Refuse, GetRoutes, GetSwitch, GetAttenuator, TimedOut, Serves, expander, lasers
<1>. QED  BY <1>2, <1>3, DoneKeeps, LineUnchanged, SwitchUnchanged DEF ExecInv

LEMMA AnsweredType ==
    ASSUME ExecInv, Answered
    PROVE  ExecInv'
<1>1. late # << >> /\ late' = Tail(late) /\ dpc = "wait"
      /\ UNCHANGED <<todo, state, out, inputs, position, poor, dac, dest, level, had>>
  BY DEF Answered, expander
<1>2. Head(late).value \in Raw
  BY <1>1, LateTail DEF ExecInv, LateAnswers
<1>3. \E reply \in Replies : Done(reply)
  BY <1>2, SaysType, ReportsType DEF Answered
<1>4. LineType'
  BY <1>1, LateTail DEF ExecInv, LineType
<1>. QED  BY <1>1, <1>3, <1>4, DoneKeeps, SwitchUnchanged DEF ExecInv

LEMMA SetAttenuatorType ==
    ASSUME ExecInv, SetAttenuator
    PROVE  ExecInv'
<1>1. PICK ok \in BOOLEAN, reached \in BOOLEAN :
          /\ dac' = IF reached THEN [dac EXCEPT ![command.id] = Code(command.arg)] ELSE dac
          /\ Done(Says(IF ok THEN "ok" ELSE "error"))
  BY DEF SetAttenuator
<1>2. /\ dpc = "handle"
      /\ UNCHANGED <<todo, state, out, inputs, position, poor, dest, level, late, had>>
  BY DEF SetAttenuator, Serves, expander, lasers
<1>3. command.arg \in Int
  <2>1. command.arg \in Args("atten") /\ command.arg # NoArg
    BY Served DEF SetAttenuator, Serves, Refused, Keys
  <2>. QED  BY <2>1, DevicesAssumption DEF Args
<1>4. dac' \in [Channels -> DacCodes]
  BY <1>1, <1>3, CodeType DEF ExecInv, LineType
<1>5. LineType'
  BY <1>2, <1>4 DEF ExecInv, LineType
<1>6. Says(IF ok THEN "ok" ELSE "error") \in Replies
  BY SaysType
<1>. QED  BY <1>1, <1>2, <1>5, <1>6, DoneKeeps, SwitchUnchanged DEF ExecInv

LEMMA SetSwitchesType ==
    ASSUME ExecInv, SetSwitches
    PROVE  /\ ExecInv' /\ Follows(todo') /\ FromLow(todo')
           /\ dpc' = "i2c" /\ dpc = "handle"
<1>1. /\ dpc = "handle" /\ dpc' = "i2c"
      /\ UNCHANGED <<command, handler, answer, state, out, inputs, position, poor>>
      /\ UNCHANGED <<dac, dest, level, late, had>>
  BY DEF SetSwitches, Serves, expander, lasers
<1>2. todo' \in Seq(Ops) /\ Follows(todo') /\ FromLow(todo')
  <2>1. CASE Serves("mems.route", "set")
    <3>1. command.id \in Ids("mems.route") /\ command.id # NoArg /\ todo' = route(command.id)
      BY <2>1, Served DEF SetSwitches, Serves, Refused, Keys
    <3>2. command.id \in DOMAIN Routes
      BY <3>1 DEF Ids
    <3>. QED  BY <3>1, <3>2, FollowsRoute
  <2>2. CASE Serves("mems.switch", "set")
    <3>1. /\ command.id \in Ids("mems.switch") /\ command.id # NoArg
          /\ command.arg \in Args("mems.switch") /\ command.arg # NoArg
          /\ todo' = setState(command.id, command.arg)
      BY <2>2, Served DEF SetSwitches, Serves, Refused, Keys
    <3>2. <<command.id, command.arg>> \in Pins
      BY <3>1 DEF Ids, Args, Pins
    <3>. QED  BY <3>1, <3>2, FollowsPulse
  <2>. QED  BY <2>1, <2>2 DEF SetSwitches
<1>3. ExecType' /\ AtWork'
  BY <1>1 DEF ExecInv, ExecType, AtWork
<1>4. SwitchType'
  BY <1>1, <1>2 DEF ExecInv, SwitchType
<1>. QED  BY <1>1, <1>2, <1>3, <1>4, LineUnchanged DEF ExecInv

\* What the lasers are set to by a request, whichever of them hear it.
WrittenAs(v, write, heard) ==
    level' = [l \in Lasers |-> IF write /\ heard /\ dest' \in {l, Broadcast}
                                 THEN v ELSE level[l]]

LEMMA WrittenOnlyThere ==
    ASSUME NEW v, NEW write, NEW heard, WrittenAs(v, write, heard), NEW l \in Lasers
    PROVE  level'[l] # level[l] => dest' \in {l, Broadcast}
<1>. SUFFICES ASSUME dest' \notin {l, Broadcast}
              PROVE  level'[l] = level[l]
  OBVIOUS
<1>. QED  BY DEF WrittenAs

\* A request to a laser: what it may change on the line, and what it leaves.
LEMMA AskFacts ==
    ASSUME ExecInv, Ask
    PROVE  /\ dpc = "handle" /\ command \in Commands("laser")
           /\ command.id \in Lasers /\ dest' = command.id
           /\ UNCHANGED <<todo, state, out, inputs, position, poor, dac>>
           /\ \E v \in Raw, write, heard \in BOOLEAN :
                  /\ WrittenAs(v, write, heard)
                  /\ had' = [l \in Lasers |-> had[l] \union {level'[l]}]
                  /\ \/ late' = late
                     \/ /\ Len(late) < MaxLate
                        /\ late' = Append(late, [unit |-> dest', fc |-> handler,
                                                 value |-> level'[dest']])
                  /\ \/ Done(Says("ok"))
                     \/ /\ dpc' = "wait" /\ UNCHANGED <<handler, answer>>
                        /\ command' = command \/ command' = [command EXCEPT !.arg = v]
<1>1. /\ dpc = "handle" /\ ~Refused(command) /\ command.key = "laser" /\ dest' = command.id
      /\ UNCHANGED <<todo, state, out, inputs, position, poor, dac>>
  BY DEF Ask, Addressed, expander
<1>2. command \in Commands("laser") /\ command.id \in Lasers
  BY <1>1, Served DEF Keys, Ids
<1>3. PICK v \in (IF handler = "set" THEN Cast(command.arg) ELSE {0}), heard \in BOOLEAN :
         LET hears(l) == heard /\ dest' \in {l, Broadcast}
             write    == handler = "set"
         IN  /\ level' = [l \in Lasers |-> IF write /\ hears(l) THEN v ELSE level[l]]
             /\ had' = [l \in Lasers |-> had[l] \union {level'[l]}]
             /\ late' = IF heard /\ dest' # Broadcast /\ Len(late) < MaxLate
                          THEN Append(late, [unit |-> dest', fc |-> handler,
                                             value |-> level'[dest']])
                          ELSE late
             /\ IF write /\ dest' = Broadcast
                  THEN Done(Says("ok"))
                  ELSE /\ dpc' = "wait" /\ UNCHANGED <<handler, answer>>
                       /\ command' = IF write THEN [command EXCEPT !.arg = v] ELSE command
  BY Zenon DEF Ask
<1>4. v \in Raw
  BY DevicesAssumption DEF Cast, Raw
<1>. DEFINE write == handler = "set"
<1>5. WrittenAs(v, write, heard) /\ had' = [l \in Lasers |-> had[l] \union {level'[l]}]
  BY <1>3 DEF WrittenAs
<1>6. \/ late' = late
      \/ /\ Len(late) < MaxLate
         /\ late' = Append(late, [unit |-> dest', fc |-> handler, value |-> level'[dest']])
  BY <1>3
<1>7. \/ Done(Says("ok"))
      \/ /\ dpc' = "wait" /\ UNCHANGED <<handler, answer>>
         /\ command' = command \/ command' = [command EXCEPT !.arg = v]
  BY <1>3
<1>8. write \in BOOLEAN
  OBVIOUS
<1>. HIDE DEF write
<1>. QED  BY <1>1, <1>2, <1>4, <1>5, <1>6, <1>7, <1>8, Zenon

\* The level of each laser is among those it has had, and so is every level an
\* answer carries, for the laser that sent it.
LevelsKnown ==
    /\ \A l \in Lasers : level[l] \in had[l]
    /\ \A i \in DOMAIN late : late[i].value \in had[late[i].unit]

LEMMA AskType ==
    ASSUME ExecInv, Ask
    PROVE  /\ ExecInv'
           /\ LevelsKnown => LevelsKnown'
<1>1. /\ dpc = "handle" /\ command \in Commands("laser")
      /\ command.id \in Lasers /\ dest' = command.id
      /\ UNCHANGED <<todo, state, out, inputs, position, poor, dac>>
  BY AskFacts
<1>2. PICK v \in Raw, write \in BOOLEAN, heard \in BOOLEAN :
          /\ WrittenAs(v, write, heard)
          /\ had' = [l \in Lasers |-> had[l] \union {level'[l]}]
          /\ \/ late' = late
             \/ /\ Len(late) < MaxLate
                /\ late' = Append(late, [unit |-> dest', fc |-> handler,
                                         value |-> level'[dest']])
          /\ \/ Done(Says("ok"))
             \/ /\ dpc' = "wait" /\ UNCHANGED <<handler, answer>>
                /\ command' = command \/ command' = [command EXCEPT !.arg = v]
  BY AskFacts, Zenon
<1>3. /\ level' \in [Lasers -> Raw] /\ had' \in [Lasers -> SUBSET Raw]
      /\ \A l \in Lasers : level'[l] \in had'[l] /\ had[l] \subseteq had'[l]
  <2>1. level' \in [Lasers -> Raw]
    BY <1>2 DEF ExecInv, LineType, WrittenAs
  <2>. QED  BY <1>2, <2>1 DEF ExecInv, LineType
<1>4. handler \in {"get", "set"}
  BY <1>1 DEF ExecInv, AtWork
<1>. DEFINE m == [unit |-> dest', fc |-> handler, value |-> level'[dest']]
<1>5. m \in LateAnswers /\ m.value \in had'[m.unit]
  BY <1>1, <1>3, <1>4 DEF LateAnswers
<1>6. late \in Seq(LateAnswers) /\ Len(late) <= MaxLate /\ MaxLate \in Nat
  BY DevicesAssumption DEF ExecInv, LineType
<1>7. late' = late \/ (Len(late) < MaxLate /\ late' = Append(late, m))
  BY <1>2
<1>. HIDE DEF m
<1>8. late' \in Seq(LateAnswers) /\ Len(late') <= MaxLate
  BY <1>5, <1>6, <1>7
<1>9. LineType'
  BY <1>1, <1>3, <1>8 DEF ExecInv, LineType
<1>10. LevelsKnown => LevelsKnown'
  <2>. SUFFICES ASSUME LevelsKnown, NEW i \in DOMAIN late'
                PROVE  late'[i].value \in had'[late'[i].unit]
    BY <1>3 DEF LevelsKnown
  <2>1. CASE i \in DOMAIN late /\ late'[i] = late[i]
    <3>1. late[i] \in LateAnswers
      BY <1>6, <2>1
    <3>2. late[i].unit \in Lasers
      BY <3>1 DEF LateAnswers
    <3>. QED  BY <1>3, <2>1, <3>2 DEF LevelsKnown
  <2>2. CASE late'[i] = m
    BY <1>5, <2>2
  <2>3. (i \in DOMAIN late /\ late'[i] = late[i]) \/ late'[i] = m
    BY <1>6, <1>7
  <2>. QED  BY <2>1, <2>2, <2>3
<1>11. ExecType' /\ AtWork'
  <2>1. CASE Done(Says("ok"))
    BY <1>1, <2>1, SaysType, DoneKeeps
  <2>2. CASE /\ dpc' = "wait" /\ UNCHANGED <<handler, answer>>
             /\ command' = command \/ command' = [command EXCEPT !.arg = v]
    <3>1. [command EXCEPT !.arg = v] \in Commands("laser")
      <4>. DEFINE A == Args("laser")
      <4>1. v \in A
        BY DevicesAssumption DEF Args, Raw
      <4>2. command \in [word : {"get", "set"}, key : {"laser"}, id : Ids("laser"), arg : A]
        BY <1>1 DEF Commands
      <4>. HIDE DEF A
      <4>3. [command EXCEPT !.arg = v]
                \in [word : {"get", "set"}, key : {"laser"}, id : Ids("laser"), arg : A]
        BY <4>1, <4>2
      <4>. QED  BY <4>3 DEF Commands, A
    <3>2. command' \in Commands("laser")
      BY <1>1, <2>2, <3>1
    <3>3. command'.key = "laser" /\ command' # NoCommand
      BY <3>2, CommandParts DEF Keys
    <3>4. command'.id = command.id
      <4>1. [command EXCEPT !.arg = v].id = command.id
        BY <1>1 DEF Commands
      <4>. QED  BY <2>2, <4>1
    <3>5. answer' = answer /\ answer.kind = "none" /\ answer \in Replies /\ handler' = handler
      BY <1>1, <2>2 DEF ExecInv, AtWork, ExecType
    <3>6. ExecType'
      BY <1>4, <2>2, <3>2, <3>3, <3>5 DEF ExecType, Keys
    <3>7. todo' = << >>
      BY <1>1 DEF ExecInv, AtWork
    <3>8. AtWork'
      BY <1>1, <1>4, <2>2, <3>3, <3>4, <3>5, <3>7 DEF AtWork
    <3>. QED  BY <3>6, <3>8
  <2>. QED  BY <1>2, <2>1, <2>2
<1>. QED  BY <1>1, <1>9, <1>10, <1>11, SwitchUnchanged DEF ExecInv

LEMMA ReceiveType ==
    ASSUME ExecInv, NEW key \in Keys, NEW c \in Commands(key), Receive(c)
    PROVE  ExecInv'
<1>1. /\ dpc = "idle" /\ command' = c /\ handler' = HandlerOf(c) /\ dpc' = "handle"
      /\ answer' = Says("none")
      /\ UNCHANGED <<todo, state, out, inputs, position, poor, dac, dest, level, late, had>>
  BY DEF Receive, expander, lasers
<1>2. HandlerOf(c) \in {"get", "set"}
  BY DEF HandlerOf
<1>3. c.key = key /\ c # NoCommand
  BY CommandParts
<1>4. Says("none") \in Replies /\ Says("none").kind = "none"
  BY SaysType
<1>5. todo' = << >>
  BY <1>1 DEF ExecInv, AtWork
<1>6. ExecType' /\ AtWork'
  BY <1>1, <1>2, <1>3, <1>4, <1>5 DEF ExecType, AtWork
<1>. QED  BY <1>1, <1>6, LineUnchanged, SwitchUnchanged DEF ExecInv

LEMMA AnswerLostType ==
    ASSUME ExecInv, AnswerLost
    PROVE  ExecInv'
<1>1. /\ late # << >> /\ late' = Tail(late)
      /\ UNCHANGED <<dpc, command, handler, todo, answer, state, out, inputs, position, poor>>
      /\ UNCHANGED <<dac, dest, level, had>>
  BY DEF AnswerLost, expander
<1>2. LineType'
  BY <1>1, LateTail DEF ExecInv, LineType
<1>3. ExecType' /\ AtWork'
  BY <1>1 DEF ExecInv, ExecType, AtWork
<1>. QED  BY <1>1, <1>2, <1>3, SwitchUnchanged DEF ExecInv

LEMMA RestartType ==
    ASSUME ExecInv, Restart
    PROVE  ExecInv'
<1>1. /\ dpc' = "boot" /\ command' = NoCommand /\ handler' = "none" /\ answer' = Says("none")
      /\ todo' = Constructors /\ state' = [sw \in Switches |-> "U"]
      /\ dest' = 1 /\ late' \in {<< >>, late}
      /\ UNCHANGED <<out, inputs, position, poor, dac, level, had>>
  BY DEF Restart, expander
<1>2. Says("none") \in Replies /\ Says("none").kind = "none"
  BY SaysType
<1>3. ExecType' /\ AtWork'
  BY <1>1, <1>2 DEF ExecType, AtWork
<1>4. SwitchType'
  BY <1>1, ConstructorsFacts DEF ExecInv, SwitchType
<1>5. late' \in Seq(LateAnswers) /\ Len(late') <= MaxLate
  <2>1. late \in Seq(LateAnswers) /\ Len(late) <= MaxLate
    BY DEF ExecInv, LineType
  <2>2. << >> \in Seq(LateAnswers) /\ Len(<< >>) <= MaxLate
    BY DevicesAssumption
  <2>. QED  BY <1>1, <2>1, <2>2
<1>6. LineType'
  BY <1>1, <1>5 DEF ExecInv, LineType
<1>. QED  BY <1>3, <1>4, <1>6 DEF ExecInv

LEMMA StutterType ==
    ASSUME ExecInv, UNCHANGED devVars
    PROVE  ExecInv'
<1>1. UNCHANGED <<dpc, command, handler, todo, answer, state, out, inputs, position, poor>>
      /\ UNCHANGED <<dac, dest, level, late, had>>
  BY DEF devVars, expander, lasers
<1>2. ExecType' /\ AtWork'
  BY <1>1 DEF ExecInv, ExecType, AtWork
<1>. QED  BY <1>1, <1>2, LineUnchanged, SwitchUnchanged DEF ExecInv

LEMMA NextExecInv ==
    ASSUME ExecInv, [DevNext]_devVars
    PROVE  ExecInv'
<1>1. CASE \E key \in Keys : \E c \in Commands(key) : Receive(c)
  BY <1>1, ReceiveType, Zenon
<1>2. CASE SwitchStep
  BY <1>2, SwitchStepType
<1>3. CASE SwitchesDone \/ Refuse \/ GetRoutes \/ GetSwitch \/ GetAttenuator \/ TimedOut
  BY <1>3, AnswersType
<1>4. CASE SetSwitches
  BY <1>4, SetSwitchesType
<1>5. CASE SetAttenuator
  BY <1>5, SetAttenuatorType
<1>6. CASE Ask
  BY <1>6, AskType
<1>7. CASE Answered
  BY <1>7, AnsweredType
<1>8. CASE AnswerLost
  BY <1>8, AnswerLostType
<1>9. CASE Restart
  BY <1>9, RestartType
<1>10. CASE UNCHANGED devVars
  BY <1>10, StutterType
<1>. QED
  BY <1>1, <1>2, <1>3, <1>4, <1>5, <1>6, <1>7, <1>8, <1>9, <1>10, Zenon DEF DevNext, Executor

LEMMA ExecInvHolds == DevSpec => []ExecInv
BY InitExecInv, NextExecInv, PTL DEF DevSpec

\* Every variable of the board keeps its type: a command is one the peer can have
\* written, a DAC code has twelve bits, no laser is set to what is not a level.
THEOREM DevTypeOKHolds == DevSpec => []DevTypeOK
<1>1. ExecInv => DevTypeOK
  BY DevTypeParts DEF ExecInv
<1>. QED  BY <1>1, ExecInvHolds, PTL

----------------------------------------------------------------------------
(* The firmware as it is: string_to_msgtype() does not know "set".         *)

\* No switch has a state, no attenuator a code and no laser a level but those of
\* power-up.
NothingSet ==
    /\ \A sw \in Switches : state[sw] = "U"
    /\ \A ch \in Channels : dac[ch] = 0
    /\ \A l \in Lasers : level[l] = 0

NothingSetInv ==
    /\ NothingSet /\ handler # "set"
    /\ \A i \in DOMAIN todo : todo[i].kind # "state"

LEMMA NothingSetStart == DevInit => NothingSetInv
BY ConstructorsFacts DEF DevInit, NothingSetInv, NothingSet

LEMMA NothingSetStep ==
    ASSUME ~KnowsSet, ExecInv, NothingSetInv, [DevNext]_devVars
    PROVE  NothingSetInv'
<1>. USE DEF NothingSetInv, NothingSet
<1>1. ASSUME NEW key \in Keys, NEW c \in Commands(key), Receive(c)
      PROVE  NothingSetInv'
  <2>1. handler' = "get" /\ UNCHANGED <<todo, state, dac, level>>
    BY <1>1 DEF Receive, HandlerOf, MsgType, lasers
  <2>. QED  BY <2>1
<1>2. CASE SwitchStep
  <2>1. todo # << >> /\ todo' = Tail(todo) /\ UNCHANGED <<handler, dac, level>>
    BY <1>2 DEF SwitchStep, lasers
  <2>2. todo \in Seq(Ops)
    BY DEF ExecInv, SwitchType
  <2>3. /\ Head(todo) = todo[1] /\ 1 \in DOMAIN todo
        /\ \A i \in DOMAIN Tail(todo) : i + 1 \in DOMAIN todo /\ Tail(todo)[i] = todo[i + 1]
    BY <2>1, <2>2
  <2>4. UNCHANGED state
    BY <1>2, <2>3 DEF SwitchStep
  <2>. QED  BY <2>1, <2>3, <2>4
<1>3. CASE SwitchesDone \/ Refuse \/ GetRoutes \/ GetSwitch \/ GetAttenuator \/ TimedOut
  <2>1. handler' = "none" /\ UNCHANGED <<todo, state, dac, level>>
    BY <1>3 DEF SwitchesDone, Refuse, GetRoutes, GetSwitch, GetAttenuator, TimedOut, Done, lasers
  <2>. QED  BY <2>1
<1>4. CASE SetSwitches \/ SetAttenuator
  BY <1>4 DEF SetSwitches, SetAttenuator, Serves
<1>5. CASE Ask
  <2>1. PICK v, heard \in BOOLEAN :
          level' = [l \in Lasers |-> IF handler = "set" /\ heard /\ dest' \in {l, Broadcast}
                                       THEN v ELSE level[l]]
    BY <1>5 DEF Ask
  <2>2. \A l \in Lasers : level'[l] = level[l]
    BY <2>1
  <2>3. handler' \in {handler, "none"} /\ UNCHANGED <<todo, state, dac>>
    BY <1>5 DEF Ask, Done
  <2>. QED  BY <2>2, <2>3
<1>6. CASE Answered \/ AnswerLost
  <2>1. handler' \in {handler, "none"} /\ UNCHANGED <<todo, state, dac, level>>
    BY <1>6 DEF Answered, AnswerLost, Done
  <2>. QED  BY <2>1
<1>7. CASE Restart
  <2>1. /\ handler' = "none" /\ todo' = Constructors /\ state' = [sw \in Switches |-> "U"]
        /\ UNCHANGED <<dac, level>>
    BY <1>7 DEF Restart
  <2>. QED  BY <2>1, ConstructorsFacts
<1>8. CASE UNCHANGED devVars
  <2>1. UNCHANGED <<handler, todo, state, dac, level>>
    BY <1>8 DEF devVars, lasers
  <2>. QED  BY <2>1
<1>. QED
  BY <1>1, <1>2, <1>3, <1>4, <1>5, <1>6, <1>7, <1>8, Zenon DEF DevNext, Executor

\* With the words string_to_msgtype() knows (pico_zyre.cpp:76) no sequence of commands,
\* failures and restarts sets anything: every switch reports "unknown", every
\* attenuator and laser keeps what it had at power-up.
THEOREM NothingIsEverSet == ~KnowsSet /\ DevSpec => []NothingSet
<1>. SUFFICES ASSUME ~KnowsSet
              PROVE  DevSpec => []NothingSet
  OBVIOUS
<1>1. DevInit => NothingSetInv
  BY NothingSetStart
<1>2. ExecInv /\ NothingSetInv /\ [DevNext]_devVars => NothingSetInv'
  BY NothingSetStep
<1>3. NothingSetInv => NothingSet
  BY DEF NothingSetInv
<1>. QED  BY <1>1, <1>2, <1>3, ExecInvHolds, PTL DEF DevSpec

----------------------------------------------------------------------------
(* The lasers on their line.                                               *)

LEMMA InitLevels == DevInit => LevelsKnown
BY DEF DevInit, LevelsKnown

LEMMA NextLevels ==
    ASSUME ExecInv, LevelsKnown, [DevNext]_devVars
    PROVE  LevelsKnown'
<1>1. CASE Ask
  BY <1>1, AskType
<1>2. CASE UNCHANGED <<level, had, late>>
  BY <1>2 DEF LevelsKnown
<1>3. CASE UNCHANGED <<level, had>> /\ late # << >> /\ late' = Tail(late)
  BY <1>3, LateTail DEF LevelsKnown, ExecInv
<1>4. CASE UNCHANGED <<level, had>> /\ late' = << >>
  BY <1>4 DEF LevelsKnown
<1>5. \/ Ask
      \/ UNCHANGED <<level, had, late>>
      \/ UNCHANGED <<level, had>> /\ late # << >> /\ late' = Tail(late)
      \/ UNCHANGED <<level, had>> /\ late' = << >>
  <2>1. CASE \E key \in Keys : \E c \in Commands(key) : Receive(c)
    BY <2>1 DEF Receive, lasers
  <2>2. CASE \/ SwitchStep \/ SwitchesDone \/ Refuse \/ GetRoutes \/ GetSwitch \/ SetSwitches
             \/ TimedOut \/ GetAttenuator \/ SetAttenuator
    BY <2>2 DEF SwitchStep, SwitchesDone, Refuse, GetRoutes, GetSwitch, SetSwitches, TimedOut,
                GetAttenuator, SetAttenuator, lasers
  <2>3. CASE Answered \/ AnswerLost
    BY <2>3 DEF Answered, AnswerLost
  <2>4. CASE Restart
    BY <2>4 DEF Restart
  <2>5. CASE UNCHANGED devVars
    BY <2>5 DEF devVars, lasers
  <2>. QED  BY <2>1, <2>2, <2>3, <2>4, <2>5, Zenon DEF DevNext, Executor
<1>. QED  BY <1>1, <1>2, <1>3, <1>4, <1>5

LEMMA LevelsHold == DevSpec => []LevelsKnown
BY InitLevels, NextLevels, ExecInvHolds, PTL DEF DevSpec

\* Only Ask changes a level.
LEMMA LevelsOnlyByAsk ==
    ASSUME [DevNext]_devVars
    PROVE  Ask \/ UNCHANGED level
<1>1. CASE \E key \in Keys : \E c \in Commands(key) : Receive(c)
  BY <1>1 DEF Receive, lasers
<1>2. CASE \/ SwitchStep \/ SwitchesDone \/ Refuse \/ GetRoutes \/ GetSwitch \/ SetSwitches
           \/ TimedOut \/ GetAttenuator \/ SetAttenuator
  BY <1>2 DEF SwitchStep, SwitchesDone, Refuse, GetRoutes, GetSwitch, SetSwitches, TimedOut,
              GetAttenuator, SetAttenuator, lasers
<1>3. CASE Answered \/ AnswerLost \/ Restart \/ UNCHANGED devVars
  BY <1>3 DEF Answered, AnswerLost, Restart, devVars, lasers
<1>. QED  BY <1>1, <1>2, <1>3, Zenon DEF DevNext, Executor

\* LasersApart for every set of lasers: whatever fails, is late or is lost, a
\* command reaches the laser its id names, and no other unless that id is the
\* broadcast address (maiman.cpp, nanomodbus's destination).
THEOREM LasersApartHolds == DevSpec => LasersApart
<1>1. ASSUME ExecInv, [DevNext]_devVars
      PROVE  [ \A l \in Lasers : level'[l] # level[l] => command.id \in {l, Broadcast} ]_devVars
  <2>1. CASE UNCHANGED level
    BY <2>1
  <2>2. CASE Ask
    <3>1. dest' = command.id
      BY <2>2, AskFacts, <1>1
    <3>2. \E v \in Raw, write, heard \in BOOLEAN : WrittenAs(v, write, heard)
      BY <2>2, AskFacts, <1>1, Zenon
    <3>3. \A l \in Lasers : level'[l] # level[l] => dest' \in {l, Broadcast}
      BY <3>2, WrittenOnlyThere, Zenon
    <3>. QED  BY <3>1, <3>3
  <2>. QED  BY <1>1, <2>1, <2>2, LevelsOnlyByAsk
<1>. QED  BY <1>1, ExecInvHolds, PTL DEF DevSpec, LasersApart

\* LevelFromItsLaser for every set of lasers and any number of late answers: a
\* level is reported only for the laser asked, and is one that laser has had
\* (read_serial() gives the oldest answer there is; nanomodbus compares the unit
\* and the function).
THEOREM LevelFromItsLaserHolds == DevSpec => LevelFromItsLaser
<1>1. ASSUME ExecInv, LevelsKnown, [DevNext]_devVars
      PROVE  [ dpc = "wait" /\ answer'.kind = "value" => answer'.value \in had[command.id] ]_devVars
  <2>. SUFFICES ASSUME dpc = "wait", answer'.kind = "value", ~UNCHANGED devVars
                PROVE  answer'.value \in had[command.id]
    OBVIOUS
  <2>1. answer.kind = "none" /\ dest = command.id
    BY <1>1 DEF ExecInv, AtWork
  <2>2. answer' # answer
    BY <2>1
  <2>3. Says("none").kind = "none" /\ Says("error").kind = "error"
    BY DEF Says
  <2>4. Answered
    <3>1. ~(\E key \in Keys : \E c \in Commands(key) : Receive(c))
      BY DEF Receive
    <3>2. /\ ~SwitchStep /\ ~SwitchesDone /\ ~Refuse /\ ~GetRoutes /\ ~GetSwitch /\ ~SetSwitches
          /\ ~SetAttenuator /\ ~GetAttenuator /\ ~Ask
      BY DEF SwitchStep, SwitchesDone, Refuse, GetRoutes, GetSwitch, SetSwitches, SetAttenuator,
             GetAttenuator, Ask, Serves
    <3>3. ~TimedOut
      BY <2>3 DEF TimedOut, Done
    <3>4. ~AnswerLost
      BY <2>2 DEF AnswerLost
    <3>5. ~Restart
      BY <2>3 DEF Restart
    <3>. QED  BY <1>1, <3>1, <3>2, <3>3, <3>4, <3>5, Zenon DEF DevNext, Executor
  <2>. DEFINE m == Head(late)
  <2>5. late # << >> /\ m = late[1] /\ 1 \in DOMAIN late
    BY <1>1, <2>4, LateTail DEF Answered, ExecInv
  <2>6. answer' = IF ~Accepts(m) THEN Says("error")
                  ELSE IF m.fc = "set" THEN Says("ok") ELSE Reports(m.value)
    BY <2>4 DEF Answered, Done
  <2>7. Says("error").kind # "value" /\ Says("ok").kind # "value"
    BY DEF Says
  <2>8. Accepts(m) /\ answer' = Reports(m.value)
    BY <2>6, <2>7, Zenon
  <2>9. m.unit = dest /\ answer'.value = m.value
    BY <2>8 DEF Accepts, Reports
  <2>. QED  BY <1>1, <2>1, <2>5, <2>9 DEF LevelsKnown
<1>. QED  BY <1>1, ExecInvHolds, LevelsHold, PTL DEF DevSpec, LevelFromItsLaser

----------------------------------------------------------------------------
(* The coils of the switches.                                              *)

\* Switch sw stands at s, unless a transfer of that pin failed, or a pin of the
\* switch has been left on or never made an output.
SettledAt(sw, s) ==
    <<sw, s>> \notin poor /\ (\A x \in Sides : <<sw, x>> \notin out \union inputs)
        => position[sw] = s

\* The same while pin p itself may still be on.
Pulled(p) ==
    p \notin poor \union inputs
        /\ (\A x \in Sides \ {p[2]} : <<p[1], x>> \notin out \union inputs)
    => position[p[1]] = p[2]

\* What is left to do: nothing is recorded before the set-up is over, and no pulse
\* is cut.
PlanKept ==
    /\ dpc = "boot" => /\ \A i \in DOMAIN todo : todo[i].kind \in {"mode", "low"}
                       /\ \A sw \in Switches : state[sw] = "U"
    /\ dpc = "i2c" => Follows(todo)

\* Whatever is on is going to be switched off, unless a transfer of it failed.
OffAhead == \A p \in out \ poor : \E i \in DOMAIN todo : todo[i] \in {Op("low", p), Op("release", p)}

\* The state of a switch nothing is left to be done to is where it stands.
StatesSettled ==
    \A sw \in Switches :
        state[sw] # "U" /\ (\A i \in DOMAIN todo : todo[i].pin[1] # sw) => SettledAt(sw, state[sw])

\* A pulse that is about to end has done its work.
PulseDone ==
    todo # << >> => LET op == Head(todo)
                    IN  /\ op.kind = "release" => Pulled(op.pin)
                        /\ op.kind = "state" => SettledAt(op.pin[1], op.pin[2])

SwitchInv == PlanKept /\ OffAhead /\ StatesSettled /\ PulseDone

LEMMA ConstructorsSafe ==
    ASSUME todo' = Constructors, state' = [sw \in Switches |-> "U"], dpc' = "boot",
           (out \ poor)' \subseteq Pins
    PROVE  SwitchInv'
<1>1. /\ todo' \in Seq(Ops)
      /\ \A k \in DOMAIN todo' : todo'[k].kind \in {"mode", "low"}
      /\ \A p \in Pins : \E k \in DOMAIN todo' : todo'[k] = Op("low", p)
  BY ConstructorsFacts
<1>2. PlanKept'
  BY <1>1 DEF PlanKept
<1>3. OffAhead'
  BY <1>1 DEF OffAhead
<1>4. StatesSettled'
  BY DEF StatesSettled
<1>5. PulseDone'
  <2>1. todo' # << >> => Head(todo').kind \in {"mode", "low"}
    <3>1. todo' # << >> => 1 \in DOMAIN todo' /\ Head(todo') = todo'[1]
      BY <1>1
    <3>. QED  BY <1>1, <3>1
  <2>. QED  BY <2>1 DEF PulseDone
<1>. QED  BY <1>2, <1>3, <1>4, <1>5 DEF SwitchInv

LEMMA InitSwitchInv == DevInit => SwitchInv
<1>. SUFFICES ASSUME DevInit
              PROVE  SwitchInv
  OBVIOUS
<1>1. todo = Constructors /\ dpc = "boot" /\ out = Pins /\ poor = {}
      /\ \A sw \in Switches : state[sw] = "U"
  BY DEF DevInit
<1>2. /\ todo \in Seq(Ops)
      /\ \A k \in DOMAIN todo : todo[k].kind \in {"mode", "low"}
      /\ \A p \in Pins : \E k \in DOMAIN todo : todo[k] = Op("low", p)
  BY <1>1, ConstructorsFacts
<1>3. PlanKept /\ OffAhead /\ StatesSettled
  BY <1>1, <1>2 DEF PlanKept, OffAhead, StatesSettled
<1>4. PulseDone
  <2>1. todo # << >> => Head(todo).kind \in {"mode", "low"}
    <3>1. todo # << >> => 1 \in DOMAIN todo /\ Head(todo) = todo[1]
      BY <1>2
    <3>. QED  BY <1>2, <3>1
  <2>. QED  BY <2>1 DEF PulseDone
<1>. QED  BY <1>3, <1>4 DEF SwitchInv

\* What a transfer of pin q does to the pins, and to a switch no coil of which is
\* driven, or just one.
LEMMA TransferFacts ==
    ASSUME SwitchType, NEW op, NEW q \in Pins, op.pin = q, op.kind # "state",
           NEW ok \in BOOLEAN, NEW reached \in BOOLEAN, Transfer(op, ok, reached)
    PROVE  /\ \A p \in Pins \ {q} : /\ p \in out' <=> p \in out
                                    /\ p \in inputs' <=> p \in inputs
                                    /\ p \in poor' <=> p \in poor
           /\ out' \subseteq Pins /\ inputs' \subseteq inputs
           /\ q \notin poor' => /\ op.kind \in {"low", "release"} => q \notin out'
                                /\ op.kind = "high" => q \in out'
                                /\ op.kind \in {"mode", "high"} => q \notin poor
                                /\ op.kind = "mode" => (q \in out' <=> q \in out)
                                /\ op.kind # "low" => q \notin poor
                                /\ op.kind # "mode" => (q \in inputs' <=> q \in inputs)
           /\ \A sw \in Switches :
                  /\ (\A x \in Sides : <<sw, x>> \notin out') => position'[sw] = position[sw]
                  /\ \A s \in Sides :
                         (/\ <<sw, s>> \in out' \ inputs'
                          /\ \A x \in Sides \ {s} : <<sw, x>> \notin out')
                         => position'[sw] = s
<1>. DEFINE r == IF reached THEN Registers(op) ELSE [out |-> out, inputs |-> inputs]
<1>1. /\ position' \in Settles(position, out', inputs')
      /\ poor' = IF ~ok THEN poor \union {q}
                 ELSE IF op.kind = "low" THEN poor \ {q} ELSE poor
  BY DEF Transfer
<1>0. /\ out' = r.out /\ inputs' = r.inputs
      /\ reached => r = Registers(op)
      /\ ~reached => ~ok /\ r.out = out /\ r.inputs = inputs
  BY DEF Transfer
<1>. HIDE DEF r
<1>2. /\ op.kind = "mode" => Registers(op).out = out /\ Registers(op).inputs = inputs \ {q}
      /\ op.kind = "high" => Registers(op).out = out \union {q} /\ Registers(op).inputs = inputs
      /\ op.kind \notin {"mode", "high"} =>
             Registers(op).out = out \ {q} /\ Registers(op).inputs = inputs
  BY DEF Registers
<1>3. /\ out' \subseteq out \union {q} /\ out \ {q} \subseteq out'
      /\ inputs' \subseteq inputs /\ inputs \ {q} \subseteq inputs'
      /\ ok /\ op.kind = "high" => q \in out'
      /\ ok /\ op.kind \in {"low", "release"} => q \notin out'
      /\ op.kind = "mode" => out' = out
      /\ op.kind # "mode" => inputs' = inputs
  <2>1. CASE ~reached
    <3>1. out' = out /\ inputs' = inputs /\ ~ok
      BY <1>0, <2>1
    <3>. QED  BY <3>1
  <2>2. CASE reached
    <3>1. out' = Registers(op).out /\ inputs' = Registers(op).inputs
      BY <1>0, <2>2
    <3>2. CASE op.kind = "mode"
      BY <1>2, <3>1, <3>2
    <3>3. CASE op.kind = "high"
      BY <1>2, <3>1, <3>3
    <3>4. CASE op.kind \notin {"mode", "high"}
      BY <1>2, <3>1, <3>4
    <3>. QED  BY <3>2, <3>3, <3>4
  <2>. QED  BY <2>1, <2>2
<1>4. q \notin poor' => ok /\ (op.kind # "low" => q \notin poor)
  BY <1>1
<1>5. \A p \in Pins \ {q} : p \in poor' <=> p \in poor
  BY <1>1
<1>6. ASSUME NEW sw \in Switches
      PROVE  LET d == Driven(sw, out', inputs')
             IN  (d = {} => position'[sw] = position[sw]) /\ (d # {} => position'[sw] \in d)
  BY <1>1 DEF Settles
<1>7. ASSUME NEW sw \in Switches
      PROVE  /\ (\A x \in Sides : <<sw, x>> \notin out') => position'[sw] = position[sw]
             /\ \A s \in Sides :
                    (/\ <<sw, s>> \in out' \ inputs'
                     /\ \A x \in Sides \ {s} : <<sw, x>> \notin out')
                    => position'[sw] = s
  <2>1. (\A x \in Sides : <<sw, x>> \notin out') => Driven(sw, out', inputs') = {}
    BY DEF Driven
  <2>2. ASSUME NEW s \in Sides, <<sw, s>> \in out' \ inputs',
               \A x \in Sides \ {s} : <<sw, x>> \notin out'
        PROVE  Driven(sw, out', inputs') = {s}
    BY <2>2 DEF Driven
  <2>. QED  BY <1>6, <2>1, <2>2
<1>8. out' \subseteq Pins
  BY <1>3 DEF SwitchType
<1>. QED  BY <1>3, <1>4, <1>5, <1>7, <1>8

\* The rest of the transfers, after the next one.
LEMMA RestOfTodo ==
    ASSUME SwitchType, todo # << >>
    PROVE  /\ Head(todo) = todo[1] /\ 1 \in DOMAIN todo
           /\ \A i \in DOMAIN Tail(todo) : i + 1 \in DOMAIN todo /\ Tail(todo)[i] = todo[i + 1]
           /\ \A i \in DOMAIN todo : i # 1 => i - 1 \in DOMAIN Tail(todo) /\ Tail(todo)[i - 1] = todo[i]
           /\ Tail(todo) # << >> => /\ 1 \in DOMAIN Tail(todo)
                                    /\ 2 \in DOMAIN todo /\ Head(Tail(todo)) = todo[2]
           /\ 2 \in DOMAIN todo => Tail(todo) # << >> /\ Head(Tail(todo)) = todo[2]
<1>. DEFINE t == todo
            n == Len(t)
            u == Tail(t)
<1>1. /\ n \in Nat \ {0} /\ DOMAIN t = 1 .. n /\ Head(t) = t[1]
      /\ u \in Seq(Ops) /\ Len(u) = n - 1 /\ DOMAIN u = 1 .. n - 1
      /\ \A i \in 1 .. n - 1 : u[i] = t[i + 1]
      /\ (u # << >> => Head(u) = u[1]) /\ (u # << >> <=> n - 1 # 0)
  <2>1. t \in Seq(Ops) /\ t # << >>
    BY DEF SwitchType
  <2>. HIDE DEF t
  <2>2. n \in Nat \ {0} /\ DOMAIN t = 1 .. n /\ Head(t) = t[1]
    BY <2>1
  <2>3. /\ u \in Seq(Ops) /\ Len(u) = n - 1 /\ DOMAIN u = 1 .. n - 1
        /\ \A i \in 1 .. n - 1 : u[i] = t[i + 1]
    BY <2>1
  <2>. HIDE DEF u
  <2>4. (u # << >> => Head(u) = u[1]) /\ (u # << >> <=> Len(u) # 0)
    BY <2>3
  <2>. QED  BY <2>2, <2>3, <2>4
<1>. HIDE DEF t, n, u
<1>2. \A i \in 1 .. n - 1 : i + 1 \in 1 .. n
  BY <1>1
<1>3. \A i \in 1 .. n : i # 1 => i - 1 \in 1 .. n - 1 /\ u[i - 1] = t[i]
  <2>. SUFFICES ASSUME NEW i \in 1 .. n, i # 1
                PROVE  i - 1 \in 1 .. n - 1 /\ u[i - 1] = t[i]
    OBVIOUS
  <2>1. i - 1 \in 1 .. n - 1 /\ (i - 1) + 1 = i
    BY <1>1
  <2>. QED  BY <1>1, <2>1
<1>4. 1 \in 1 .. n
  BY <1>1
<1>5. n - 1 # 0 <=> 2 \in 1 .. n
  BY <1>1
<1>6. n - 1 # 0 => 1 \in 1 .. n - 1 /\ 1 + 1 = 2
  BY <1>1
<1>7. u # << >> => 1 \in 1 .. n - 1 /\ 2 \in 1 .. n /\ Head(u) = t[2]
  BY <1>1, <1>5, <1>6
<1>8. 2 \in 1 .. n => u # << >> /\ Head(u) = t[2]
  BY <1>1, <1>5, <1>7
<1>. QED  BY <1>1, <1>2, <1>3, <1>4, <1>7, <1>8 DEF t, n, u

LEMMA TailPlan ==
    ASSUME ExecInv, PlanKept, SwitchStep
    PROVE  PlanKept'
<1>1. /\ dpc \in {"boot", "i2c"} /\ todo # << >> /\ todo' = Tail(todo) /\ dpc' = dpc
  BY DEF SwitchStep
<1>2. SwitchType
  BY DEF ExecInv
<1>3. CASE dpc = "boot"
  <2>1. Head(todo).kind # "state"
    BY <1>1, <1>2, <1>3, RestOfTodo DEF PlanKept
  <2>2. UNCHANGED state
    BY <2>1 DEF SwitchStep
  <2>. QED  BY <1>1, <1>2, <1>3, <2>2, RestOfTodo DEF PlanKept
<1>4. CASE dpc = "i2c"
  BY <1>1, <1>2, <1>4, FollowsTail DEF PlanKept, SwitchType
<1>. QED  BY <1>1, <1>3, <1>4

LEMMA TailOffAhead ==
    ASSUME ExecInv, SwitchInv, SwitchStep
    PROVE  OffAhead'
<1>1. /\ dpc \in {"boot", "i2c"} /\ todo # << >> /\ todo' = Tail(todo)
  BY DEF SwitchStep
<1>2. SwitchType /\ OffAhead /\ PlanKept
  BY DEF ExecInv, SwitchInv
<1>. DEFINE op == Head(todo)
            q  == op.pin
<1>3. op = todo[1] /\ 1 \in DOMAIN todo /\ op.kind \in {"mode", "low", "high", "release", "state"}
      /\ q \in Pins /\ op = Op(op.kind, q)
  BY <1>1, <1>2, HeadOp, RestOfTodo DEF Ops
<1>. HIDE DEF op
\* A transfer other than the next one is still to come.
<1>4. ASSUME NEW p, NEW i \in DOMAIN todo, todo[i] \in {Op("low", p), Op("release", p)},
             op \notin {Op("low", p), Op("release", p)}
      PROVE  \E j \in DOMAIN todo' : todo'[j] \in {Op("low", p), Op("release", p)}
  <2>1. i # 1
    BY <1>3, <1>4
  <2>. QED  BY <1>1, <1>2, <1>4, <2>1, RestOfTodo
<1>5. CASE op.kind = "state"
  <2>1. UNCHANGED <<out, poor>>
    BY <1>5 DEF SwitchStep, expander, op
  <2>2. \A p : op \notin {Op("low", p), Op("release", p)}
    BY <1>5 DEF Op
  <2>. QED  BY <1>2, <1>4, <2>1, <2>2 DEF OffAhead
<1>6. CASE op.kind # "state"
  <2>1. PICK ok \in BOOLEAN, reached \in BOOLEAN : Transfer(op, ok, reached)
    BY <1>6 DEF SwitchStep, op
  <2>2. /\ \A p \in Pins \ {q} : (p \in out' <=> p \in out) /\ (p \in poor' <=> p \in poor)
        /\ out' \subseteq Pins
        /\ q \notin poor' => /\ op.kind \in {"low", "release"} => q \notin out'
                             /\ op.kind = "mode" => (q \in out' <=> q \in out) /\ q \notin poor
    BY <1>2, <1>3, <1>6, <2>1, TransferFacts
  <2>. SUFFICES ASSUME NEW p \in out' \ poor'
                PROVE  \E j \in DOMAIN todo' : todo'[j] \in {Op("low", p), Op("release", p)}
    BY DEF OffAhead
  <2>3. CASE p # q
    <3>1. p \in out \ poor
      BY <2>2, <2>3
    <3>2. op \notin {Op("low", p), Op("release", p)}
      BY <1>3, <2>3 DEF Op
    <3>. QED  BY <1>2, <1>4, <3>1, <3>2 DEF OffAhead
  <2>4. CASE p = q /\ op.kind = "high"
    <3>1. dpc = "i2c"
      BY <1>1, <1>2, <1>3, <2>4 DEF PlanKept
    <3>2. 2 \in DOMAIN todo /\ todo[2] = Op("release", q)
      BY <1>2, <1>3, <2>4, <3>1 DEF PlanKept, Follows
    <3>. QED  BY <1>1, <1>2, <2>4, <3>2, RestOfTodo
  <2>5. CASE p = q /\ op.kind = "mode"
    <3>1. p \in out \ poor
      BY <2>2, <2>5
    <3>2. op \notin {Op("low", p), Op("release", p)}
      BY <2>5 DEF Op
    <3>. QED  BY <1>2, <1>4, <3>1, <3>2 DEF OffAhead
  <2>. QED  BY <1>3, <1>6, <2>2, <2>3, <2>4, <2>5
<1>. QED  BY <1>5, <1>6

LEMMA TailStates ==
    ASSUME ExecInv, SwitchInv, SwitchStep
    PROVE  StatesSettled'
<1>1. /\ dpc \in {"boot", "i2c"} /\ todo # << >> /\ todo' = Tail(todo)
  BY DEF SwitchStep
<1>2. SwitchType /\ PlanKept /\ StatesSettled /\ PulseDone
  BY DEF ExecInv, SwitchInv
<1>. DEFINE op == Head(todo)
            q  == op.pin
<1>3. /\ op = todo[1] /\ 1 \in DOMAIN todo /\ op.kind \in {"mode", "low", "high", "release", "state"}
      /\ q \in Pins /\ q[1] \in Switches /\ q[2] \in Sides /\ op = Op(op.kind, q)
  BY <1>1, <1>2, HeadOp, RestOfTodo DEF Ops
<1>4. op.kind = "state" => SettledAt(q[1], q[2])
  BY <1>1, <1>2 DEF PulseDone
<1>. HIDE DEF op
<1>. SUFFICES ASSUME NEW sw \in Switches, state'[sw] # "U",
                     \A i \in DOMAIN todo' : todo'[i].pin[1] # sw
              PROVE  SettledAt(sw, state[sw])'
  BY DEF StatesSettled
\* Nothing was left to be done to a switch that is not the one of the transfer.
<1>5. q[1] # sw => \A i \in DOMAIN todo : todo[i].pin[1] # sw
  <2>. SUFFICES ASSUME q[1] # sw, NEW i \in DOMAIN todo
                PROVE  todo[i].pin[1] # sw
    OBVIOUS
  <2>1. CASE i = 1
    BY <1>3, <2>1
  <2>2. CASE i # 1
    <3>. DEFINE k == i - 1
    <3>1. k \in DOMAIN Tail(todo) /\ Tail(todo)[k] = todo[i]
      BY <1>1, <1>2, <2>2, RestOfTodo
    <3>2. k \in DOMAIN todo' /\ todo'[k] = todo[i]
      BY <1>1, <3>1
    <3>. HIDE DEF k
    <3>. QED  BY <3>2
  <2>. QED  BY <2>1, <2>2
<1>6. CASE op.kind = "state"
  <2>1. state' = [state EXCEPT ![q[1]] = q[2]] /\ UNCHANGED <<out, inputs, position, poor>>
    BY <1>6 DEF SwitchStep, expander, op
  <2>2. CASE sw = q[1]
    <3>1. state'[sw] = q[2]
      BY <1>2, <1>3, <2>1, <2>2 DEF SwitchType
    <3>. QED  BY <1>4, <1>6, <2>1, <2>2, <3>1 DEF SettledAt
  <2>3. CASE sw # q[1]
    <3>1. state'[sw] = state[sw]
      BY <1>2, <2>1, <2>3 DEF SwitchType
    <3>2. SettledAt(sw, state[sw])
      BY <1>2, <1>5, <2>3, <3>1 DEF StatesSettled
    <3>. QED  BY <2>1, <3>1, <3>2 DEF SettledAt
  <2>. QED  BY <2>2, <2>3
<1>7. CASE op.kind # "state"
  <2>1. PICK ok \in BOOLEAN, reached \in BOOLEAN : Transfer(op, ok, reached)
    BY <1>7 DEF SwitchStep, op
  <2>2. state' = state
    BY <1>7 DEF SwitchStep, op
  <2>3. dpc = "i2c"
    BY <1>1, <1>2, <2>2 DEF PlanKept
  <2>4. q[1] # sw
    <3>1. 2 \in DOMAIN todo /\ todo[2].pin = q
      <4>1. 1 + 1 = 2 /\ op.kind \in {"low", "high", "release"}
        BY <1>2, <1>3, <1>7, <2>3 DEF PlanKept, Follows
      <4>2. 2 \in DOMAIN todo /\ todo[2] \in {Op("high", q), Op("release", q), Op("state", q)}
        BY <1>2, <1>3, <2>3, <4>1 DEF PlanKept, Follows
      <4>. QED  BY <4>2 DEF Op
    <3>2. 1 \in DOMAIN todo' /\ todo'[1] = todo[2]
      <4>1. 2 # 1 /\ 2 - 1 = 1
        OBVIOUS
      <4>. QED  BY <1>1, <1>2, <3>1, <4>1, RestOfTodo
    <3>. QED  BY <3>1, <3>2
  <2>5. SettledAt(sw, state[sw])
    BY <1>2, <1>5, <2>2, <2>4 DEF StatesSettled
  <2>6. /\ \A p \in Pins \ {q} : /\ p \in out' <=> p \in out
                                 /\ p \in inputs' <=> p \in inputs
                                 /\ p \in poor' <=> p \in poor
        /\ (\A x \in Sides : <<sw, x>> \notin out') => position'[sw] = position[sw]
    BY <1>2, <1>3, <1>7, <2>1, TransferFacts
  <2>7. \A x \in Sides : <<sw, x>> \in Pins \ {q}
    BY <2>4 DEF Pins
  <2>8. state[sw] \in Sides
    BY <1>2, <2>2 DEF SwitchType
  <2>. QED  BY <2>2, <2>5, <2>6, <2>7, <2>8 DEF SettledAt
<1>. QED  BY <1>6, <1>7

LEMMA TailPulse ==
    ASSUME ExecInv, SwitchInv, SwitchStep
    PROVE  PulseDone'
<1>1. /\ dpc \in {"boot", "i2c"} /\ todo # << >> /\ todo' = Tail(todo)
  BY DEF SwitchStep
<1>2. SwitchType /\ PlanKept /\ PulseDone
  BY DEF ExecInv, SwitchInv
<1>0. PICK op : op = Head(todo)
  OBVIOUS
<1>. DEFINE q == op.pin
<1>3. /\ op = todo[1] /\ 1 \in DOMAIN todo /\ op.kind \in {"mode", "low", "high", "release", "state"}
      /\ q \in Pins /\ q[1] \in Switches /\ q[2] \in Sides /\ q = <<q[1], q[2]>>
  BY <1>0, <1>1, <1>2, HeadOp, RestOfTodo DEF Ops
<1>4. op.kind = "release" => Pulled(q)
  BY <1>0, <1>1, <1>2 DEF PulseDone
<1>. SUFFICES ASSUME todo' # << >>, Head(todo').kind \in {"release", "state"}
              PROVE  /\ Head(todo').kind = "release" => Pulled(Head(todo).pin)'
                     /\ Head(todo').kind = "state" =>
                            SettledAt(Head(todo).pin[1], Head(todo).pin[2])'
  BY DEF PulseDone
<1>5. 2 \in DOMAIN todo /\ Head(todo') = todo[2] /\ 1 + 1 = 2
  BY <1>1, <1>2, RestOfTodo
<1>6. dpc = "i2c"
  BY <1>1, <1>2, <1>5 DEF PlanKept
<1>7. /\ op.kind = "low" => todo[2] = Op("high", q)
      /\ op.kind = "high" => todo[2] = Op("release", q)
      /\ op.kind = "release" => todo[2] = Op("state", q)
      /\ op.kind = "state" => todo[2].kind = "low"
      /\ op.kind # "mode"
  BY <1>2, <1>3, <1>5, <1>6 DEF PlanKept, Follows
<1>8. op.kind \in {"high", "release"} /\ Head(todo').pin = q
      /\ (op.kind = "high" <=> Head(todo').kind = "release")
  BY <1>3, <1>5, <1>7 DEF Op
<1>9. PICK ok \in BOOLEAN, reached \in BOOLEAN : Transfer(op, ok, reached)
  BY <1>0, <1>8 DEF SwitchStep
<1>10. /\ \A p \in Pins \ {q} : /\ p \in out' <=> p \in out
                                /\ p \in inputs' <=> p \in inputs
                                /\ p \in poor' <=> p \in poor
       /\ q \notin poor' => /\ op.kind = "release" => q \notin out'
                            /\ op.kind = "high" => q \in out'
                            /\ q \notin poor /\ (q \in inputs' <=> q \in inputs)
       /\ (\A x \in Sides : <<q[1], x>> \notin out') => position'[q[1]] = position[q[1]]
       /\ (/\ <<q[1], q[2]>> \in out' \ inputs'
           /\ \A x \in Sides \ {q[2]} : <<q[1], x>> \notin out') => position'[q[1]] = q[2]
  BY <1>2, <1>3, <1>8, <1>9, TransferFacts
<1>11. ASSUME op.kind = "high"
       PROVE  Pulled(q)'
  BY <1>3, <1>10, <1>11 DEF Pulled
<1>12. ASSUME op.kind = "release"
       PROVE  SettledAt(q[1], q[2])'
  <2>. SUFFICES ASSUME q \notin poor', \A x \in Sides : <<q[1], x>> \notin out' \union inputs'
                PROVE  position'[q[1]] = q[2]
    BY <1>3 DEF SettledAt
  <2>1. \A x \in Sides \ {q[2]} : <<q[1], x>> \in Pins \ {q}
    BY <1>3 DEF Pins
  <2>2. q \notin poor \union inputs
    BY <1>3, <1>10
  <2>3. \A x \in Sides \ {q[2]} : <<q[1], x>> \notin out \union inputs
    BY <1>10, <2>1
  <2>4. position[q[1]] = q[2]
    BY <1>4, <1>12, <2>2, <2>3 DEF Pulled
  <2>. QED  BY <1>10, <2>4
<1>. QED  BY <1>8, <1>11, <1>12 DEF Pulled, SettledAt

\* Steps that leave the expander and what is left to do alone.
LEMMA SwitchesAlone ==
    ASSUME SwitchInv, UNCHANGED <<todo, state, out, inputs, position, poor>>,
           dpc' \notin {"boot", "i2c"} \/ dpc' = dpc
    PROVE  SwitchInv'
<1>1. PlanKept' /\ OffAhead'
  BY DEF SwitchInv, PlanKept, OffAhead
<1>2. StatesSettled'
  BY DEF SwitchInv, StatesSettled, SettledAt
<1>3. PulseDone'
  BY DEF SwitchInv, PulseDone, Pulled, SettledAt
<1>. QED  BY <1>1, <1>2, <1>3 DEF SwitchInv

LEMMA StartSafe ==
    ASSUME ExecInv, SwitchInv, SetSwitches
    PROVE  SwitchInv'
<1>1. /\ todo' \in Seq(Ops) /\ Follows(todo') /\ FromLow(todo') /\ dpc' = "i2c"
      /\ dpc = "handle"
      /\ UNCHANGED <<state, out, inputs, position, poor>>
  <2>1. ExecInv' /\ Follows(todo') /\ FromLow(todo') /\ dpc' = "i2c" /\ dpc = "handle"
    BY SetSwitchesType
  <2>2. UNCHANGED <<state, out, inputs, position, poor>>
    BY DEF SetSwitches, expander
  <2>. QED  BY <2>1, <2>2 DEF ExecInv, SwitchType
<1>2. todo = << >>
  BY <1>1 DEF ExecInv, AtWork
<1>3. out \ poor = {} /\ \A sw \in Switches : state[sw] # "U" => SettledAt(sw, state[sw])
  BY <1>2 DEF SwitchInv, OffAhead, StatesSettled
<1>4. PlanKept' /\ OffAhead'
  BY <1>1, <1>3 DEF PlanKept, OffAhead
<1>5. StatesSettled'
  BY <1>1, <1>3 DEF StatesSettled, SettledAt
<1>6. PulseDone'
  BY <1>1 DEF PulseDone, FromLow
<1>. QED  BY <1>4, <1>5, <1>6 DEF SwitchInv

LEMMA NextSwitchInv ==
    ASSUME ExecInv, SwitchInv, [DevNext]_devVars
    PROVE  SwitchInv'
<1>1. CASE SwitchStep
  BY <1>1, TailPlan, TailOffAhead, TailStates, TailPulse DEF SwitchInv
<1>2. CASE SetSwitches
  BY <1>2, StartSafe
<1>3. CASE Restart
  <2>1. /\ todo' = Constructors /\ state' = [sw \in Switches |-> "U"] /\ dpc' = "boot"
        /\ UNCHANGED <<out, poor>>
    BY <1>3 DEF Restart, expander
  <2>2. (out \ poor)' \subseteq Pins
    BY <2>1 DEF ExecInv, SwitchType
  <2>. QED  BY <2>1, <2>2, ConstructorsSafe
<1>4. CASE \E key \in Keys : \E c \in Commands(key) : Receive(c)
  BY <1>4, SwitchesAlone DEF Receive, expander
<1>5. CASE \/ SwitchesDone \/ Refuse \/ GetRoutes \/ GetSwitch \/ TimedOut \/ GetAttenuator
           \/ SetAttenuator \/ Answered
  BY <1>5, SwitchesAlone DEF SwitchesDone, Refuse, GetRoutes, GetSwitch, TimedOut,
     GetAttenuator, SetAttenuator, Answered, Done, expander
<1>6. CASE Ask
  <2>1. dpc' \in {"idle", "wait"}
    BY <1>6, AskFacts DEF Done
  <2>2. UNCHANGED <<todo, state, out, inputs, position, poor>>
    BY <1>6, AskFacts
  <2>. QED  BY <2>1, <2>2, SwitchesAlone
<1>7. CASE AnswerLost \/ UNCHANGED devVars
  BY <1>7, SwitchesAlone DEF AnswerLost, devVars, expander
<1>. QED  BY <1>1, <1>2, <1>3, <1>4, <1>5, <1>6, <1>7, Zenon DEF DevNext, Executor

LEMMA SwitchInvHolds == DevSpec => [](ExecInv /\ SwitchInv)
BY InitExecInv, InitSwitchInv, NextExecInv, NextSwitchInv, PTL DEF DevSpec

\* CoilsReleased for any number of switches and any routes: whatever transfers
\* fail, and wherever the processor restarts, the executor is not idle before each
\* pin that is on, and whose transfers succeeded, has been written low again
\* (MEMSSwitch::pulse, the constructors).
THEOREM CoilsReleasedHolds == DevSpec => []CoilsReleased
<1>1. ExecInv /\ SwitchInv => CoilsReleased
  <2>. SUFFICES ASSUME ExecInv, SwitchInv, dpc = "idle"
                PROVE  out \subseteq poor
    BY DEF CoilsReleased, AtRest
  <2>1. todo = << >>
    BY DEF ExecInv, AtWork
  <2>. QED  BY <2>1 DEF SwitchInv, OffAhead
<1>. QED  BY <1>1, SwitchInvHolds, PTL

\* StateIsPosition for any number of switches and any routes: what a switch says
\* (MEMSSwitch::getState) is where it stands, unless a transfer of its pulse
\* failed or one of its pins was left on or an input.
THEOREM StateIsPositionHolds == DevSpec => []StateIsPosition
<1>1. ExecInv /\ SwitchInv => StateIsPosition
  <2>. SUFFICES ASSUME ExecInv, SwitchInv, NEW sw \in Switches, dpc = "idle",
                       state[sw] # "U", <<sw, state[sw]>> \notin poor,
                       \A s \in Sides : <<sw, s>> \notin out \union inputs
                PROVE  position[sw] = state[sw]
    BY DEF StateIsPosition, AtRest
  <2>1. todo = << >>
    BY DEF ExecInv, AtWork
  <2>2. SettledAt(sw, state[sw])
    BY <2>1 DEF SwitchInv, StatesSettled
  <2>. QED  BY <2>2 DEF SettledAt
<1>. QED  BY <1>1, SwitchInvHolds, PTL

----------------------------------------------------------------------------
(* Telemetry.                                                              *)

USE TelemetryAssumption

\* The sample in hand: once CONFIG is written the ADC converts, or has
\* converted, the channel of the key the sample will be named by.
Begun == converting = Channel[Key] \/ (converting = "none" /\ convert = Channel[Key])

SampleInHand ==
    /\ tpc = "start" <=> writes # << >>
    /\ clean /\ tpc = "start" /\ Len(writes) < 3 => Begun
    /\ clean /\ tpc = "delay" => Begun
    /\ clean /\ tpc = "read" => converting = "none" /\ convert = Channel[Key]
    /\ clean /\ tpc \in {"topic", "payload", "queue"} => voltage = Channel[Key]

\* photodiode_task is not writing msg, nor has it a sample to write.
Idle == tpc \in {"start", "delay", "read"}

\* msg holds one sample, but for its topic while the payload is being written.
MsgIsOneSample ==
    /\ tpc \in {"payload", "queue"} => msg.topic = Key
    /\ tpc = "queue" => msg = Sampled
    /\ tpc # "payload" /\ msg.clean /\ msg.topic \in DiodeKeys
           => msg.payload = Channel[msg.topic]
    /\ pub_out # << >> \/ coms \in {"topic", "payload", "send"} => msg.topic \in DiodeKeys

\* A copy that is not yet overtaken shows what msg holds, and is read as such.
CopiesShowMsg ==
    /\ \A i \in DOMAIN pub_out : pub_out[i] # Later => pub_out[i] = msg /\ Idle
    /\ taken # Later => /\ taken = msg /\ Idle
                        /\ coms \in {"payload", "send"} => pub.steady
                        /\ coms = "send" => pub.payload = msg.payload

\* Between two writes send_pub() reads topic and payload of the one sample in msg.
ReadIsOfMsg ==
    pub.steady =>
        /\ coms \in {"payload", "send"} /\ tpc \notin {"topic", "payload"}
        /\ pub.topic = msg.topic
        /\ coms = "send" /\ pub.payload # "cut"
               => pub.payload = msg.payload /\ pub.clean = msg.clean

TelInv == TelTypeOK /\ SampleInHand /\ MsgIsOneSample /\ CopiesShowMsg /\ ReadIsOfMsg

LEMMA InitTelInv == TelInit => TelInv
<1>. SUFFICES ASSUME TelInit
              PROVE  TelInv
  OBVIOUS
<1>1. TelTypeOK
  BY DEF TelInit, TelTypeOK, AdcRegisters, Values, NoMsg, NoPub, Later
<1>2. SampleInHand
  BY DEF TelInit, SampleInHand
<1>3. MsgIsOneSample
  BY DEF TelInit, MsgIsOneSample, NoMsg, DiodeKeys
<1>4. CopiesShowMsg /\ ReadIsOfMsg
  BY DEF TelInit, CopiesShowMsg, ReadIsOfMsg, NoPub
<1>. QED  BY <1>1, <1>2, <1>3, <1>4 DEF TelInv

\* The three registers, one after the other.
LEMMA HeadTailOfWrites ==
    /\ Head(<<"LOWTHRESH">>) = "LOWTHRESH" /\ Tail(<<"LOWTHRESH">>) = << >>
    /\ Head(<<"HITHRESH", "LOWTHRESH">>) = "HITHRESH"
    /\ Tail(<<"HITHRESH", "LOWTHRESH">>) = <<"LOWTHRESH">>
    /\ Head(<<"CONFIG", "HITHRESH", "LOWTHRESH">>) = "CONFIG"
    /\ Tail(<<"CONFIG", "HITHRESH", "LOWTHRESH">>) = <<"HITHRESH", "LOWTHRESH">>
<1>1. Head(<<"LOWTHRESH">>) = "LOWTHRESH" /\ Tail(<<"LOWTHRESH">>) = << >>
  OBVIOUS
<1>2. Head(<<"HITHRESH", "LOWTHRESH">>) = "HITHRESH"
      /\ Tail(<<"HITHRESH", "LOWTHRESH">>) = <<"LOWTHRESH">>
  OBVIOUS
<1>3. Head(<<"CONFIG", "HITHRESH", "LOWTHRESH">>) = "CONFIG"
      /\ Tail(<<"CONFIG", "HITHRESH", "LOWTHRESH">>) = <<"HITHRESH", "LOWTHRESH">>
  OBVIOUS
<1>. QED  BY <1>1, <1>2, <1>3

LEMMA NextTelType ==
    ASSUME TelTypeOK, [TelNext]_telVars
    PROVE  TelTypeOK'
<1>. USE DEF TelTypeOK, adc, coming
<1>1. Key \in DiodeKeys /\ Channel[Key] \in Chans
  BY DEF Key, DiodeKeys, Chans
<1>2. CASE StartADCReading
  <2>1. Head(writes) \in AdcRegisters
        /\ Tail(writes) \in {<< >>, <<"LOWTHRESH">>, <<"HITHRESH", "LOWTHRESH">>}
    BY <1>2, HeadTailOfWrites DEF StartADCReading, AdcRegisters
  <2>. QED  BY <1>1, <1>2, <2>1 DEF StartADCReading, WriteRegister
<1>3. CASE Converted
  BY <1>3 DEF Converted
<1>4. CASE DelayOver
  BY <1>4 DEF DelayOver
<1>5. CASE ReadResult
  <2>1. /\ tpc' = "topic" /\ pointer' \in AdcRegisters /\ voltage' \in Values /\ clean' \in BOOLEAN
        /\ UNCHANGED <<sample_yj, writes, convert, converting, msg, coms>>
    BY <1>5 DEF ReadResult, ReadRegister, Content, Values, AdcRegisters
  <2>2. /\ pub_out' \in Seq(Message \union {Later}) /\ Len(pub_out') <= PubLen
        /\ taken' \in Message \union {Later}
    BY <1>5, TelemetryAssumption DEF ReadResult, Overwrites
  <2>3. pub' = [pub EXCEPT !.steady = FALSE]
    BY <1>5 DEF ReadResult, Overwrites
  <2>. QED  BY <2>1, <2>2, <2>3
<1>6. CASE WriteTopic
  BY <1>1, <1>6 DEF WriteTopic
<1>7. CASE WritePayload
  <2>1. msg' = [msg EXCEPT !.payload = voltage, !.clean = clean] /\ tpc' = "queue"
        /\ UNCHANGED <<sample_yj, writes, adc, voltage, clean, pub_out, coming>>
    BY <1>7 DEF WritePayload
  <2>2. msg' \in [topic : DiodeKeys \union {"none"}, payload : Values, clean : BOOLEAN]
    BY <2>1
  <2>. QED  BY <2>1, <2>2
<1>8. CASE Publish
  <2>1. Sampled \in Message
    BY <1>1 DEF Sampled, Message
  <2>2. pub_out' \in Seq(Message \union {Later}) /\ Len(pub_out') <= PubLen
    BY <1>8, <2>1, TelemetryAssumption DEF Publish, Room
  <2>. QED  BY <1>8, <2>2 DEF Publish, NextSample
<1>9. CASE Drain
  <2>1. CASE pub_out # << >>
    <3>1. Head(pub_out) \in Message \union {Later} /\ Tail(pub_out) \in Seq(Message \union {Later})
          /\ Len(Tail(pub_out)) <= PubLen
      <4>. DEFINE q == pub_out
                  M == Message \union {Later}
      <4>1. q \in Seq(M) /\ Len(q) <= PubLen /\ q # << >>
        BY <2>1
      <4>2. PubLen \in Nat
        BY TelemetryAssumption
      <4>. HIDE DEF q, M
      <4>3. Head(q) \in M /\ Tail(q) \in Seq(M) /\ Len(Tail(q)) <= PubLen
        BY <4>1, <4>2
      <4>. QED  BY <4>3 DEF q, M
    <3>2. taken' = Head(pub_out) /\ pub_out' = Tail(pub_out) /\ coms' = "topic"
          /\ UNCHANGED <<tpc, sample_yj, writes, adc, voltage, clean, msg, pub>>
      BY <1>9, <2>1 DEF Drain
    <3>. QED  BY <3>1, <3>2
  <2>2. CASE pub_out = << >>
    BY <1>9, <2>2 DEF Drain
  <2>. QED  BY <2>1, <2>2
<1>10. CASE ReadTopic
  <2>1. Standing.topic \in DiodeKeys \union {"none", "torn"}
    BY DEF Standing
  <2>2. pub' \in [topic : DiodeKeys \union {"none", "torn"}, payload : Values \union {"torn", "cut"},
                  clean : BOOLEAN, steady : BOOLEAN]
    BY <1>10, <2>1 DEF ReadTopic
  <2>3. /\ coms' = "payload"
        /\ UNCHANGED <<tpc, sample_yj, writes, adc, voltage, clean, msg, pub_out, taken>>
    BY <1>10 DEF ReadTopic
  <2>. QED  BY <2>2, <2>3
<1>11. CASE ReadPayload
  <2>1. Standing.payload \in Values \union {"torn"}
    BY DEF Standing
  <2>2. pub' \in [topic : DiodeKeys \union {"none", "torn"}, payload : Values \union {"torn", "cut"},
                  clean : BOOLEAN, steady : BOOLEAN]
    BY <1>11, <2>1 DEF ReadPayload
  <2>3. /\ coms' = "send"
        /\ UNCHANGED <<tpc, sample_yj, writes, adc, voltage, clean, msg, pub_out, taken>>
    BY <1>11 DEF ReadPayload
  <2>. QED  BY <2>2, <2>3
<1>12. CASE Send
  BY <1>12 DEF Send, NoPub, Values
<1>13. CASE ReceiveReturns
  BY <1>13 DEF ReceiveReturns
<1>14. CASE UNCHANGED telVars
  BY <1>14 DEF telVars
<1>. QED  BY <1>2, <1>3, <1>4, <1>5, <1>6, <1>7, <1>8, <1>9, <1>10, <1>11, <1>12, <1>13, <1>14
          DEF TelNext, Samples, Publishes

LEMMA NextSampleInHand ==
    ASSUME TelInv, [TelNext]_telVars
    PROVE  SampleInHand'
<1>. USE DEF TelInv, SampleInHand, adc, coming
<1>1. Key \in DiodeKeys /\ Channel[Key] \in Chans
  BY DEF Key, DiodeKeys, Chans
<1>2. CASE StartADCReading
  <2>1. /\ writes' = Tail(writes) /\ writes # << >> /\ UNCHANGED <<convert, Key, voltage>>
        /\ tpc' = IF Len(writes) = 1 THEN "delay" ELSE "start"
    BY <1>2 DEF StartADCReading, Key
  <2>2. tpc' = "start" <=> writes' # << >>
    <3>1. writes \in {<<"LOWTHRESH">>, <<"HITHRESH", "LOWTHRESH">>,
                      <<"CONFIG", "HITHRESH", "LOWTHRESH">>}
      BY <2>1 DEF TelTypeOK
    <3>2. Len(<<"LOWTHRESH">>) = 1 /\ Len(<<"HITHRESH", "LOWTHRESH">>) = 2
          /\ Len(<<"CONFIG", "HITHRESH", "LOWTHRESH">>) = 3
      OBVIOUS
    <3>3. <<"LOWTHRESH">> # << >> /\ <<"HITHRESH", "LOWTHRESH">> # << >>
      OBVIOUS
    <3>4. CASE writes = <<"LOWTHRESH">>
      BY <2>1, <3>2, <3>4, HeadTailOfWrites
    <3>5. CASE writes = <<"HITHRESH", "LOWTHRESH">>
      BY <2>1, <3>2, <3>3, <3>5, HeadTailOfWrites
    <3>6. CASE writes = <<"CONFIG", "HITHRESH", "LOWTHRESH">>
      BY <2>1, <3>2, <3>3, <3>6, HeadTailOfWrites
    <3>. QED  BY <3>1, <3>4, <3>5, <3>6
  <2>3. ASSUME clean' PROVE Begun'
    <3>1. WriteRegister(Head(writes), TRUE) /\ clean
      BY <1>2, <2>3 DEF StartADCReading
    <3>2. CASE writes = <<"CONFIG", "HITHRESH", "LOWTHRESH">>
      BY <2>1, <3>1, <3>2, HeadTailOfWrites DEF WriteRegister, Begun
    <3>3. CASE writes \in {<<"LOWTHRESH">>, <<"HITHRESH", "LOWTHRESH">>}
      <4>1. Len(<<"LOWTHRESH">>) = 1 /\ Len(<<"HITHRESH", "LOWTHRESH">>) = 2
        OBVIOUS
      <4>2. Len(writes) < 3 /\ Head(writes) # "CONFIG"
        <5>1. CASE writes = <<"LOWTHRESH">>
          BY <4>1, <5>1, HeadTailOfWrites
        <5>2. CASE writes = <<"HITHRESH", "LOWTHRESH">>
          BY <4>1, <5>2, HeadTailOfWrites
        <5>. QED  BY <3>3, <5>1, <5>2
      <4>3. Begun
        BY <1>2, <3>1, <4>2 DEF StartADCReading
      <4>4. UNCHANGED converting
        BY <3>1, <4>2 DEF WriteRegister
      <4>. QED  BY <2>1, <4>3, <4>4 DEF Begun
    <3>. QED  BY <2>1, <3>2, <3>3 DEF TelTypeOK
  <2>. QED  BY <2>1, <2>2, <2>3
<1>3. CASE Converted
  BY <1>1, <1>3 DEF Converted, Begun, Key
<1>4. CASE DelayOver
  BY <1>1, <1>4 DEF DelayOver, Begun, Key
<1>5. CASE ReadResult
  <2>1. tpc' = "topic" /\ writes' = writes /\ UNCHANGED Key /\ tpc = "read"
    BY <1>5 DEF ReadResult, Key
  <2>2. ASSUME clean' PROVE voltage' = Channel[Key]
    BY <1>5, <2>2 DEF ReadResult, ReadRegister, Content
  <2>. QED  BY <2>1, <2>2
<1>6. CASE WriteTopic \/ WritePayload
  BY <1>6 DEF WriteTopic, WritePayload, Key
<1>7. CASE Publish
  <2>1. Len(<<"CONFIG", "HITHRESH", "LOWTHRESH">>) = 3
    OBVIOUS
  <2>. QED  BY <1>7, <2>1 DEF Publish, NextSample
<1>8. CASE Publishes \/ Send \/ ReceiveReturns \/ UNCHANGED telVars
  BY <1>8 DEF Publishes, Drain, ReadTopic, ReadPayload, Send, ReceiveReturns, telVars, Begun, Key
<1>. QED  BY <1>2, <1>3, <1>4, <1>5, <1>6, <1>7, <1>8 DEF TelNext, Samples

\* coms_task changes nothing of the sample being taken.
LEMMA ComsLeavesTheSample ==
    Publishes \/ Send \/ ReceiveReturns => UNCHANGED <<tpc, sample_yj, voltage, clean, msg, Key, Sampled>>
BY DEF Publishes, Drain, ReadTopic, ReadPayload, Send, ReceiveReturns, Key, Sampled

\* Up to the write of its topic a sample changes nothing of what coms_task sees, but for
\* the copies it overtakes.
LEMMA ConversionLeavesMsg ==
    /\ StartADCReading \/ DelayOver => UNCHANGED <<msg, pub_out, coming>> /\ Idle /\ Idle'
    /\ Converted => UNCHANGED <<tpc, sample_yj, voltage, clean, msg, pub_out, coming, Key, Sampled>>
BY DEF StartADCReading, DelayOver, Converted, Idle, Key, Sampled

LEMMA NextMsg ==
    ASSUME TelInv, [TelNext]_telVars
    PROVE  MsgIsOneSample'
<1>. USE DEF TelInv, MsgIsOneSample, coming
<1>1. Key \in DiodeKeys
  BY DEF Key, DiodeKeys
<1>2. CASE StartADCReading \/ DelayOver
  BY <1>2, ConversionLeavesMsg DEF Idle
<1>3. CASE Converted
  BY <1>3, ConversionLeavesMsg
<1>4. CASE ReadResult
  <2>1. tpc' = "topic" /\ tpc = "read" /\ UNCHANGED <<msg, coms>>
    BY <1>4 DEF ReadResult
  <2>2. pub_out' # << >> => pub_out # << >>
    BY <1>4 DEF ReadResult, Overwrites
  <2>. QED  BY <2>1, <2>2
<1>5. CASE WriteTopic
  <2>1. tpc = "topic" /\ tpc' = "payload" /\ UNCHANGED <<pub_out, coms>> /\ Key' = Key
        /\ msg' = [msg EXCEPT !.topic = Key]
    BY <1>5 DEF WriteTopic, Key
  <2>2. msg'.topic = Key
    BY <2>1 DEF TelTypeOK
  <2>. QED  BY <1>1, <2>1, <2>2
<1>6. CASE WritePayload
  <2>1. tpc = "payload" /\ tpc' = "queue" /\ UNCHANGED <<pub_out, coms, voltage, clean>> /\ Key' = Key
        /\ msg' = [msg EXCEPT !.payload = voltage, !.clean = clean]
    BY <1>6 DEF WritePayload, Key
  <2>2. msg'.topic = Key /\ msg'.payload = voltage /\ msg'.clean = clean
    BY <2>1 DEF TelTypeOK
  <2>3. msg' = Sampled'
    BY <2>1 DEF TelTypeOK, Sampled
  <2>4. clean => voltage = Channel[Key]
    BY <2>1 DEF SampleInHand
  <2>. QED  BY <1>1, <2>1, <2>2, <2>3, <2>4
<1>7. CASE Publish
  <2>1. tpc = "queue" /\ tpc' = "start" /\ UNCHANGED <<msg, coms>>
    BY <1>7 DEF Publish, NextSample
  <2>. QED  BY <1>1, <2>1
<1>8. CASE Drain
  <2>1. coms' = "topic" \/ pub_out' # << >> => pub_out # << >>
    BY <1>8 DEF Drain
  <2>2. coms' \in {"topic", "recv"}
    BY <1>8 DEF Drain
  <2>. QED  BY <1>8, <2>1, <2>2, ComsLeavesTheSample DEF Publishes
<1>9. CASE ReadTopic \/ ReadPayload \/ Send \/ ReceiveReturns
  <2>1. /\ UNCHANGED pub_out
        /\ coms' \in {"topic", "payload", "send"} => coms \in {"topic", "payload", "send"}
    BY <1>9 DEF ReadTopic, ReadPayload, Send, ReceiveReturns
  <2>. QED  BY <1>9, <2>1, ComsLeavesTheSample DEF Publishes
<1>10. CASE UNCHANGED telVars
  BY <1>10 DEF telVars, Key, Sampled
<1>. QED  BY <1>2, <1>3, <1>4, <1>5, <1>6, <1>7, <1>8, <1>9, <1>10
          DEF TelNext, Samples, Publishes

LEMMA NextCopies ==
    ASSUME TelInv, [TelNext]_telVars
    PROVE  CopiesShowMsg'
<1>. USE DEF TelInv, CopiesShowMsg, coming
<1>0. pub_out \in Seq(Message \union {Later}) /\ DOMAIN pub_out = 1 .. Len(pub_out)
      /\ Len(pub_out) \in Nat
  BY DEF TelTypeOK
<1>1. CASE StartADCReading \/ DelayOver
  BY <1>1, ConversionLeavesMsg
<1>2. CASE Converted
  BY <1>2, ConversionLeavesMsg DEF Idle
<1>3. CASE ReadResult
  BY <1>3 DEF ReadResult, Overwrites
<1>4. CASE WriteTopic \/ WritePayload
  <2>1. ~Idle /\ UNCHANGED <<pub_out, taken>>
    BY <1>4 DEF WriteTopic, WritePayload, Idle
  <2>2. taken' = Later /\ \A i \in DOMAIN pub_out' : pub_out'[i] = Later
    BY <2>1
  <2>. QED  BY <2>2
<1>6. CASE Publish
  <2>1. pub_out' = Append(pub_out, Sampled) /\ UNCHANGED <<msg, taken, pub, coms>> /\ Idle' /\ ~Idle
    BY <1>6 DEF Publish, NextSample, Idle
  <2>2. Sampled = msg
    BY <1>6 DEF Publish, MsgIsOneSample
  <2>3. ASSUME NEW i \in DOMAIN pub_out', pub_out'[i] # Later
        PROVE  pub_out'[i] = msg
    BY <1>0, <2>1, <2>2, <2>3
  <2>4. taken' = Later
    BY <2>1
  <2>. QED  BY <2>1, <2>3, <2>4
<1>7. CASE Drain /\ pub_out # << >>
  <2>1. taken' = pub_out[1] /\ pub_out' = Tail(pub_out) /\ coms' = "topic"
        /\ UNCHANGED <<tpc, msg, pub>>
    BY <1>7 DEF Drain
  <2>2. 1 \in DOMAIN pub_out
    BY <1>0, <1>7
  <2>3. \A i \in DOMAIN pub_out' : i + 1 \in DOMAIN pub_out /\ pub_out'[i] = pub_out[i + 1]
    BY <1>0, <1>7, <2>1
  <2>. QED  BY <2>1, <2>2, <2>3 DEF Idle
<1>8. CASE Drain /\ pub_out = << >>
  BY <1>8 DEF Drain, Idle
<1>9. CASE ReadTopic
  <2>1. coms' = "payload" /\ UNCHANGED <<tpc, msg, pub_out, taken>>
        /\ pub' = [pub EXCEPT !.topic = Standing.topic, !.steady = tpc \notin {"topic", "payload"}]
    BY <1>9 DEF ReadTopic
  <2>2. Idle => pub'.steady
    BY <2>1 DEF Idle, TelTypeOK
  <2>. QED  BY <2>1, <2>2 DEF Idle
<1>10. CASE ReadPayload
  <2>1. coms = "payload" /\ coms' = "send" /\ UNCHANGED <<tpc, msg, pub_out, taken>>
        /\ pub'.steady = pub.steady
    BY <1>10 DEF ReadPayload, TelTypeOK
  <2>2. ASSUME taken # Later
        PROVE  pub'.payload = msg.payload
    <3>1. pub' = [pub EXCEPT !.payload = Standing.payload, !.clean = msg.clean]
      BY <1>10, <2>2 DEF ReadPayload
    <3>2. tpc # "payload"
      BY <2>2 DEF Idle
    <3>3. Standing.payload = msg.payload
      BY <3>2 DEF Standing, TelTypeOK
    <3>. QED  BY <3>1, <3>3 DEF TelTypeOK
  <2>. QED  BY <2>1, <2>2 DEF Idle
<1>11. CASE Send
  BY <1>11 DEF Send, Idle
<1>12. CASE ReceiveReturns \/ UNCHANGED telVars
  BY <1>12 DEF ReceiveReturns, telVars, Idle
<1>. QED  BY <1>1, <1>2, <1>3, <1>4, <1>6, <1>7, <1>8, <1>9, <1>10, <1>11, <1>12
          DEF TelNext, Samples, Publishes

LEMMA NextRead ==
    ASSUME TelInv, [TelNext]_telVars
    PROVE  ReadIsOfMsg'
<1>. USE DEF TelInv, ReadIsOfMsg, coming
<1>1. CASE StartADCReading \/ DelayOver
  BY <1>1, ConversionLeavesMsg DEF Idle
<1>2. CASE Converted
  BY <1>2, ConversionLeavesMsg
<1>3. CASE ReadResult
  <2>1. ~pub'.steady
    BY <1>3 DEF ReadResult, Overwrites, TelTypeOK
  <2>. QED  BY <2>1
<1>4. CASE WriteTopic \/ WritePayload
  <2>1. ~pub.steady /\ pub' = pub
    BY <1>4 DEF WriteTopic, WritePayload
  <2>. QED  BY <2>1
<1>5. CASE Publish
  BY <1>5 DEF Publish, NextSample
<1>6. CASE Drain
  <2>1. ~pub.steady /\ pub' = pub
    BY <1>6 DEF Drain
  <2>. QED  BY <2>1
<1>7. CASE ReadTopic
  <2>1. coms' = "payload" /\ UNCHANGED <<tpc, msg>>
        /\ pub' = [pub EXCEPT !.topic = Standing.topic, !.steady = tpc \notin {"topic", "payload"}]
    BY <1>7 DEF ReadTopic
  <2>2. pub'.steady => tpc \notin {"topic", "payload"}
    BY <2>1 DEF TelTypeOK
  <2>3. tpc # "topic" => Standing.topic = msg.topic
    BY DEF Standing, TelTypeOK
  <2>4. pub'.topic = Standing.topic
    BY <2>1 DEF TelTypeOK
  <2>. QED  BY <2>1, <2>2, <2>3, <2>4
<1>8. CASE ReadPayload
  <2>1. coms = "payload" /\ coms' = "send" /\ UNCHANGED <<tpc, msg>>
    BY <1>8 DEF ReadPayload
  <2>2. PICK cut \in BOOLEAN :
          pub' = [pub EXCEPT !.payload = IF cut THEN "cut" ELSE Standing.payload, !.clean = msg.clean]
    BY <1>8 DEF ReadPayload
  <2>3. /\ pub'.steady = pub.steady /\ pub'.topic = pub.topic /\ pub'.clean = msg.clean
        /\ pub'.payload = IF cut THEN "cut" ELSE Standing.payload
    BY <2>2 DEF TelTypeOK
  <2>4. tpc # "payload" => Standing.payload = msg.payload
    BY DEF Standing, TelTypeOK
  <2>. QED  BY <2>1, <2>3, <2>4
<1>9. CASE Send
  BY <1>9 DEF Send, NoPub
<1>10. CASE ReceiveReturns \/ UNCHANGED telVars
  BY <1>10 DEF ReceiveReturns, telVars
<1>. QED  BY <1>1, <1>2, <1>3, <1>4, <1>5, <1>6, <1>7, <1>8, <1>9, <1>10
          DEF TelNext, Samples, Publishes

LEMMA TelInvHolds == TelInit /\ [][TelNext]_telVars => []TelInv
<1>1. TelInv /\ [TelNext]_telVars => TelInv'
  BY NextTelType, NextSampleInHand, NextMsg, NextCopies, NextRead DEF TelInv
<1>. QED  BY <1>1, InitTelInv, PTL

\* A clean sample that send_pub() reads between two writes of msg has the value of its
\* key's channel, for any length of the queue, any backlog and any history of failed
\* transfers.
THEOREM ValueOfItsChannelHolds == TelSpec => []ValueOfItsChannel
<1>1. TelInv => ValueOfItsChannel
  BY DEF TelInv, MsgIsOneSample, ReadIsOfMsg, ValueOfItsChannel
<1>. QED  BY <1>1, TelInvHolds, PTL DEF TelSpec

\* A copy that photodiode_task has not overtaken is published as it was queued, however
\* the steps of the two tasks interleave.
THEOREM PublishedAsSampledHolds == TelSpec => []PublishedAsSampled
<1>1. TelInv => PublishedAsSampled
  <2>. SUFFICES ASSUME TelInv, coms = "send", taken # Later
                PROVE  pub.topic = taken.topic /\ pub.payload = taken.payload
    BY DEF PublishedAsSampled
  <2>1. taken = msg /\ pub.steady /\ pub.payload = msg.payload
    BY DEF TelInv, CopiesShowMsg
  <2>2. pub.topic = msg.topic
    BY <2>1 DEF TelInv, ReadIsOfMsg
  <2>. QED  BY <2>1, <2>2
<1>. QED  BY <1>1, TelInvHolds, PTL DEF TelSpec

----------------------------------------------------------------------------
(* What main() and maiman.cpp wire: switches, pins, routes, registers.     *)

(* The sixteen coils have sixteen pins: MEMSSwitch(pcagpio, 0, 1) and so on *)
(* in main.cpp.                                                            *)
THEOREM CoilsHaveTheirPins == PinsApart
<1>1. DOMAIN Kinds = 1 .. 4
  BY DEF Kinds
<1>2. Kinds[1] = "cal_laser" /\ Kinds[2] = "ao_fei" /\ Kinds[3] = "forward_retro" /\ Kinds[4] = "mm_sm"
  BY DEF Kinds
<1> DEFINE n(k) == CHOOSE i \in DOMAIN Kinds : Kinds[i] = k
<1>3. n("cal_laser") = 1 /\ n("ao_fei") = 2 /\ n("forward_retro") = 3 /\ n("mm_sm") = 4
  BY <1>1, <1>2
<1>4. \A sw \in named_switches :
        /\ sw = <<sw[1], sw[2]>> /\ sw[1] \in {"yj", "hk"}
        /\ sw[2] \in {"cal_laser", "ao_fei", "forward_retro", "mm_sm"}
  BY <1>1, <1>2 DEF named_switches, Arms
<1>5. \A sw \in named_switches, s \in AB :
        PinOf(sw, s) = 4 * (n(sw[2]) - 1)
                          + (IF sw[1] = "yj" THEN 0 ELSE 2) + (IF s = "A" THEN 0 ELSE 1)
  BY DEF PinOf
<1> HIDE DEF n
<1> QED
  BY <1>3, <1>4, <1>5 DEF PinsApart, AB

(* What each route does, spelled out from the table.                       *)
LEMMA Table ==
    ASSUME NEW r \in RouteNames
    PROVE  /\ r[1] \in Arms
           /\ RouteTable[r] =
                 LET path == PathTo(r[2], r[3])
                 IN  [i \in DOMAIN path |-> [sw |-> <<r[1], path[i][1]>>, state |-> path[i][2]]]
  BY DEF RouteNames, RouteTable

(* A route sets every switch once, and only switches of its arm.           *)
LEMMA SetsOnce ==
    ASSUME NEW r \in RouteNames,
           NEW i \in DOMAIN RouteTable[r], NEW j \in DOMAIN RouteTable[r]
    PROVE  /\ RouteTable[r][i].sw \in named_switches
           /\ RouteTable[r][i].sw[1] = r[1]
           /\ RouteTable[r][i].state \in AB
           /\ RouteTable[r][i] = [sw |-> RouteTable[r][i].sw, state |-> RouteTable[r][i].state]
           /\ RouteTable[r][i].sw = RouteTable[r][j].sw
                => RouteTable[r][i].state = RouteTable[r][j].state
<1>1. /\ r[1] \in Arms
      /\ \/ r[2] \in {"1430", "cal", "laser"} /\ r[3] \in {"ao", "fei"}
         \/ r[2] \in {"mm", "sm"} /\ r[3] = "pd"
  BY DEF RouteNames, Inputs
<1>2. \A k \in {"cal_laser", "ao_fei", "forward_retro", "mm_sm"} : <<r[1], k>> \in named_switches
  BY <1>1 DEF named_switches, Kinds
<1> DEFINE path == PathTo(r[2], r[3])
<1>3. /\ RouteTable[r] = [k \in DOMAIN path |-> [sw |-> <<r[1], path[k][1]>>, state |-> path[k][2]]]
      /\ i \in DOMAIN path /\ j \in DOMAIN path
  BY Table
<1>4. \A k \in DOMAIN path : /\ path[k][1] \in {"cal_laser", "ao_fei", "forward_retro", "mm_sm"}
                             /\ path[k][2] \in AB
  BY <1>1 DEF PathTo, Sets, Toward, AB
<1>5. path[i][1] = path[j][1] => path[i][2] = path[j][2]
  <2> DEFINE last == Toward(r[3])
  <2>1. last[1] = "ao_fei"
    BY DEF Toward, Sets
  <2>2. CASE r[2] = "1430"
    <3>1. path = <<<<"cal_laser", "B">>, <<"forward_retro", "A">>, last>>
      BY <2>2 DEF PathTo, Sets
    <3> HIDE DEF path, last
    <3> QED  BY <1>3, <2>1, <3>1
  <2>3. CASE r[2] \in {"cal", "laser"}
    <3>1. path \in {<<<<"cal_laser", "A">>, last>>, <<<<"cal_laser", "B">>, last>>}
      BY <2>3 DEF PathTo, Sets
    <3> HIDE DEF path, last
    <3> QED  BY <1>3, <2>1, <3>1
  <2>4. CASE r[2] \in {"mm", "sm"}
    <3>1. path \in {<<<<"mm_sm", "A">>>>, <<<<"mm_sm", "B">>>>}
      BY <2>4 DEF PathTo, Sets
    <3> HIDE DEF path
    <3> QED  BY <1>3, <3>1
  <2> QED  BY <1>1, <2>2, <2>3, <2>4
<1> HIDE DEF path
<1>6. /\ RouteTable[r][i] = [sw |-> <<r[1], path[i][1]>>, state |-> path[i][2]]
      /\ RouteTable[r][j] = [sw |-> <<r[1], path[j][1]>>, state |-> path[j][2]]
  BY <1>3
<1>7. /\ RouteTable[r][i].sw = <<r[1], path[i][1]>> /\ RouteTable[r][i].state = path[i][2]
      /\ RouteTable[r][j].sw = <<r[1], path[j][1]>> /\ RouteTable[r][j].state = path[j][2]
  BY <1>6
<1>8. path[i][1] \in {"cal_laser", "ao_fei", "forward_retro", "mm_sm"} /\ path[i][2] \in AB
  BY <1>3, <1>4
<1> DEFINE u == RouteTable[r][i]
           v == RouteTable[r][j]
<1>9. /\ u.sw \in named_switches /\ u.sw[1] = r[1] /\ u.state \in AB
      /\ u = [sw |-> u.sw, state |-> u.state]
  BY <1>2, <1>6, <1>7, <1>8
<1>10. u.sw = v.sw => u.state = v.state
  BY <1>5, <1>7
<1> QED
  BY <1>9, <1>10

(* MEMSRouter::route: whatever stood before, the switches of the route     *)
(* stand as it says, and no switch of the other arm has moved; so a route  *)
(* of one arm outlives the routes of the other.                            *)
THEOREM RoutesOfArmsKeepApart == ArmsApart
<1> SUFFICES ASSUME NEW pos \in [named_switches -> AB], NEW r \in RouteNames, NEW t \in RouteNames
             PROVE  /\ InPlace(r, Routed(r, pos))
                    /\ r[1] # t[1] /\ InPlace(r, pos) => InPlace(r, Routed(t, pos))
  BY DEF ArmsApart
<1>1. ASSUME NEW i \in DOMAIN RouteTable[r]
      PROVE  Routed(r, pos)[RouteTable[r][i].sw] = RouteTable[r][i].state
  <2> DEFINE sw == RouteTable[r][i].sw
             One(s) == \E j \in DOMAIN RouteTable[r] : RouteTable[r][j] = [sw |-> sw, state |-> s]
  <2>1. sw \in named_switches /\ sw[1] = r[1]
    BY SetsOnce
  <2>2. Routed(r, pos)[sw] = CHOOSE s \in AB : One(s)
    BY <2>1 DEF Routed
  <2>3. RouteTable[r][i].state \in AB /\ One(RouteTable[r][i].state)
    BY SetsOnce
  <2>4. \A s \in AB : One(s) => s = RouteTable[r][i].state
    <3> SUFFICES ASSUME NEW s \in AB, NEW j \in DOMAIN RouteTable[r],
                        RouteTable[r][j] = [sw |-> sw, state |-> s]
                 PROVE  s = RouteTable[r][i].state
      OBVIOUS
    <3>1. RouteTable[r][j].sw = sw /\ RouteTable[r][j].state = s
      OBVIOUS
    <3> QED
      BY <3>1, SetsOnce
  <2> HIDE DEF One
  <2> QED
    BY <2>2, <2>3, <2>4
<1>2. ASSUME r[1] # t[1], InPlace(r, pos), NEW i \in DOMAIN RouteTable[r]
      PROVE  Routed(t, pos)[RouteTable[r][i].sw] = RouteTable[r][i].state
  <2>1. RouteTable[r][i].sw \in named_switches /\ RouteTable[r][i].sw[1] # t[1]
    BY <1>2, SetsOnce
  <2>2. Routed(t, pos)[RouteTable[r][i].sw] = pos[RouteTable[r][i].sw]
    BY <2>1 DEF Routed
  <2> QED
    BY <1>2, <2>2 DEF InPlace
<1> QED
  BY <1>1, <1>2 DEF InPlace

(* Being in place, from the path of a route.                               *)
StandsAs(a, in, o, pos) ==
    \A i \in DOMAIN PathTo(in, o) : pos[<<a, PathTo(in, o)[i][1]>>] = PathTo(in, o)[i][2]

LEMMA PathInPlace ==
    ASSUME NEW r \in RouteNames, NEW pos
    PROVE  InPlace(r, pos) <=> StandsAs(r[1], r[2], r[3], pos)
<1> DEFINE path == PathTo(r[2], r[3])
<1>1. RouteTable[r] = [i \in DOMAIN path |-> [sw |-> <<r[1], path[i][1]>>, state |-> path[i][2]]]
  BY Table
<1> HIDE DEF path
<1>2. /\ DOMAIN RouteTable[r] = DOMAIN path
      /\ \A i \in DOMAIN path : /\ RouteTable[r][i].sw = <<r[1], path[i][1]>>
                                /\ RouteTable[r][i].state = path[i][2]
  BY <1>1
<1>3. InPlace(r, pos) <=> \A i \in DOMAIN path : pos[<<r[1], path[i][1]>>] = path[i][2]
  BY <1>2, Zenon DEF InPlace
<1> QED
  BY <1>3 DEF path, StandsAs

LEMMA InPlaceThere ==
    ASSUME NEW a, NEW in, NEW o, <<a, in, o>> \in RouteNames, NEW pos
    PROVE  InPlace(<<a, in, o>>, pos) <=> StandsAs(a, in, o, pos)
<1> DEFINE r == <<a, in, o>>
<1>1. r[1] = a /\ r[2] = in /\ r[3] = o /\ r \in RouteNames
  OBVIOUS
<1> HIDE DEF r
<1>2. InPlace(r, pos) <=> StandsAs(r[1], r[2], r[3], pos)
  BY <1>1, PathInPlace, Zenon
<1> QED
  BY <1>1, <1>2, Zenon DEF r

(* The routes of main.cpp that reach one output of an arm: those of cal    *)
(* and of laser exclude each other, that of 1430 includes that of laser.   *)
THEOREM OneSourceOfLight == OneSource
<1> SUFFICES ASSUME NEW pos \in [named_switches -> AB], NEW arm \in Arms,
                    NEW o \in {"ao", "fei"}, NEW p \in {"ao", "fei"}
             PROVE  /\ ~(InPlace(<<arm, "cal", o>>, pos) /\ InPlace(<<arm, "laser", p>>, pos))
                    /\ InPlace(<<arm, "1430", o>>, pos) => InPlace(<<arm, "laser", o>>, pos)
  BY DEF OneSource
<1> DEFINE cal   == <<arm, "cal_laser">>
           Out(q) == pos[<<arm, "ao_fei">>] = (IF q = "ao" THEN "A" ELSE "B")
<1>1. \A in \in Inputs, q \in {"ao", "fei"} : <<arm, in, q>> \in RouteNames
  BY DEF RouteNames, Inputs
<1>2. ASSUME NEW q \in {"ao", "fei"}
      PROVE  InPlace(<<arm, "cal", q>>, pos) => pos[cal] = "A"
  <2> DEFINE path == PathTo("cal", q)
  <2>1. path = <<<<"cal_laser", "A">>, Toward(q)>>
    BY DEF PathTo, Sets
  <2>2. 1 \in DOMAIN path /\ path[1][1] = "cal_laser"
        /\ path[1][2] = "A"
    BY <2>1
  <2>3. <<arm, "cal", q>> \in RouteNames
    BY <1>1 DEF Inputs
  <2>4. InPlace(<<arm, "cal", q>>, pos) <=> StandsAs(arm, "cal", q, pos)
    BY <2>3, InPlaceThere, Zenon
  <2>5. StandsAs(arm, "cal", q, pos)
           <=> \A i \in DOMAIN path : pos[<<arm, path[i][1]>>] = path[i][2]
    BY DEF StandsAs
  <2> HIDE DEF path
  <2> QED
    BY <2>2, <2>4, <2>5
<1>3. ASSUME NEW q \in {"ao", "fei"}
      PROVE  InPlace(<<arm, "laser", q>>, pos) <=> pos[cal] = "B" /\ Out(q)
  <2> DEFINE path == PathTo("laser", q)
  <2>1. path = <<<<"cal_laser", "B">>, Toward(q)>>
    BY DEF PathTo, Sets
  <2>2. Toward(q)[1] = "ao_fei" /\ Toward(q)[2] = (IF q = "ao" THEN "A" ELSE "B")
    BY DEF Toward, Sets
  <2>3. /\ DOMAIN path = {1, 2}
        /\ path[1][1] = "cal_laser" /\ path[1][2] = "B"
        /\ path[2] = Toward(q)
    BY <2>1
  <2>4. <<arm, "laser", q>> \in RouteNames
    BY <1>1 DEF Inputs
  <2>5. InPlace(<<arm, "laser", q>>, pos) <=> StandsAs(arm, "laser", q, pos)
    BY <2>4, InPlaceThere, Zenon
  <2>6. StandsAs(arm, "laser", q, pos)
           <=> \A i \in DOMAIN path : pos[<<arm, path[i][1]>>] = path[i][2]
    BY DEF StandsAs
  <2> HIDE DEF path
  <2> QED
    BY <2>2, <2>3, <2>5, <2>6
<1>4. InPlace(<<arm, "1430", o>>, pos) => pos[cal] = "B" /\ Out(o)
  <2> DEFINE path == PathTo("1430", o)
  <2>1. path = <<<<"cal_laser", "B">>, <<"forward_retro", "A">>, Toward(o)>>
    BY DEF PathTo, Sets
  <2>2. Toward(o)[1] = "ao_fei" /\ Toward(o)[2] = (IF o = "ao" THEN "A" ELSE "B")
    BY DEF Toward, Sets
  <2>3. /\ {1, 3} \subseteq DOMAIN path
        /\ path[1][1] = "cal_laser" /\ path[1][2] = "B"
        /\ path[3] = Toward(o)
    BY <2>1
  <2>4. <<arm, "1430", o>> \in RouteNames
    BY <1>1 DEF Inputs
  <2>5. InPlace(<<arm, "1430", o>>, pos) <=> StandsAs(arm, "1430", o, pos)
    BY <2>4, InPlaceThere, Zenon
  <2>6. StandsAs(arm, "1430", o, pos)
           <=> \A i \in DOMAIN path : pos[<<arm, path[i][1]>>] = path[i][2]
    BY DEF StandsAs
  <2> HIDE DEF path
  <2> QED
    BY <2>2, <2>3, <2>5, <2>6
<1> HIDE DEF cal, Out
<1> QED
  BY <1>2, <1>3, <1>4

LEMMA RegistersAreNatural == Registers16 \subseteq Nat
BY DEF Registers16

(* A getter of MaimanDriver whose request failed returns a value that no   *)
(* register gives: -273.15 is no tenth of a degree, -1 no unsigned value.  *)
THEOREM FailedReadingIsTold ==
    \A q \in Quantities, raw \in Registers16 : Reading(q, raw) # Reading(q, Failed)
<1> SUFFICES ASSUME NEW q \in Quantities, NEW raw \in Registers16
             PROVE  Reading(q, raw) # Reading(q, Failed)
  OBVIOUS
<1>0. raw \in Nat
  BY RegistersAreNatural
<1>1. Reading(q, raw) = Scaled(q, raw) /\ Reading(q, Failed) = Refusal(q)
  <2>1. raw # Failed
    BY <1>0 DEF Failed
  <2> QED
    BY <2>1 DEF Reading
<1>2. CASE q \in Temperatures
  <2>1. toSigned(raw) \in Int
    <3>1. raw - 65536 \in Int
      BY <1>0
    <3>2. toSigned(raw) = raw \/ toSigned(raw) = raw - 65536
      BY DEF toSigned
    <3> QED
      BY <1>0, <3>1, <3>2
  <2>2. Scaled(q, raw) = 100 * toSigned(raw) /\ Refusal(q) = -273150
    BY <1>2 DEF Scaled, Unit, Refusal
  <2>3. \A x \in Int : 100 * x # -273150
    OBVIOUS
  <2> QED
    BY <1>1, <2>1, <2>2, <2>3
<1>3. CASE q \notin Temperatures
  <2>1. Scaled(q, raw) \in Nat /\ Refusal(q) = -1000
    <3>1. Scaled(q, raw) = Unit(q) * raw /\ Refusal(q) = -1000
      BY <1>3 DEF Scaled, Refusal
    <3>2. Unit(q) \in Nat
      BY DEF Unit
    <3> QED
      BY <1>0, <3>1, <3>2
  <2> QED
    BY <1>1, <2>1
<1> QED
  BY <1>2, <1>3

(* The flags have no such value: a laser that does not answer reads as one *)
(* that is stopped and whose interlock is not denied.                      *)
THEOREM FailedStatusReadsAsStopped == \A f \in DOMAIN Flag : ~isBitSet(Failed, f)
<1> SUFFICES ASSUME NEW f \in DOMAIN Flag PROVE ~isBitSet(Failed, f)
  OBVIOUS
<1>1. getRawStatus(Failed) = 0
  BY DEF getRawStatus, Failed
<1>2. Flag[f] \in {1, 2, 4, 8, 16}
  BY DEF Flag
<1> QED
  BY <1>1, <1>2 DEF isBitSet

----------------------------------------------------------------------------
(* The copies in command_in.                                               *)

Marks == Characters \union {Junk}

\* A key's characters are in a block of the heap that has room for them.
KeyIn(key, h) ==
    /\ key \in [at : 0 .. Len(h) - 1, len : Nat, cap : Nat]
    /\ key.len <= Len(h[key.at + 1])

\* Blocks are never moved, and keep their size.
Extends(h, g) ==
    /\ g \in Seq(Seq(Marks)) /\ Len(h) <= Len(g)
    /\ \A b \in 1 .. Len(h) : Len(g[b]) = Len(h[b])

LEMMA KeyKept ==
    ASSUME NEW h \in Seq(Seq(Marks)), NEW g, Extends(h, g), NEW key, KeyIn(key, h)
    PROVE  KeyIn(key, g)
<1>. DEFINE n == Len(h)
            m == Len(g)
            a == key.at
<1>1. n \in Nat /\ m \in Nat /\ n <= m
  BY LenProperties DEF Extends
<1>2. key = [at |-> key.at, len |-> key.len, cap |-> key.cap] /\ a \in 0 .. n - 1 /\ key.len \in Nat /\ key.cap \in Nat
  BY DEF KeyIn
<1>3. a + 1 \in 1 .. n /\ a \in 0 .. m - 1
  BY <1>1, <1>2
<1>4. Len(g[a + 1]) = Len(h[a + 1]) /\ key.len <= Len(h[a + 1])
  BY <1>3 DEF Extends, KeyIn
<1>5. key \in [at : 0 .. m - 1, len : Nat, cap : Nat]
  BY <1>2, <1>3
<1>. QED  BY <1>4, <1>5 DEF KeyIn

LEMMA WrittenFacts ==
    ASSUME NEW c \in Seq(Marks), NEW k \in Seq(Characters), Len(k) <= Len(c)
    PROVE  /\ Written(c, k) \in Seq(Marks) /\ Len(Written(c, k)) = Len(c)
           /\ SubSeq(Written(c, k), 1, Len(k)) = k
<1>. DEFINE n == Len(c)
            m == Len(k)
            w == Written(c, k)
            e(i) == IF i \in DOMAIN k THEN k[i] ELSE c[i]
<1>1. n \in Nat /\ m \in Nat /\ DOMAIN c = 1 .. n /\ DOMAIN k = 1 .. m /\ m <= n
  BY LenProperties
<1>2. (\A i \in 1 .. n : c[i] \in Marks) /\ \A i \in 1 .. m : k[i] \in Characters
  OBVIOUS
<1>3. w = [i \in 1 .. n |-> e(i)]
  BY <1>1 DEF Written
<1>. HIDE DEF n, m, w
<1>4. \A i \in 1 .. n : e(i) \in Marks
  BY <1>1, <1>2 DEF Marks
<1>5. w \in Seq(Marks) /\ Len(w) = n
  <2>. HIDE DEF e
  <2>1. [i \in 1 .. n |-> e(i)] \in Seq(Marks)
    BY <1>1, <1>4, IsASeq
  <2>2. Len([i \in 1 .. n |-> e(i)]) = n
    BY <1>1
  <2>. QED  BY <1>3, <2>1, <2>2
<1>6. \A i \in 1 .. m : w[i] = k[i]
  BY <1>1, <1>3
<1>. DEFINE u == SubSeq(w, 1, m)
<1>7. u \in Seq(Marks) /\ Len(u) = m /\ \A i \in 1 .. m : u[i] = w[i]
  BY <1>1, <1>5
<1>8. k \in Seq(Marks)
  BY SeqMonotonic DEF Marks
<1>. HIDE DEF u
<1>9. u = k
  BY <1>6, <1>7, <1>8, SeqEqual DEF m
<1>. QED  BY <1>5, <1>9 DEF n, m, w, u

LEMMA BlankFacts ==
    ASSUME NEW n \in Nat
    PROVE  Blank(n) \in Seq(Marks) /\ Len(Blank(n)) = n
BY DEF Blank, Marks

\* The key of msg has the whole of its block as its room, and spells a key that
\* was sent when there is a command to offer.
QcInv ==
    /\ coms_at \in {"receive", "offer"} /\ exec_at \in {"take", "look", "handle"}
    /\ parsed \in Nat /\ msg_args \in 0 .. parsed
    /\ heap \in Seq(Seq(Marks)) /\ heap # << >>
    /\ KeyIn(msg_key, heap) /\ msg_key.cap = Len(Block(msg_key.at))
    /\ coms_at = "offer" => Chars(msg_key) \in KeysSent

CopyIn(c, h, n) ==
    /\ c = [key |-> c.key, args |-> c.args, own |-> c.own]
    /\ KeyIn(c.key, h) /\ c.args \in 0 .. n /\ c.own \in KeysSent \union {<< >>}

CopiesInv ==
    /\ copies \in Seq({copies[i] : i \in DOMAIN copies}) /\ Len(copies) <= CommandLen
    /\ \A i \in DOMAIN copies : CopyIn(copies[i], heap, parsed)
    /\ CopyIn(copy, heap, parsed)
    /\ acts = [key |-> acts.key, args |-> acts.args] /\ acts.args \in BOOLEAN
    /\ Len(acts.key) <= Len(Block(copy.key.at))

LEMMA KeysAreSeqs == KeysSent \subseteq Seq(Characters) /\ \A k \in KeysSent : Len(k) \in Nat /\ k \in Seq(Marks)
<1>1. KeysSent \subseteq Seq(Characters)
  BY QueueCopiesAssumption
<1>2. \A k \in Seq(Characters) : Len(k) \in Nat /\ k \in Seq(Marks)
  BY SeqMonotonic, LenProperties DEF Marks
<1>. QED  BY <1>1, <1>2

LEMMA AssignFacts ==
    ASSUME QcInv, NEW k \in KeysSent, AssignKey(k)
    PROVE  /\ Extends(heap, heap') /\ heap' # << >>
           /\ KeyIn(msg_key', heap') /\ msg_key'.cap = Len(heap'[msg_key'.at + 1])
           /\ SubSeq(heap'[msg_key'.at + 1], 1, msg_key'.len) = k
<1>. DEFINE n == Len(heap)
            a == msg_key.at
            r == msg_key.cap
            l == Len(k)
<1>1. n \in Nat /\ heap \in Seq(Seq(Marks)) /\ n # 0
  BY LenProperties, EmptySeq DEF QcInv
<1>2. /\ msg_key = [at |-> a, len |-> msg_key.len, cap |-> r] /\ a \in 0 .. n - 1 /\ r \in Nat
      /\ r = Len(heap[a + 1])
  BY DEF QcInv, KeyIn, Block
<1>3. k \in Seq(Characters) /\ l \in Nat
  BY KeysAreSeqs
<1>4. \A b \in 1 .. n : heap[b] \in Seq(Marks) /\ Len(heap[b]) \in Nat
  BY <1>1, LenProperties
<1>. HIDE DEF n, l
<1>5. CASE l <= r
  <2>. DEFINE w == Written(heap[a + 1], k)
              g == [heap EXCEPT ![a + 1] = w]
  <2>1. a + 1 \in 1 .. n
    BY <1>1, <1>2
  <2>2. w \in Seq(Marks) /\ Len(w) = r /\ SubSeq(w, 1, l) = k
    BY <1>2, <1>3, <1>4, <1>5, <2>1, WrittenFacts DEF l
  <2>3. msg_key' = [msg_key EXCEPT !.len = l] /\ heap' = g
    BY <1>5 DEF AssignKey, l
  <2>. HIDE DEF w
  <2>4. g \in Seq(Seq(Marks)) /\ Len(g) = n /\ g[a + 1] = w /\ \A b \in 1 .. n : b # a + 1 => g[b] = heap[b]
    BY <1>1, <2>1, <2>2, ExceptSeq DEF n
  <2>5. msg_key'.at = a /\ msg_key'.len = l /\ msg_key'.cap = r /\ msg_key' \in [at : 0 .. n - 1, len : Nat, cap : Nat]
    BY <1>2, <1>3, <2>3
  <2>. HIDE DEF g, a, r
  <2>6. Extends(heap, heap')
    <3>1. \A b \in 1 .. n : Len(g[b]) = Len(heap[b])
      BY <1>2, <2>2, <2>4
    <3>2. Len(heap) <= Len(g)
      BY <1>1, <2>4 DEF n
    <3>. QED  BY <2>3, <2>4, <3>1, <3>2 DEF Extends, n
  <2>7. heap' # << >>
    BY <1>1, <2>3, <2>4, EmptySeq
  <2>8. KeyIn(msg_key', heap')
    BY <1>5, <2>2, <2>3, <2>4, <2>5 DEF KeyIn
  <2>. QED  BY <2>2, <2>3, <2>4, <2>5, <2>6, <2>7, <2>8
<1>6. CASE ~(l <= r)
  <2>. DEFINE cap == Larger(2 * r, l)
              w == Written(Blank(cap), k)
              f(b) == IF b = 1 THEN [heap[1] EXCEPT ![1] = Junk] ELSE Blank(Len(heap[b]))
              old == [b \in DOMAIN heap |-> f(b)]
              g == Append(old, w)
  <2>1. cap \in Nat /\ l <= cap
    BY <1>2, <1>3 DEF Larger
  <2>2. msg_key' = [at |-> n, len |-> l, cap |-> cap] /\ heap' = g
    BY <1>6 DEF AssignKey, l, n
  <2>. HIDE DEF cap
  <2>3. w \in Seq(Marks) /\ Len(w) = cap /\ SubSeq(w, 1, l) = k
    BY <1>3, <2>1, BlankFacts, WrittenFacts DEF l
  <2>. HIDE DEF w
  <2>4. \A b \in 1 .. n : f(b) \in Seq(Marks) /\ Len(f(b)) = Len(heap[b])
    <3>1. ASSUME NEW b \in 1 .. n, b # 1
          PROVE  f(b) \in Seq(Marks) /\ Len(f(b)) = Len(heap[b])
      BY <1>4, <3>1, BlankFacts
    <3>2. [heap[1] EXCEPT ![1] = Junk] \in Seq(Marks) /\ Len([heap[1] EXCEPT ![1] = Junk]) = Len(heap[1])
      <4>1. heap[1] \in Seq(Marks) /\ Junk \in Marks
        BY <1>1, <1>4 DEF Marks
      <4>. DEFINE h == heap[1]
      <4>. HIDE DEF h
      <4>2. h \in Seq(Marks)
        BY <4>1 DEF h
      <4>3. CASE 1 \in 1 .. Len(h)
        BY <4>1, <4>2, <4>3, ExceptSeq DEF h
      <4>4. CASE ~(1 \in 1 .. Len(h))
        <5>1. DOMAIN h = 1 .. Len(h)
          BY <4>2, LenProperties
        <5>2. [h EXCEPT ![1] = Junk] = h
          BY <4>2, <4>4, <5>1
        <5>. QED  BY <4>2, <5>2 DEF h
      <4>. QED  BY <4>3, <4>4
    <3>. QED  BY <3>1, <3>2
  <2>. HIDE DEF f
  <2>5. old \in Seq(Seq(Marks)) /\ Len(old) = n /\ \A b \in 1 .. n : old[b] = f(b)
    <3>1. DOMAIN heap = 1 .. n
      BY <1>1, LenProperties DEF n
    <3>2. [b \in 1 .. n |-> f(b)] \in Seq(Seq(Marks))
      BY <1>1, <2>4, IsASeq
    <3>. QED  BY <1>1, <3>1, <3>2
  <2>. HIDE DEF old
  <2>6. g \in Seq(Seq(Marks)) /\ Len(g) = n + 1 /\ g[n + 1] = w /\ \A b \in 1 .. n : g[b] = old[b]
    BY <2>3, <2>5, AppendProperties
  <2>. HIDE DEF g
  <2>7. Extends(heap, heap')
    <3>1. \A b \in 1 .. n : Len(g[b]) = Len(heap[b])
      BY <2>4, <2>5, <2>6
    <3>2. n <= Len(g)
      BY <1>1, <2>6
    <3>. QED  BY <2>2, <2>6, <3>1, <3>2 DEF Extends, n
  <2>8. heap' # << >>
    BY <1>1, <2>2, <2>6, EmptySeq
  <2>9. msg_key'.at = n /\ msg_key'.len = l /\ msg_key'.cap = cap /\ n \in 0 .. (n + 1) - 1
    BY <1>1, <2>2
  <2>10. msg_key' \in [at : 0 .. (n + 1) - 1, len : Nat, cap : Nat]
    BY <1>3, <2>1, <2>2, <2>9
  <2>11. KeyIn(msg_key', heap')
    BY <2>1, <2>2, <2>3, <2>6, <2>9, <2>10 DEF KeyIn
  <2>. QED  BY <2>2, <2>3, <2>6, <2>7, <2>8, <2>9, <2>11
<1>. QED  BY <1>5, <1>6

LEMMA OfItsElements ==
    ASSUME NEW S, NEW s \in Seq(S)
    PROVE  s \in Seq({s[i] : i \in DOMAIN s})
<1>. DEFINE R == {s[i] : i \in DOMAIN s}
<1>1. Len(s) \in Nat /\ DOMAIN s = 1 .. Len(s) /\ s = [i \in 1 .. Len(s) |-> s[i]]
  BY LenProperties
<1>2. \A i \in 1 .. Len(s) : s[i] \in R
  BY <1>1
<1>. HIDE DEF R
<1>3. [i \in 1 .. Len(s) |-> s[i]] \in Seq(R)
  BY <1>1, <1>2
<1>4. s \in Seq(R)
  BY <1>1, <1>3, Zenon
<1>. QED  BY <1>4, Zenon DEF R

LEMMA CopyKept ==
    ASSUME NEW h \in Seq(Seq(Marks)), NEW g, Extends(h, g), NEW p \in Nat, NEW q \in Nat, p <= q,
           NEW c, CopyIn(c, h, p)
    PROVE  CopyIn(c, g, q) /\ Len(g[c.key.at + 1]) = Len(h[c.key.at + 1])
<1>1. KeyIn(c.key, g)
  BY KeyKept DEF CopyIn
<1>. DEFINE a == c.key.at
<1>2. Len(h) \in Nat /\ a \in 0 .. Len(h) - 1
  BY LenProperties DEF CopyIn, KeyIn
<1>. DEFINE n == Len(h)
            b == a + 1
<1>5. b \in 1 .. n
  BY <1>2
<1>3. Len(g[b]) = Len(h[b])
  BY <1>5 DEF Extends
<1>4. c.args \in 0 .. q
  BY DEF CopyIn
<1>. QED  BY <1>1, <1>3, <1>4 DEF CopyIn

LEMMA CharsFacts ==
    ASSUME NEW h \in Seq(Seq(Marks)), NEW key, KeyIn(key, h)
    PROVE  LET cs == SubSeq(h[key.at + 1], 1, key.len)
           IN  cs \in Seq(Marks) /\ Len(cs) <= Len(h[key.at + 1])
<1>. DEFINE a == key.at
            b == h[a + 1]
            n == key.len
<1>1. Len(h) \in Nat /\ a \in 0 .. Len(h) - 1 /\ n \in Nat /\ n <= Len(b)
  BY LenProperties DEF KeyIn
<1>2. b \in Seq(Marks)
  BY <1>1
<1>. HIDE DEF b, n
<1>3. Len(b) \in Nat
  BY <1>2, LenProperties
<1>4. SubSeq(b, 1, n) \in Seq(Marks) /\ Len(SubSeq(b, 1, n)) = n
  BY <1>1, <1>2, <1>3
<1>. QED  BY <1>1, <1>4 DEF b, n

LEMMA QcStart == QcInit => QcInv /\ CopiesInv
<1>. SUFFICES ASSUME QcInit PROVE QcInv /\ CopiesInv
  OBVIOUS
<1>. DEFINE b == Blank(LocalCap)
<1>1. LocalCap \in Nat /\ CommandLen \in Nat
  BY QueueCopiesAssumption
<1>2. b \in Seq(Marks) /\ Len(b) = LocalCap
  BY <1>1, BlankFacts
<1>3. heap = <<b>>
  BY DEF QcInit
<1>. HIDE DEF b
<1>4. heap \in Seq(Seq(Marks)) /\ Len(heap) = 1 /\ heap[1] = b /\ heap # << >>
  BY <1>2, <1>3
<1>5. NoKey.at = 0 /\ NoKey.len = 0 /\ NoKey.cap = LocalCap /\ KeyIn(NoKey, heap)
  BY <1>1, <1>2, <1>4 DEF NoKey, KeyIn
<1>6. QcInv
  BY <1>1, <1>2, <1>4, <1>5 DEF QcInv, QcInit, Block
<1>7. CopyIn(NoCopy, heap, 0)
  <2>1. NoCopy.key = NoKey /\ NoCopy.args = 0 /\ NoCopy.own = << >>
          /\ NoCopy = [key |-> NoCopy.key, args |-> NoCopy.args, own |-> NoCopy.own]
    BY DEF NoCopy
  <2>. QED  BY <1>5, <2>1 DEF CopyIn
<1>8. acts = [key |-> << >>, args |-> TRUE] /\ copies = << >> /\ copy = NoCopy /\ parsed = 0
  BY DEF QcInit, Nothing
<1>9. copies \in Seq({copies[i] : i \in DOMAIN copies}) /\ Len(copies) = 0 /\ DOMAIN copies = {}
  BY <1>8
<1>10. Len(acts.key) = 0 /\ acts = [key |-> acts.key, args |-> acts.args] /\ acts.args \in BOOLEAN
  BY <1>8
<1>11. Len(Block(copy.key.at)) = LocalCap
  BY <1>2, <1>4, <1>5, <1>8 DEF Block, NoCopy
<1>12. CopiesInv
  BY <1>1, <1>7, <1>8, <1>9, <1>10, <1>11 DEF CopiesInv
<1>. QED  BY <1>6, <1>12

LEMMA QcDecode ==
    ASSUME QcInv, CopiesInv, NEW k \in KeysSent, NEW object \in BOOLEAN, NEW returned \in BOOLEAN,
           Decode(k, object, returned)
    PROVE  QcInv' /\ CopiesInv'
<1>1. AssignKey(k) /\ parsed' = parsed + 1 /\ msg_args' = (IF object THEN parsed' ELSE 0)
        /\ coms_at' = (IF returned THEN "offer" ELSE "receive") /\ UNCHANGED <<copies, exec_at, copy, acts>>
  BY DEF Decode, execVars
<1>2. Extends(heap, heap') /\ heap' # << >> /\ KeyIn(msg_key', heap')
        /\ msg_key'.cap = Len(heap'[msg_key'.at + 1])
        /\ SubSeq(heap'[msg_key'.at + 1], 1, msg_key'.len) = k
  BY <1>1, AssignFacts
<1>3. heap' \in Seq(Seq(Marks)) /\ heap \in Seq(Seq(Marks)) /\ parsed \in Nat
  BY <1>2 DEF Extends, QcInv
<1>4. parsed' \in Nat /\ parsed <= parsed' /\ msg_args' \in 0 .. parsed' /\ coms_at' \in {"receive", "offer"}
  BY <1>1, <1>3
<1>5. exec_at' \in {"take", "look", "handle"}
  BY <1>1 DEF QcInv
<1>6. QcInv'
  BY <1>2, <1>3, <1>4, <1>5 DEF QcInv, Chars, Block
<1>7. \A i \in DOMAIN copies : CopyIn(copies[i], heap', parsed')
  BY <1>2, <1>3, <1>4, CopyKept DEF CopiesInv
<1>8. CopyIn(copy, heap', parsed') /\ Len(heap'[copy.key.at + 1]) = Len(heap[copy.key.at + 1])
  BY <1>2, <1>3, <1>4, CopyKept DEF CopiesInv
<1>9. CopiesInv'
  BY <1>1, <1>7, <1>8 DEF CopiesInv, Block
<1>. QED  BY <1>6, <1>9

LEMMA QcOffer ==
    ASSUME QcInv, CopiesInv, OfferCopy
    PROVE  QcInv' /\ CopiesInv'
<1>1. coms_at = "offer" /\ coms_at' = "receive" /\ UNCHANGED <<msg_key, msg_args, parsed, heap, exec_at, copy, acts>>
  BY DEF OfferCopy, execVars
<1>2. QcInv'
  BY <1>1 DEF QcInv, Block, Chars
<1>. DEFINE c == [key |-> msg_key, args |-> msg_args, own |-> Chars(msg_key)]
            n == Len(copies)
<1>3. copies' = IF n < CommandLen THEN Append(copies, c) ELSE copies
  BY DEF OfferCopy
<1>4. CopyIn(c, heap, parsed)
  BY <1>1 DEF CopyIn, QcInv
<1>. HIDE DEF c
<1>5. CASE ~(n < CommandLen)
  <2>1. copies' = copies
    BY <1>3, <1>5
  <2>. QED  BY <1>1, <1>2, <2>1 DEF CopiesInv, Block
<1>6. CASE n < CommandLen
  <2>. DEFINE S == {copies[i] : i \in DOMAIN copies} \union {c}
              g == Append(copies, c)
  <2>1. copies \in Seq({copies[i] : i \in DOMAIN copies})
    BY DEF CopiesInv
  <2>2. copies \in Seq(S) /\ c \in S
    BY <2>1, SeqMonotonic
  <2>. HIDE DEF S
  <2>3. n \in Nat /\ DOMAIN copies = 1 .. n
    BY <2>2, LenProperties
  <2>4. g \in Seq(S) /\ Len(g) = n + 1 /\ g[n + 1] = c /\ \A i \in 1 .. n : g[i] = copies[i]
    BY <2>2, AppendProperties
  <2>. HIDE DEF g
  <2>5. g \in Seq({g[i] : i \in DOMAIN g}) /\ DOMAIN g = 1 .. n + 1
    BY <2>3, <2>4, OfItsElements, LenProperties
  <2>6. \A i \in DOMAIN g : CopyIn(g[i], heap, parsed)
    <3>1. \A i \in 1 .. n : CopyIn(g[i], heap, parsed)
      BY <2>3, <2>4 DEF CopiesInv
    <3>2. \A i \in 1 .. n + 1 : i \in 1 .. n \/ i = n + 1
      BY <2>3
    <3>. QED  BY <1>4, <2>4, <2>5, <3>1, <3>2
  <2>7. Len(g) <= CommandLen
    BY <1>6, <2>3, <2>4, QueueCopiesAssumption
  <2>8. copies' = g
    BY <1>3, <1>6 DEF g
  <2>. QED  BY <1>1, <1>2, <2>5, <2>6, <2>7, <2>8 DEF CopiesInv, Block
<1>. QED  BY <1>2, <1>5, <1>6

LEMMA QcTake ==
    ASSUME QcInv, CopiesInv, TakeCopy
    PROVE  QcInv' /\ CopiesInv'
<1>1. UNCHANGED <<coms_at, msg_key, msg_args, parsed, heap>> /\ exec_at' = "look" /\ acts' = Nothing
        /\ copies # << >> /\ copy' = Head(copies) /\ copies' = Tail(copies)
  BY DEF TakeCopy, comsVars
<1>2. QcInv'
  BY <1>1 DEF QcInv, Block, Chars
<1>. DEFINE S == {copies[i] : i \in DOMAIN copies}
            n == Len(copies)
            t == Tail(copies)
<1>3. copies \in Seq(S) /\ n <= CommandLen
  BY DEF CopiesInv
<1>. HIDE DEF S
<1>4. n \in Nat /\ n # 0 /\ DOMAIN copies = 1 .. n
  BY <1>1, <1>3, LenProperties, EmptySeq
<1>5. t \in Seq(S) /\ Len(t) = n - 1 /\ Head(copies) = copies[1] /\ \A i \in 1 .. n - 1 : t[i] = copies[i + 1]
  BY <1>1, <1>3, <1>4, HeadTailProperties
<1>. HIDE DEF t
<1>6. t \in Seq({t[i] : i \in DOMAIN t}) /\ DOMAIN t = 1 .. n - 1
  BY <1>5, OfItsElements, LenProperties
<1>7. \A i \in 1 .. n - 1 : i + 1 \in 1 .. n
  BY <1>4
<1>8. \A i \in DOMAIN t : CopyIn(t[i], heap, parsed)
  BY <1>4, <1>5, <1>6, <1>7 DEF CopiesInv
<1>9. CopyIn(copy', heap, parsed)
  BY <1>1, <1>4, <1>5 DEF CopiesInv
<1>10. Len(t) <= CommandLen
  BY <1>3, <1>4, <1>5, QueueCopiesAssumption
<1>. DEFINE b == heap[copy'.key.at + 1]
<1>11. 0 <= Len(b)
  <2>1. heap \in Seq(Seq(Marks))
    BY DEF QcInv
  <2>2. KeyIn(copy'.key, heap)
    BY <1>9 DEF CopyIn
  <2>3. copy'.key.len \in Nat /\ copy'.key.len <= Len(b) /\ copy'.key.at \in 0 .. Len(heap) - 1 /\ Len(heap) \in Nat
    BY <2>1, <2>2, LenProperties DEF KeyIn
  <2>4. b \in Seq(Marks)
    BY <2>1, <2>3
  <2>. HIDE DEF b
  <2>. QED  BY <2>4, LenProperties
<1>12. acts' = [key |-> acts'.key, args |-> acts'.args] /\ acts'.args \in BOOLEAN /\ Len(acts'.key) = 0
  BY <1>1 DEF Nothing
<1>13. t = copies'
  BY <1>1 DEF t
<1>. QED  BY <1>1, <1>2, <1>6, <1>8, <1>9, <1>10, <1>11, <1>12, <1>13 DEF CopiesInv, Block

LEMMA QcLook ==
    ASSUME QcInv, CopiesInv, LookUp \/ Handle
    PROVE  QcInv' /\ CopiesInv'
<1>1. UNCHANGED <<coms_at, msg_key, msg_args, parsed, heap, copies, copy>> /\ exec_at' \in {"take", "handle"}
        /\ acts'.key = Chars(copy.key) /\ acts'.args \in BOOLEAN /\ acts' = [key |-> acts'.key, args |-> acts'.args]
  <2>. DEFINE cs == Chars(copy.key)
  <2>. HIDE DEF cs
  <2>1. acts = [key |-> acts.key, args |-> acts.args] /\ acts.args \in BOOLEAN
    BY DEF CopiesInv
  <2>2. CASE LookUp
    <3>1. acts' = [acts EXCEPT !.key = cs] /\ exec_at' = "handle"
            /\ UNCHANGED <<coms_at, msg_key, msg_args, parsed, heap, copies, copy>>
      BY <2>2 DEF LookUp, comsVars, cs
    <3>2. acts' = [key |-> cs, args |-> acts.args]
      BY <2>1, <3>1
    <3>. QED  BY <2>1, <3>1, <3>2 DEF cs
  <2>3. CASE Handle
    <3>1. acts' = [key |-> cs, args |-> Alive(copy.args)] /\ exec_at' = "take"
            /\ UNCHANGED <<coms_at, msg_key, msg_args, parsed, heap, copies, copy>>
      BY <2>3 DEF Handle, comsVars, cs
    <3>2. Alive(copy.args) \in BOOLEAN
      BY DEF Alive
    <3>. QED  BY <3>1, <3>2 DEF cs
  <2>. QED  BY <2>2, <2>3
<1>2. QcInv'
  BY <1>1 DEF QcInv, Block, Chars
<1>3. KeyIn(copy.key, heap) /\ heap \in Seq(Seq(Marks))
  BY DEF CopiesInv, CopyIn, QcInv
<1>4. Len(Chars(copy.key)) <= Len(Block(copy.key.at))
  BY <1>3, CharsFacts DEF Chars, Block
<1>. QED  BY <1>1, <1>2, <1>4 DEF CopiesInv, Block

LEMMA QcTyped ==
    ASSUME QcInv, CopiesInv
    PROVE  QcTypeOK
<1>. DEFINE R == [at : 0 .. Len(heap) - 1, len : Nat, cap : Nat]
            O == KeysSent \union {<< >>}
            C == [key : R, args : 0 .. parsed, own : O]
            S == {copies[i] : i \in DOMAIN copies}
<1>1. \A c : CopyIn(c, heap, parsed) => c \in C /\ c.key.len <= Len(Block(c.key.at))
  <2>. SUFFICES ASSUME NEW c, CopyIn(c, heap, parsed)
                PROVE  c \in C /\ c.key.len <= Len(Block(c.key.at))
    OBVIOUS
  <2>1. c = [key |-> c.key, args |-> c.args, own |-> c.own] /\ c.key \in R /\ c.args \in 0 .. parsed
          /\ c.own \in O /\ c.key.len <= Len(heap[c.key.at + 1])
    BY DEF CopyIn, KeyIn
  <2>. HIDE DEF R, O
  <2>. QED  BY <2>1 DEF Block
<1>2. copies \in Seq(S) /\ Len(copies) <= CommandLen
  BY DEF CopiesInv
<1>3. \A i \in DOMAIN copies : copies[i] \in C /\ copies[i].key.len <= Len(Block(copies[i].key.at))
  BY <1>1 DEF CopiesInv
<1>4. S \subseteq C
  BY <1>3
<1>. HIDE DEF S, C
<1>5. copies \in Seq(C)
  BY <1>2, <1>4, SeqMonotonic
<1>6. copy \in C /\ copy.key.len <= Len(Block(copy.key.at))
  BY <1>1 DEF CopiesInv
<1>7. acts.args \in BOOLEAN /\ Len(acts.key) <= Len(Block(copy.key.at))
  BY DEF CopiesInv
<1>8. msg_key \in R /\ msg_key.len <= Len(Block(msg_key.at)) /\ msg_args \in 0 .. parsed
        /\ coms_at \in {"receive", "offer"} /\ exec_at \in {"take", "look", "handle"}
  BY DEF QcInv, KeyIn, Block
<1>. QED  BY <1>2, <1>3, <1>5, <1>6, <1>7, <1>8 DEF QcTypeOK, C, R, O

LEMMA QcHolds == QcSpec => [](QcInv /\ CopiesInv)
<1>1. QcInit => QcInv /\ CopiesInv
  BY QcStart
<1>2. QcInv /\ CopiesInv /\ [QcNext]_qcVars => (QcInv /\ CopiesInv)'
  <2>. SUFFICES ASSUME QcInv, CopiesInv, [QcNext]_qcVars
                PROVE  (QcInv /\ CopiesInv)'
    OBVIOUS
  <2>1. ASSUME NEW k \in KeysSent, NEW object \in BOOLEAN, NEW returned \in BOOLEAN,
               Decode(k, object, returned)
        PROVE  QcInv' /\ CopiesInv'
    BY <2>1, QcDecode
  <2>2. CASE OfferCopy
    BY <2>2, QcOffer
  <2>3. CASE TakeCopy
    BY <2>3, QcTake
  <2>4. CASE LookUp \/ Handle
    BY <2>4, QcLook
  <2>5. CASE UNCHANGED qcVars
    BY <2>5 DEF qcVars, comsVars, execVars, QcInv, CopiesInv, Block, Chars
  <2>. QED  BY <2>1, <2>2, <2>3, <2>4, <2>5 DEF QcNext
<1>. QED  BY <1>1, <1>2, PTL DEF QcSpec

\* Whatever the copies of the queue and the object they were copied from do to
\* each other: no copy's key is longer than the block its characters are read from
\* (decode() never shortens or moves a block), and the queue keeps its length.
THEOREM QcTypeOKHolds == QcSpec => []QcTypeOK
<1>1. QcInv /\ CopiesInv => QcTypeOK
  BY QcTyped
<1>. QED  BY <1>1, QcHolds, PTL

\* The number of msg's object is that of the last message decoded, so that a copy
\* that has it was made of what msg holds now.
Latest(c) ==
    c.args # 0 /\ c.args = msg_args => c.key = msg_key /\ c.own = Chars(msg_key)

LatestInv ==
    /\ QcInv /\ CopiesInv
    /\ Latest(copy) /\ \A i \in DOMAIN copies : Latest(copies[i])

\* When the handler of a command finds the arguments' object where the copy points,
\* it also finds the key that was accepted.
NeverAMixture ==
    [][Handle /\ copy.args # 0 /\ Alive(copy.args)
         => acts' = [key |-> copy.own, args |-> TRUE]]_qcVars

LEMMA LatestStart == QcInit => LatestInv
<1>. SUFFICES ASSUME QcInit PROVE LatestInv
  OBVIOUS
<1>1. QcInv /\ CopiesInv
  BY QcStart
<1>2. copy.args = 0
  BY DEF QcInit, NoCopy
<1>3. DOMAIN copies = {}
  BY DEF QcInit
<1>. QED  BY <1>1, <1>2, <1>3 DEF LatestInv, Latest

LEMMA LatestKept ==
    ASSUME LatestInv, QcNext, QcInv', CopiesInv'
    PROVE  LatestInv'
<1>1. Latest(copy) /\ \A i \in DOMAIN copies : Latest(copies[i])
  BY DEF LatestInv
<1>2. ASSUME NEW k \in KeysSent, NEW object \in BOOLEAN, NEW returned \in BOOLEAN,
             Decode(k, object, returned)
      PROVE  LatestInv'
  <2>1. parsed' = parsed + 1 /\ msg_args' \in {0, parsed'} /\ UNCHANGED <<copies, copy>>
    BY <1>2 DEF Decode, execVars
  <2>2. parsed \in Nat /\ copy.args \in 0 .. parsed
          /\ \A i \in DOMAIN copies : copies[i].args \in 0 .. parsed
    BY DEF LatestInv, QcInv, CopiesInv, CopyIn
  <2>3. copy.args = 0 \/ copy.args # msg_args'
    BY <2>1, <2>2
  <2>4. \A i \in DOMAIN copies : copies[i].args = 0 \/ copies[i].args # msg_args'
    BY <2>1, <2>2
  <2>. QED  BY <2>1, <2>3, <2>4 DEF LatestInv, Latest
<1>3. CASE OfferCopy
  <2>. DEFINE c == [key |-> msg_key, args |-> msg_args, own |-> Chars(msg_key)]
              n == Len(copies)
  <2>1. UNCHANGED <<msg_key, msg_args, heap, copy>>
          /\ copies' = IF n < CommandLen THEN Append(copies, c) ELSE copies
    BY <1>3 DEF OfferCopy, execVars
  <2>2. Latest(c)
    BY DEF Latest
  <2>. HIDE DEF c
  <2>4. ASSUME NEW i \in DOMAIN copies'
        PROVE  copies'[i] = c \/ (i \in DOMAIN copies /\ copies'[i] = copies[i])
    <3>. DEFINE S == {copies[j] : j \in DOMAIN copies} \union {c}
    <3>1. copies \in Seq({copies[j] : j \in DOMAIN copies})
      BY DEF LatestInv, CopiesInv
    <3>2. copies \in Seq(S) /\ c \in S
      BY <3>1, SeqMonotonic
    <3>. HIDE DEF S
    <3>3. n \in Nat /\ DOMAIN copies = 1 .. n
      BY <3>2, LenProperties
    <3>4. Append(copies, c) \in Seq(S) /\ Len(Append(copies, c)) = n + 1
            /\ Append(copies, c)[n + 1] = c
            /\ \A j \in 1 .. n : Append(copies, c)[j] = copies[j]
      BY <3>2, AppendProperties
    <3>5. CASE copies' = copies
      BY <3>5
    <3>6. CASE copies' = Append(copies, c)
      <4>1. DOMAIN copies' = 1 .. n + 1
        BY <3>4, <3>6, LenProperties
      <4>2. i \in 1 .. n \/ i = n + 1
        BY <3>3, <4>1
      <4>. QED  BY <3>3, <3>4, <3>6, <4>2
    <3>. QED  BY <2>1, <3>5, <3>6
  <2>5. Latest(copy)'
    BY <1>1, <2>1 DEF Latest, Chars, Block
  <2>6. ASSUME NEW i \in DOMAIN copies'
        PROVE  Latest(copies[i])'
    <3>1. Latest(copies'[i])
      BY <1>1, <2>2, <2>4
    <3>. QED  BY <2>1, <3>1 DEF Latest, Chars, Block
  <2>. QED  BY <2>5, <2>6 DEF LatestInv
<1>4. CASE TakeCopy
  <2>1. UNCHANGED <<msg_key, msg_args, heap>> /\ copies # << >>
          /\ copy' = Head(copies) /\ copies' = Tail(copies)
    BY <1>4 DEF TakeCopy, comsVars
  <2>. DEFINE S == {copies[j] : j \in DOMAIN copies}
              n == Len(copies)
  <2>2. copies \in Seq(S)
    BY DEF LatestInv, CopiesInv
  <2>. HIDE DEF S
  <2>3. n \in Nat /\ n # 0 /\ DOMAIN copies = 1 .. n
    BY <2>1, <2>2, LenProperties, EmptySeq
  <2>4. copies' \in Seq(S) /\ Len(copies') = n - 1 /\ copy' = copies[1]
          /\ \A i \in 1 .. n - 1 : copies'[i] = copies[i + 1]
    BY <2>1, <2>2, <2>3, HeadTailProperties
  <2>5. DOMAIN copies' = 1 .. n - 1
    BY <2>4, LenProperties
  <2>6. Latest(copy') /\ \A i \in DOMAIN copies' : Latest(copies'[i])
    <3>1. 1 \in 1 .. n /\ \A i \in 1 .. n - 1 : i + 1 \in 1 .. n
      BY <2>3
    <3>. QED  BY <1>1, <2>3, <2>4, <2>5, <3>1
  <2>. QED  BY <2>1, <2>6 DEF LatestInv, Latest, Chars, Block
<1>5. CASE LookUp \/ Handle
  <2>1. UNCHANGED <<msg_key, msg_args, heap, copies, copy>>
    BY <1>5 DEF LookUp, Handle, comsVars
  <2>. QED  BY <1>1, <2>1 DEF LatestInv, Latest, Chars, Block
<1>. QED  BY <1>2, <1>3, <1>4, <1>5 DEF QcNext

\* The copies' faults come together: a handler that still finds the object of its
\* command's arguments (executor_task.cpp) also finds the key that was accepted.
\* What ActsOnWhatWasAccepted fails for is decoding another message, nothing else.
THEOREM NeverAMixtureHolds == QcSpec => NeverAMixture
<1>1. QcInit => LatestInv
  BY LatestStart
<1>2. LatestInv /\ [QcNext]_qcVars /\ QcInv' /\ CopiesInv' => LatestInv'
  <2>1. LatestInv /\ QcNext /\ QcInv' /\ CopiesInv' => LatestInv'
    BY LatestKept
  <2>2. LatestInv /\ UNCHANGED qcVars /\ QcInv' /\ CopiesInv' => LatestInv'
    BY DEF qcVars, comsVars, execVars, LatestInv, Latest, Chars, Block
  <2>. QED  BY <2>1, <2>2
<1>3. LatestInv => [Handle /\ copy.args # 0 /\ Alive(copy.args)
                      => acts' = [key |-> copy.own, args |-> TRUE]]_qcVars
  <2>. SUFFICES ASSUME LatestInv, Handle, copy.args # 0, Alive(copy.args)
                PROVE  acts' = [key |-> copy.own, args |-> TRUE]
    OBVIOUS
  <2>1. copy.args = msg_args
    BY DEF Alive
  <2>2. Chars(copy.key) = copy.own
    BY <2>1 DEF LatestInv, Latest
  <2>3. Alive(copy.args) = TRUE
    BY DEF Alive
  <2>. QED  BY <2>2, <2>3 DEF Handle
<1>. QED  BY <1>1, <1>2, <1>3, QcHolds, PTL DEF QcSpec, NeverAMixture

----------------------------------------------------------------------------
(* The board as a whole.                                                   *)

\* Every variable of the four parts stays in its type, and queues, answers under
\* way, buffers and blocks keep their capacity: the executor with its devices,
\* photodiode_task with the ADC, ZyreFramer, the copies in command_in.
THEOREM BoardTypeOKHolds == Spec => []BoardTypeOK
<1>1. Init => DevInit /\ TelInit /\ FrInit /\ QcInit
  BY DEF Init
<1>2. [Next]_vars => [DevNext]_devVars
  BY DEF Next, vars, Executes
<1>3. [Next]_vars => [TelNext]_telVars
  BY DEF Next, vars, Executes
<1>4. [Next]_vars => [FrNext]_frVars
  BY DEF Next, vars, Executes
<1>5. [Next]_vars => [QcNext]_qcVars
  BY DEF Next, vars, Executes
<1>6. DevTypeOK /\ TelInv /\ FrTypeOK /\ QcTypeOK => BoardTypeOK
  BY DEF BoardTypeOK, TelInv
<1>. QED  BY <1>1, <1>2, <1>3, <1>4, <1>5, <1>6, DevTypeOKHolds, TelInvHolds, FrTypeOKHolds, QcTypeOKHolds, PTL
          DEF Spec, DevSpec, FrSpec, QcSpec
============================================================================
