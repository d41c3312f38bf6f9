----------------------------- MODULE Echo_proofs -----------------------------
(***************************************************************************)
(* EchoIsOwn for the servers of loopback.c and multicast.c, for any number *)
(* of sockets, sizes of memory and buffer, and however long peers talk.    *)
(*                                                                         *)
(* TCP.  What a peer said goes through four places: the receive memory of  *)
(* the socket, the buffer of the program, the transmit memory, the peer's  *)
(* ear.  The inductive invariant says that on a live connection the four,  *)
(* from the ear back, are one run of the numbers 1 .. said; that a         *)
(* connection that is ending keeps this for what it can still transmit;    *)
(* and where in its loop the program is while it has data in its buffer.   *)
(* Compiled for a W6x00 the numbers may repeat, and only that all of it    *)
(* belongs to the connection is claimed.                                   *)
(*                                                                         *)
(* UDP.  A datagram in the transmit memory goes to the address register as *)
(* it was set for it, and nothing is left there when no sendto() waits.    *)
(*                                                                         *)
(* The second half is EchoTypeOK: registers and variables have values they *)
(* can have, and what is in a memory or in the buffer fits.                *)
(***************************************************************************)
EXTENDS EchoServers, Recursions

USE SocketAssumption, EchoAssumption

----------------------------------------------------------------------------
(* Runs of bytes.                                                          *)

Item == [who : {0, 1}, n : Nat]

\* The bytes of connection c after the first from; numbered, unless repeats.
RunOf(repeats, q, c, from) ==
    \A i \in 1 .. Len(q) : q[i].who = c /\ (~repeats => q[i].n = from + i)

LEMMA EmptyRun ==
    ASSUME NEW x, NEW c, NEW f
    PROVE  RunOf(x, << >>, c, f) /\ << >> \in Seq(Item) /\ Len(<< >>) = 0
BY EmptySeq DEF RunOf

LEMMA RunConcat ==
    ASSUME NEW x, NEW c, NEW f \in Nat, NEW a \in Seq(Item), NEW b \in Seq(Item)
    PROVE  /\ a \o b \in Seq(Item) /\ Len(a \o b) = Len(a) + Len(b)
           /\ RunOf(x, a \o b, c, f) <=> RunOf(x, a, c, f) /\ RunOf(x, b, c, f + Len(a))
<1>. DEFINE m == Len(a)
            n == Len(b)
            q == a \o b
<1>1. m \in Nat /\ n \in Nat
  BY LenProperties
<1>2. /\ q \in Seq(Item) /\ Len(q) = m + n
      /\ \A i \in 1 .. m + n : q[i] = IF i <= m THEN a[i] ELSE b[i - m]
  BY ConcatProperties
<1>3. ASSUME RunOf(x, q, c, f)
      PROVE  RunOf(x, a, c, f) /\ RunOf(x, b, c, f + m)
  <2>1. ASSUME NEW i \in 1 .. m
        PROVE  a[i].who = c /\ (~x => a[i].n = f + i)
    <3>. HIDE DEF q, m, n
    <3>1. i \in 1 .. m + n /\ i <= m
      BY <1>1
    <3>2. q[i] = a[i]
      BY <3>1, <1>2
    <3>. QED  BY <1>2, <1>3, <3>1, <3>2 DEF RunOf
  <2>2. ASSUME NEW i \in 1 .. n
        PROVE  b[i].who = c /\ (~x => b[i].n = f + m + i)
    <3>. HIDE DEF q, m, n
    <3>1. i + m \in 1 .. m + n /\ ~(i + m <= m) /\ i + m - m = i
      BY <1>1
    <3>2. q[i + m] = b[i]
      <4>1. q[i + m] = b[(i + m) - m]
        BY <3>1, <1>2
      <4>2. (i + m) - m = i
        BY <1>1
      <4>. QED  BY <4>1, <4>2
    <3>3. q[i + m].who = c /\ (~x => q[i + m].n = f + (i + m))
      BY <1>2, <1>3, <3>1 DEF RunOf
    <3>4. f + (i + m) = f + m + i
      BY <1>1
    <3>. QED  BY <3>2, <3>3, <3>4
  <2>. QED  BY <2>1, <2>2 DEF RunOf
<1>4. ASSUME RunOf(x, a, c, f), RunOf(x, b, c, f + m)
      PROVE  RunOf(x, q, c, f)
  <2>1. ASSUME NEW i \in 1 .. m + n
        PROVE  q[i].who = c /\ (~x => q[i].n = f + i)
    <3>. HIDE DEF q, m, n
    <3>1. CASE i <= m
      <4>1. i \in 1 .. m
        BY <3>1, <1>1
      <4>. QED  BY <4>1, <3>1, <1>2, <1>4 DEF RunOf, m
    <3>2. CASE ~(i <= m)
      <4>1. i - m \in 1 .. n /\ f + m + (i - m) = f + i
        BY <3>2, <1>1
      <4>2. b[i - m].who = c /\ (~x => b[i - m].n = f + m + (i - m))
        BY <4>1, <1>4 DEF RunOf, n
      <4>. QED  BY <4>1, <4>2, <3>2, <1>2
    <3>. QED  BY <3>1, <3>2
  <2>. QED  BY <2>1, <1>2 DEF RunOf
<1>. QED  BY <1>2, <1>3, <1>4

\* A run cut in two.
LEMMA RunSplit ==
    ASSUME NEW x, NEW c, NEW f \in Nat, NEW q \in Seq(Item), NEW j \in 0 .. Len(q)
    PROVE  /\ SubSeq(q, 1, j) \in Seq(Item) /\ SubSeq(q, j + 1, Len(q)) \in Seq(Item)
           /\ Len(SubSeq(q, 1, j)) = j /\ Len(SubSeq(q, j + 1, Len(q))) = Len(q) - j
           /\ q = SubSeq(q, 1, j) \o SubSeq(q, j + 1, Len(q))
           /\ RunOf(x, q, c, f) <=> /\ RunOf(x, SubSeq(q, 1, j), c, f)
                                    /\ RunOf(x, SubSeq(q, j + 1, Len(q)), c, f + j)
<1>. DEFINE n == Len(q)
<1>1. n \in Nat /\ j \in Int /\ 0 <= j /\ j <= n
  BY LenProperties
<1>2. \A i \in 1 .. n : q[i] \in Item
  BY ElementOfSeq
<1>. HIDE DEF n
<1>3. \A i \in 1 .. j : q[i] \in Item
  BY <1>1, <1>2
<1>4. \A i \in j + 1 .. n : q[i] \in Item
  BY <1>1, <1>2
<1>5. SubSeq(q, 1, j) \in Seq(Item) /\ Len(SubSeq(q, 1, j)) = IF 1 <= j THEN j - 1 + 1 ELSE 0
  BY <1>1, <1>3, SubSeqProperties
<1>6. /\ SubSeq(q, j + 1, n) \in Seq(Item)
      /\ Len(SubSeq(q, j + 1, n)) = IF j + 1 <= n THEN n - (j + 1) + 1 ELSE 0
  <2>1. j + 1 \in Int
    BY <1>1
  <2>. QED  BY <1>1, <1>4, <2>1, SubSeqProperties
<1>7. Len(SubSeq(q, 1, j)) = j
  BY <1>1, <1>5
<1>8. Len(SubSeq(q, j + 1, n)) = n - j
  BY <1>1, <1>6
<1>9. q = SubSeq(q, 1, j) \o SubSeq(q, j + 1, n)
  <2>1. 1 \in 1 .. n + 1 /\ j \in 1 - 1 .. n /\ n \in j .. n
    BY <1>1
  <2>2. SubSeq(q, 1, j) \o SubSeq(q, j + 1, n) = SubSeq(q, 1, n)
    BY <2>1, ConcatAdjacentSubSeq DEF n
  <2>. QED  BY <2>2, SubSeqFull DEF n
<1>. DEFINE a == SubSeq(q, 1, j)
            b == SubSeq(q, j + 1, n)
<1>10. RunOf(x, q, c, f) <=> RunOf(x, a, c, f) /\ RunOf(x, b, c, f + j)
  <2>. HIDE DEF a, b
  <2>1. a \in Seq(Item) /\ b \in Seq(Item) /\ Len(a) = j /\ q = a \o b
    BY <1>5, <1>6, <1>7, <1>9 DEF a, b
  <2>. QED  BY <2>1, RunConcat
<1>. QED  BY <1>5, <1>6, <1>7, <1>8, <1>9, <1>10 DEF n

----------------------------------------------------------------------------
(* One connection: what the peer heard, and transmit memory, buffer and    *)
(* receive memory behind it.                                               *)

Fresh == {"INIT", "LISTEN", "SYNSENT"}

\* sr: status; h: heard; t, r: transmit and receive memory; snd: how much of t
\* is being sent; c: the connection; sd: said; p: what the program holds.
Stream(x, sr, h, t, r, snd, c, sd, p) ==
    /\ RunOf(x, h, c, 0)
    /\ sr \in Live \union {"LAST_ACK"} => RunOf(x, t, c, Len(h))
    /\ sr \in Live =>
           /\ RunOf(x, p, c, Len(h) + Len(t))
           /\ RunOf(x, r, c, Len(h) + Len(t) + Len(p))
           /\ ~x => sd = Len(h) + Len(t) + Len(p) + Len(r)
    /\ sr \in Fresh => h = << >> /\ t = << >> /\ r = << >> /\ sd = 0 /\ snd = 0
    /\ snd <= Len(t)

LEMMA NotFresh == \A sr \in Live \union {"LAST_ACK", "CLOSED"} : sr \notin Fresh
BY DEF Live, Fresh

\* The program hands over the first part of what it holds.
LEMMA StreamSends ==
    ASSUME NEW x, NEW sr \in Live, NEW c, NEW sd, NEW snd,
           NEW h \in Seq(Item), NEW t \in Seq(Item), NEW r \in Seq(Item), NEW p \in Seq(Item),
           NEW m \in 0 .. Len(p), NEW snd2 \in 0 .. Len(t) + m,
           Stream(x, sr, h, t, r, snd, c, sd, p)
    PROVE  /\ t \o SubSeq(p, 1, m) \in Seq(Item)
           /\ Stream(x, sr, h, t \o SubSeq(p, 1, m), r, snd2, c, sd, SubSeq(p, m + 1, Len(p)))
<1>. DEFINE d  == SubSeq(p, 1, m)
            p2 == SubSeq(p, m + 1, Len(p))
            t2 == t \o d
<1>1. Len(h) \in Nat /\ Len(t) \in Nat /\ Len(p) \in Nat /\ Len(r) \in Nat
  BY LenProperties
<1>2. /\ d \in Seq(Item) /\ p2 \in Seq(Item) /\ Len(d) = m /\ Len(p2) = Len(p) - m
      /\ RunOf(x, d, c, Len(h) + Len(t)) /\ RunOf(x, p2, c, Len(h) + Len(t) + m)
  <2>. DEFINE f == Len(h) + Len(t)
  <2>1. f \in Nat /\ RunOf(x, p, c, f)
    BY <1>1 DEF Stream
  <2>. HIDE DEF f
  <2>2. /\ d \in Seq(Item) /\ p2 \in Seq(Item) /\ Len(d) = m /\ Len(p2) = Len(p) - m
        /\ RunOf(x, d, c, f) /\ RunOf(x, p2, c, f + m)
    BY <2>1, RunSplit
  <2>. QED  BY <2>2 DEF f
<1>. HIDE DEF d, p2
<1>3. t2 \in Seq(Item) /\ Len(t2) = Len(t) + m /\ RunOf(x, t2, c, Len(h))
  <2>1. RunOf(x, t, c, Len(h))
    BY DEF Stream
  <2>. DEFINE f == Len(h)
              g == Len(t)
  <2>2. f \in Nat /\ g \in Nat /\ f + g = Len(h) + Len(t)
    BY <1>1
  <2>3. RunOf(x, t, c, f) /\ RunOf(x, d, c, f + g)
    BY <1>2, <2>1
  <2>. HIDE DEF f
  <2>4. t2 \in Seq(Item) /\ Len(t2) = Len(t) + Len(d)
        /\ (RunOf(x, t2, c, f) <=> RunOf(x, t, c, f) /\ RunOf(x, d, c, f + Len(t)))
    BY <1>2, <2>2, RunConcat, Zenon
  <2>. QED  BY <1>2, <2>3, <2>4 DEF f
<1>. HIDE DEF t2
<1>4. Len(h) + Len(t) + m = Len(h) + Len(t2)
  BY <1>1, <1>3
<1>5. Len(h) + Len(t2) + Len(p2) = Len(h) + Len(t) + Len(p)
  BY <1>1, <1>2, <1>3
<1>6. Stream(x, sr, h, t2, r, snd2, c, sd, p2)
  <2>1. RunOf(x, r, c, Len(h) + Len(t2) + Len(p2))
    BY <1>5 DEF Stream
  <2>2. RunOf(x, p2, c, Len(h) + Len(t2))
    BY <1>2, <1>4
  <2>3. ~x => sd = Len(h) + Len(t2) + Len(p2) + Len(r)
    BY <1>5 DEF Stream
  <2>4. snd2 <= Len(t2)
    BY <1>1, <1>3
  <2>. QED  BY <1>3, <2>1, <2>2, <2>3, <2>4, NotFresh DEF Stream
<1>. QED  BY <1>3, <1>6 DEF t2, d, p2

\* All of what was being sent is acknowledged.
LEMMA StreamHeard ==
    ASSUME NEW x, NEW sr \in Live \union {"LAST_ACK"}, NEW c, NEW sd, NEW snd \in Nat,
           NEW h \in Seq(Item), NEW t \in Seq(Item), NEW r \in Seq(Item), NEW p \in Seq(Item),
           Stream(x, sr, h, t, r, snd, c, sd, p)
    PROVE  /\ h \o SubSeq(t, 1, snd) \in Seq(Item) /\ SubSeq(t, snd + 1, Len(t)) \in Seq(Item)
           /\ Stream(x, sr, h \o SubSeq(t, 1, snd), SubSeq(t, snd + 1, Len(t)), r, 0, c, sd, p)
<1>. DEFINE d  == SubSeq(t, 1, snd)
            t2 == SubSeq(t, snd + 1, Len(t))
            h2 == h \o d
<1>1. Len(h) \in Nat /\ Len(t) \in Nat /\ Len(p) \in Nat /\ Len(r) \in Nat
  BY LenProperties
<1>2. snd \in 0 .. Len(t)
  BY <1>1 DEF Stream
<1>3. /\ d \in Seq(Item) /\ t2 \in Seq(Item) /\ Len(d) = snd /\ Len(t2) = Len(t) - snd
      /\ RunOf(x, d, c, Len(h)) /\ RunOf(x, t2, c, Len(h) + snd)
  <2>1. RunOf(x, t, c, Len(h))
    BY DEF Stream
  <2>. QED  BY <1>1, <1>2, <2>1, RunSplit
<1>. HIDE DEF d, t2
<1>4. h2 \in Seq(Item) /\ Len(h2) = Len(h) + snd /\ RunOf(x, h2, c, 0)
  <2>. DEFINE z == 0
  <2>1. z \in Nat /\ RunOf(x, h, c, z) /\ RunOf(x, d, c, z + Len(h))
    BY <1>1, <1>3 DEF Stream
  <2>. HIDE DEF z
  <2>2. h2 \in Seq(Item) /\ Len(h2) = Len(h) + Len(d)
        /\ (RunOf(x, h2, c, z) <=> RunOf(x, h, c, z) /\ RunOf(x, d, c, z + Len(h)))
    BY <1>3, <2>1, RunConcat, Zenon
  <2>. QED  BY <1>3, <2>1, <2>2 DEF z
<1>. HIDE DEF h2
<1>5. Len(h2) + Len(t2) = Len(h) + Len(t)
  BY <1>1, <1>3, <1>4
<1>6. RunOf(x, t2, c, Len(h2)) /\ 0 <= Len(t2)
  BY <1>1, <1>2, <1>3, <1>4
<1>7. Stream(x, sr, h2, t2, r, 0, c, sd, p)
  BY <1>4, <1>5, <1>6, NotFresh DEF Stream
<1>. QED  BY <1>3, <1>4, <1>7 DEF h2, d, t2

\* Some of it is, and the chip gives up.
LEMMA StreamCut ==
    ASSUME NEW x, NEW sr \in Live \union {"LAST_ACK"}, NEW c, NEW sd, NEW snd \in Nat,
           NEW h \in Seq(Item), NEW t \in Seq(Item), NEW r \in Seq(Item), NEW p \in Seq(Item),
           Stream(x, sr, h, t, r, snd, c, sd, p), NEW k \in 0 .. snd
    PROVE  /\ h \o SubSeq(t, 1, k) \in Seq(Item)
           /\ Stream(x, "CLOSED", h \o SubSeq(t, 1, k), t, r, 0, c, sd, p)
<1>. DEFINE d == SubSeq(t, 1, k)
            h2 == h \o d
<1>1. Len(h) \in Nat /\ Len(t) \in Nat
  BY LenProperties
<1>2. k \in 0 .. Len(t)
  BY <1>1 DEF Stream
<1>3. d \in Seq(Item) /\ RunOf(x, d, c, Len(h))
  BY <1>1, <1>2, RunSplit DEF Stream
<1>. HIDE DEF d
<1>4. h2 \in Seq(Item) /\ RunOf(x, h2, c, 0)
  <2>1. RunOf(x, h, c, 0) /\ RunOf(x, d, c, 0 + Len(h))
    BY <1>1, <1>3 DEF Stream
  <2>. QED  BY <1>3, <2>1, RunConcat
<1>. HIDE DEF h2
<1>5. Stream(x, "CLOSED", h2, t, r, 0, c, sd, p)
  BY <1>1, <1>4 DEF Stream, Live, Fresh
<1>. QED  BY <1>4, <1>5 DEF h2, d

\* The program, which holds nothing, reads n bytes.
LEMMA StreamReads ==
    ASSUME NEW x, NEW sr \in Live, NEW c, NEW sd, NEW snd,
           NEW h \in Seq(Item), NEW t \in Seq(Item), NEW r \in Seq(Item),
           Stream(x, sr, h, t, r, snd, c, sd, << >>), NEW n \in 0 .. Len(r)
    PROVE  /\ SubSeq(r, 1, n) \in Seq(Item) /\ SubSeq(r, n + 1, Len(r)) \in Seq(Item)
           /\ Stream(x, sr, h, t, SubSeq(r, n + 1, Len(r)), snd, c, sd, SubSeq(r, 1, n))
<1>. DEFINE p2 == SubSeq(r, 1, n)
            r2 == SubSeq(r, n + 1, Len(r))
            from == Len(h) + Len(t)
<1>1. Len(h) \in Nat /\ Len(t) \in Nat /\ Len(r) \in Nat
  BY LenProperties
<1>2. Len(<< >>) = 0 /\ from \in Nat /\ from + 0 = from
  BY <1>1, EmptySeq
<1>3. RunOf(x, r, c, from) /\ (~x => sd = from + 0 + Len(r))
  BY <1>2 DEF Stream
<1>4. /\ p2 \in Seq(Item) /\ r2 \in Seq(Item) /\ Len(p2) = n /\ Len(r2) = Len(r) - n
      /\ RunOf(x, p2, c, from) /\ RunOf(x, r2, c, from + n)
  <2>. HIDE DEF from
  <2>1. from \in Nat /\ RunOf(x, r, c, from)
    BY <1>2, <1>3
  <2>. QED  BY <2>1, RunSplit
<1>5. Stream(x, sr, h, t, r2, snd, c, sd, p2)
  <2>. HIDE DEF p2, r2
  <2>1. ~x => sd = from + Len(p2) + Len(r2)
    <3>. HIDE DEF from
    <3>. QED  BY <1>1, <1>2, <1>3, <1>4
  <2>2. RunOf(x, r2, c, from + Len(p2))
    BY <1>4
  <2>. QED  BY <1>4, <2>1, <2>2, NotFresh DEF Stream
<1>. QED  BY <1>4, <1>5

Follows(m, n) == m \in Nat /\ n = m + 1

LEMMA StreamSays ==
    ASSUME NEW x, NEW sr \in Live, NEW c, NEW sd, NEW snd,
           NEW h \in Seq(Item), NEW t \in Seq(Item), NEW r \in Seq(Item), NEW p \in Seq(Item),
           Stream(x, sr, h, t, r, snd, c, sd, p),
           NEW e \in Item, NEW sd2, e.who = c, e.n = sd2, Follows(sd, sd2)
    PROVE  Append(r, e) \in Seq(Item) /\ Stream(x, sr, h, t, Append(r, e), snd, c, sd2, p)
<1>. DEFINE r2 == Append(r, e)
            from == Len(h) + Len(t) + Len(p)
<1>1. Len(h) \in Nat /\ Len(t) \in Nat /\ Len(r) \in Nat /\ Len(p) \in Nat
  BY LenProperties
<1>2. e \in Item /\ e.who = c /\ e.n = sd + 1 /\ sd \in Nat /\ sd2 = sd + 1
  BY DEF Follows
<1>3. /\ r2 \in Seq(Item) /\ Len(r2) = Len(r) + 1
      /\ \A i \in 1 .. Len(r) : r2[i] = r[i]
      /\ r2[Len(r) + 1] = e
  <2>. QED  BY <1>2, AppendProperties
<1>4. RunOf(x, r, c, from) /\ (~x => sd = from + Len(r))
  BY DEF Stream
<1>5. from \in Nat
  BY <1>1
<1>. HIDE DEF r2, from
<1>6. RunOf(x, r2, c, from)
  <2>1. ASSUME NEW i \in 1 .. Len(r2)
        PROVE  r2[i].who = c /\ (~x => r2[i].n = from + i)
    <3>1. CASE i = Len(r) + 1
      <4>1. ~x => from + i = sd + 1
        BY <3>1, <1>1, <1>2, <1>4, <1>5
      <4>. QED  BY <3>1, <4>1, <1>2, <1>3
    <3>2. CASE i # Len(r) + 1
      <4>1. i \in 1 .. Len(r)
        BY <3>2, <1>1, <1>3
      <4>. QED  BY <4>1, <1>3, <1>4 DEF RunOf
    <3>. QED  BY <3>1, <3>2
  <2>. QED  BY <2>1 DEF RunOf
<1>7. ~x => sd2 = from + Len(r2)
  BY <1>1, <1>2, <1>3, <1>4, <1>5
<1>8. Stream(x, sr, h, t, r2, snd, c, sd2, p)
  BY <1>6, <1>7, NotFresh DEF Stream, from
<1>. QED  BY <1>3, <1>8 DEF r2

----------------------------------------------------------------------------
(* TCP: the invariant.                                                     *)

Holds  == {"received", "received in CLOSE_WAIT", "echo", "echo in CLOSE_WAIT"}
Echoes == {"echo", "echo in CLOSE_WAIT"}

\* What the program holds of the stream of socket s: the buffer, and after a
\* send() what that did not take.
Rest    == IF at \in Echoes /\ call.fn = "none"
             THEN IF ret < 0 THEN << >> ELSE SubSeq(buf, ret + 1, Len(buf))
             ELSE buf
Pend(s) == IF cur = s /\ at \in Holds THEN Rest ELSE << >>

ChipTypes ==
    /\ w6x00 \in BOOLEAN
    /\ Sn_SR \in [Socks -> Statuses \ {"UDP"}]
    /\ rx \in [Socks -> Seq(Item)] /\ tx \in [Socks -> Seq(Item)]
    /\ heard \in [Socks -> Seq(Item)] /\ conn \in [Socks -> {0, 1}]
    /\ said \in [Socks -> Nat] /\ sending \in [Socks -> Nat]

TcpTypes == ChipTypes /\ buf \in Seq(Item) /\ ret \in Int

\* The calls that the program makes at a place.
CallsAt(fn) ==
    \/ fn = "none"
    \/ fn = "recv" /\ at \in Holds \ Echoes
    \/ fn = "send" /\ at \in Echoes
    \/ fn \in {"socket", "listen", "connect", "disconnect"} /\ at = "last"
    \/ fn = "close" /\ at = "failed"

TcpProgram ==
    /\ at \in Holds \union {"poll", "last", "failed"}
    /\ CallsAt(call.fn)
    /\ call = [fn |-> call.fn, st |-> call.st, sn |-> call.sn, arg |-> call.arg]
    /\ call.fn = "none" => call = None
    /\ call.fn # "none" => call.sn = cur
    /\ at # "poll" => cur \in Socks
    /\ call.fn = "recv" => buf = << >> /\ call.arg \in Nat
    /\ call.fn = "socket" => call.st = "TCP"
    /\ at = "poll" => buf = << >>
    /\ at \in Holds \ Echoes /\ call.fn = "none" /\ ~(ret > 0) => buf = << >>
    /\ at \in Holds => Sn_SR[cur] \notin Fresh
    /\ at \in Echoes /\ call.fn = "none" /\ ret < 0 => Sn_SR[cur] \notin Live
    /\ call.fn = "send" /\ call.st = "room" => cur \notin sock_is_sending
    /\ call.fn = "send" /\ call.st = "sendok" => w6x00

StreamOf(s) ==
    Stream(w6x00, Sn_SR[s], heard[s], tx[s], rx[s], sending[s], conn[s], said[s], Pend(s))

TcpStreams == \A s \in Socks : StreamOf(s)

TcpInv == TcpTypes /\ TcpProgram /\ TcpStreams /\ echoed = {}

LEMMA PendType ==
    ASSUME TcpTypes
    PROVE  Rest \in Seq(Item) /\ \A s : Pend(s) \in Seq(Item)
<1>1. << >> \in Seq(Item) /\ buf \in Seq(Item) /\ ret \in Int
  BY EmptySeq DEF TcpTypes
<1>2. ret >= 0 => SubSeq(buf, ret + 1, Len(buf)) \in Seq(Item)
  <2>. DEFINE n == Len(buf)
  <2>1. n \in Nat /\ \A i \in 1 .. n : buf[i] \in Item
    BY <1>1, LenProperties, ElementOfSeq
  <2>. HIDE DEF n
  <2>2. ret >= 0 => \A i \in ret + 1 .. n : buf[i] \in Item
    BY <2>1, <1>1
  <2>3. ret + 1 \in Int /\ n \in Int
    BY <2>1, <1>1
  <2>4. ret >= 0 => SubSeq(buf, ret + 1, n) \in Seq(Item)
    BY <2>2, <2>3, SubSeqProperties
  <2>. QED  BY <2>4 DEF n
<1>. QED  BY <1>1, <1>2 DEF Rest, Pend

LEMMA InitTcp == ASSUME EchoInit, ~Udp PROVE TcpInv
<1>. USE DEF EchoInit, SockInit
<1>1. << >> \in Seq(Item) /\ Len(<< >>) = 0
  BY EmptySeq
<1>2. TcpTypes
  BY <1>1 DEF TcpTypes, ChipTypes, SOCK_OK, Statuses
<1>3. TcpProgram
  BY DEF TcpProgram, CallsAt, None, Holds, Echoes
<1>4. TcpStreams
  <2>1. ASSUME NEW s \in Socks
        PROVE  StreamOf(s)
    <3>1. Pend(s) = << >>
      BY DEF Pend, Holds
    <3>2. Stream(w6x00, "CLOSED", << >>, << >>, << >>, 0, 0, 0, << >>)
      BY <1>1, EmptyRun DEF Stream, Live, Fresh
    <3>. QED  BY <3>1, <3>2 DEF StreamOf
  <2>. QED  BY <2>1 DEF TcpStreams
<1>. QED  BY <1>2, <1>3, <1>4 DEF TcpInv

----------------------------------------------------------------------------
(* TCP: the calls.                                                         *)

\* A call or the network changes one socket at most.
OnlySocket(sn) ==
    /\ w6x00' = w6x00
    /\ \A s \in Socks \ {sn} :
           /\ Sn_SR'[s] = Sn_SR[s] /\ heard'[s] = heard[s] /\ tx'[s] = tx[s] /\ rx'[s] = rx[s]
           /\ sending'[s] = sending[s] /\ conn'[s] = conn[s] /\ said'[s] = said[s]

\* The hypotheses shared by the lemmas on calls.
Calling(sn) == TcpInv /\ sn \in Socks /\ call.fn # "none" /\ sn = call.sn /\ Idle

LEMMA CallStreams ==
    ASSUME NEW sn, Calling(sn), OnlySocket(sn), StreamOf(sn)'
    PROVE  TcpStreams'
<1>1. ASSUME NEW s \in Socks, s # sn
      PROVE  StreamOf(s)'
  <2>1. StreamOf(s)
    BY DEF Calling, TcpInv, TcpStreams
  <2>2. cur # s /\ cur' # s
    BY <1>1 DEF Calling, TcpInv, TcpProgram, Idle
  <2>3. Pend(s) = << >> /\ Pend(s)' = << >>
    BY <2>2 DEF Pend
  <2>4. s \in Socks \ {sn}
    BY <1>1
  <2>. QED  BY <2>1, <2>3, <2>4 DEF StreamOf, OnlySocket
<1>. QED  BY <1>1 DEF TcpStreams

LEMMA CallReturns ==
    ASSUME NEW sn, Calling(sn), call' = None,
           at \in Holds => Sn_SR'[sn] \notin Fresh,
           at \in Echoes /\ ret' < 0 => Sn_SR'[sn] \notin Live,
           at \in Holds \ Echoes /\ ~(ret' > 0) => buf' = << >>
    PROVE  TcpProgram'
<1>1. at' = at /\ cur' = cur /\ sn = cur /\ cur \in Socks /\ at # "poll"
  BY DEF Calling, TcpInv, TcpProgram, CallsAt, Idle, Holds, Echoes
<1>2. /\ call'.fn = "none" /\ call' = None
      /\ call' = [fn |-> call'.fn, st |-> call'.st, sn |-> call'.sn, arg |-> call'.arg]
  BY DEF None
<1>3. at \in Holds \union {"poll", "last", "failed"}
  BY DEF Calling, TcpInv, TcpProgram
<1>. QED  BY <1>1, <1>2, <1>3 DEF TcpProgram, CallsAt

LEMMA CallGoesOn ==
    ASSUME NEW sn, Calling(sn), NEW st, Goto(st), call.fn # "recv", call.fn # "socket", buf' = buf,
           at \in Holds => Sn_SR'[sn] \notin Fresh,
           call.fn = "send" /\ st = "room" => sn \notin sock_is_sending',
           call.fn = "send" /\ st = "sendok" => w6x00'
    PROVE  TcpProgram' /\ call'.fn = call.fn
<1>1. at' = at /\ cur' = cur /\ sn = cur /\ cur \in Socks /\ at # "poll" /\ ret' = ret
  BY DEF Calling, TcpInv, TcpProgram, CallsAt, Idle, Holds, Echoes, Goto
<1>2. call' = [fn |-> call.fn, st |-> st, sn |-> call.sn, arg |-> call.arg]
  BY DEF Calling, TcpInv, TcpProgram, Goto
<1>3. /\ call'.fn = call.fn /\ call'.st = st /\ call'.sn = call.sn
      /\ call' = [fn |-> call'.fn, st |-> call'.st, sn |-> call'.sn, arg |-> call'.arg]
  BY <1>2
<1>4. at \in Holds \union {"poll", "last", "failed"} /\ CallsAt(call.fn)
  BY DEF Calling, TcpInv, TcpProgram
<1>5. CallsAt(call.fn)'
  BY <1>1, <1>3, <1>4 DEF CallsAt
<1>. HIDE DEF Fresh, Live
<1>6. call.fn # "none" /\ sn = call.sn
  BY DEF Calling
<1>. QED  BY <1>1, <1>3, <1>4, <1>5, <1>6 DEF TcpProgram

\* The socket is closed: what the peer heard stays, and all else is gone.
LEMMA ClosedStream ==
    ASSUME NEW sn, Calling(sn), close(sn, "CLOSED"), UNCHANGED <<w6x00, peers>>
    PROVE  /\ ChipTypes' /\ OnlySocket(sn) /\ StreamOf(sn)'
           /\ Sn_SR'[sn] \notin Live \union Fresh
<1>. USE DEF Calling, TcpInv, TcpTypes, ChipTypes, close, peers
<1>1. << >> \in Seq(Item) /\ Len(<< >>) = 0
  BY EmptySeq
<1>2. ChipTypes'
  BY <1>1 DEF Statuses
<1>3. OnlySocket(sn)
  BY DEF OnlySocket
<1>4. /\ Sn_SR'[sn] = "CLOSED" /\ tx'[sn] = << >> /\ rx'[sn] = << >> /\ sending'[sn] = 0
      /\ heard'[sn] = heard[sn] /\ conn'[sn] = conn[sn] /\ said'[sn] = said[sn] /\ w6x00' = w6x00
  OBVIOUS
<1>5. RunOf(w6x00, heard[sn], conn[sn], 0)
  BY DEF TcpStreams, StreamOf, Stream
<1>6. StreamOf(sn)'
  <2>1. "CLOSED" \notin Live \union {"LAST_ACK"} /\ "CLOSED" \notin Live /\ "CLOSED" \notin Fresh
    BY DEF Live, Fresh
  <2>. HIDE DEF Calling, TcpInv, TcpTypes, ChipTypes, close, peers
  <2>. QED  BY <1>1, <1>4, <1>5, <2>1 DEF StreamOf, Stream
<1>. QED  BY <1>2, <1>3, <1>4, <1>6 DEF Live, Fresh

\* A call that leaves the sockets as they are.
LEMMA SameStream ==
    ASSUME NEW sn, Calling(sn), UNCHANGED <<w6x00, Sn_SR, rx, tx, sending, peers>>,
           Pend(sn)' = Pend(sn) \/ Sn_SR[sn] \notin Live
    PROVE  ChipTypes' /\ OnlySocket(sn) /\ StreamOf(sn)'
<1>. USE DEF peers
<1>1. StreamOf(sn)
  BY DEF Calling, TcpInv, TcpStreams
<1>2. CASE Pend(sn)' = Pend(sn)
  BY <1>1, <1>2 DEF StreamOf, Calling, TcpInv, TcpTypes, ChipTypes, OnlySocket
<1>3. CASE Sn_SR[sn] \notin Live
  <2>1. StreamOf(sn)'
    BY <1>1, <1>3 DEF StreamOf, Stream
  <2>. QED  BY <2>1 DEF Calling, TcpInv, TcpTypes, ChipTypes, OnlySocket
<1>. QED  BY <1>2, <1>3

LEMMA CallFails ==
    ASSUME NEW sn, Calling(sn), NEW closes \in BOOLEAN, Fails(sn, closes),
           UNCHANGED <<w6x00, buf, peers>>, ~closes => Sn_SR[sn] \notin Live
    PROVE  TcpInv'
<1>1. call' = None /\ ret' = SOCKERR /\ ret' \in Int /\ ret' < 0 /\ buf' = buf /\ echoed' = {}
  BY DEF Fails, Return, SOCKERR, Calling, TcpInv, peers
<1>2. buf \in Seq(Item)
  BY DEF Calling, TcpInv, TcpTypes
<1>3. at \in Holds \ Echoes => buf = << >>
  BY DEF Calling, TcpInv, TcpProgram, CallsAt, Holds, Echoes
<1>4. /\ ChipTypes' /\ OnlySocket(sn) /\ StreamOf(sn)' /\ Sn_SR'[sn] \notin Live
      /\ at \in Holds => Sn_SR'[sn] \notin Fresh
  <2>1. CASE closes
    <3>1. close(sn, "CLOSED")
      BY <2>1 DEF Fails
    <3>. QED  BY <3>1, ClosedStream
  <2>2. CASE ~closes
    <3>1. UNCHANGED <<w6x00, Sn_SR, rx, tx, sending, peers>>
      BY <2>2 DEF Fails
    <3>2. Sn_SR[sn] \notin Live /\ (at \in Holds => Sn_SR[sn] \notin Fresh)
      BY <2>2 DEF Calling, TcpInv, TcpProgram
    <3>. QED  BY <3>1, <3>2, SameStream
  <2>. QED  BY <2>1, <2>2
<1>5. TcpProgram'
  BY <1>1, <1>3, <1>4, CallReturns
<1>6. TcpStreams'
  BY <1>4, CallStreams
<1>. QED  BY <1>1, <1>2, <1>4, <1>5, <1>6 DEF TcpInv, TcpTypes

\* A call ends or goes on, and the socket's memory is as it was.
LEMMA CallLeaves ==
    ASSUME NEW sn, Calling(sn), UNCHANGED <<w6x00, Sn_SR, rx, tx, sending, buf, peers>>,
           call.fn # "recv", call.fn # "socket",
           \/ \E r \in Int : /\ Return(r)
                             /\ at \in Echoes => r = 0 \/ Sn_SR[sn] \notin Live
           \/ \E st : /\ Goto(st)
                      /\ call.fn = "send" /\ st = "room" => sn \notin sock_is_sending'
                      /\ call.fn = "send" /\ st = "sendok" => w6x00
    PROVE  TcpInv'
<1>. USE DEF Calling
<1>1. /\ buf' = buf /\ echoed' = {} /\ w6x00' = w6x00 /\ Sn_SR' = Sn_SR
      /\ at' = at /\ cur' = cur /\ buf \in Seq(Item) /\ ret \in Int
  BY DEF TcpInv, TcpTypes, peers, Idle
<1>2. at \in Holds => Sn_SR'[sn] \notin Fresh
  BY <1>1 DEF TcpInv, TcpProgram
<1>3. at \notin Holds \ Echoes
  BY DEF TcpInv, TcpProgram, CallsAt, Holds, Echoes
<1>4. TcpProgram' /\ ret' \in Int /\ (Pend(sn)' = Pend(sn) \/ Sn_SR[sn] \notin Live)
  <2>1. ASSUME NEW r \in Int, Return(r), at \in Echoes => r = 0 \/ Sn_SR[sn] \notin Live
        PROVE  TcpProgram' /\ ret' \in Int /\ (Pend(sn)' = Pend(sn) \/ Sn_SR[sn] \notin Live)
    <3>1. call' = None /\ call'.fn = "none" /\ ret' = r
      BY <2>1 DEF Return, None
    <3>2. at \in Echoes /\ ret' < 0 => Sn_SR'[sn] \notin Live
      BY <1>1, <2>1, <3>1
    <3>3. TcpProgram'
      BY <1>2, <1>3, <3>1, <3>2, CallReturns
    <3>4. CASE at \in Echoes /\ r = 0
      <4>1. SubSeq(buf, 0 + 1, Len(buf)) = buf
        BY <1>1, SubSeqFull
      <4>2. Rest' = buf /\ Rest = buf
        BY <1>1, <3>1, <3>4, <4>1 DEF Rest
      <4>. QED  BY <1>1, <3>1, <3>3, <4>2 DEF Pend
    <3>5. CASE at \notin Echoes
      BY <1>1, <3>1, <3>3, <3>5 DEF Pend, Rest
    <3>. QED  BY <2>1, <3>1, <3>3, <3>4, <3>5
  <2>2. ASSUME NEW st, Goto(st), call.fn = "send" /\ st = "room" => sn \notin sock_is_sending',
               call.fn = "send" /\ st = "sendok" => w6x00
        PROVE  TcpProgram' /\ ret' \in Int /\ (Pend(sn)' = Pend(sn) \/ Sn_SR[sn] \notin Live)
    <3>1. TcpProgram' /\ call'.fn = call.fn
      BY <1>1, <1>2, <2>2, CallGoesOn
    <3>2. ret' = ret
      BY <2>2 DEF Goto
    <3>. QED  BY <1>1, <3>1, <3>2 DEF Pend, Rest
  <2>. QED  BY <2>1, <2>2
<1>5. ChipTypes' /\ OnlySocket(sn) /\ StreamOf(sn)'
  BY <1>4, SameStream
<1>6. TcpStreams'
  BY <1>5, CallStreams
<1>. QED  BY <1>1, <1>4, <1>5, <1>6 DEF TcpInv, TcpTypes

LEMMA TcpClose == ASSUME NEW sn, Calling(sn), CloseCall(sn) PROVE TcpInv'
<1>1. /\ call' = None /\ ret' \in Int /\ ret' = 1 /\ buf' = buf /\ echoed' = {}
      /\ close(sn, "CLOSED") /\ UNCHANGED <<w6x00, peers>>
  BY DEF CloseCall, Return, SOCK_OK, Calling, TcpInv, peers, caller
<1>2. at \notin Holds /\ at \notin Echoes
  BY DEF Calling, TcpInv, TcpProgram, CallsAt, CloseCall, At, Holds, Echoes
<1>3. ChipTypes' /\ OnlySocket(sn) /\ StreamOf(sn)'
  BY <1>1, ClosedStream
<1>4. TcpProgram'
  BY <1>1, <1>2, CallReturns
<1>5. TcpStreams'
  BY <1>3, CallStreams
<1>6. buf \in Seq(Item)
  BY DEF Calling, TcpInv, TcpTypes
<1>. QED  BY <1>1, <1>3, <1>4, <1>5, <1>6 DEF TcpInv, TcpTypes

LEMMA TcpSocket ==
    ASSUME NEW sn, Calling(sn), NEW protocol \in {"TCP", "UDP"}, socket(sn, protocol)
    PROVE  TcpInv'
<1>1. protocol = "TCP" /\ at = "last" /\ buf \in Seq(Item)
  BY DEF Calling, TcpInv, TcpProgram, TcpTypes, CallsAt, socket, At
<1>2. /\ call' = None /\ ret' \in Int /\ buf' = buf /\ echoed' = {} /\ w6x00' = w6x00
      /\ close(sn, "INIT") /\ conn' = conn
      /\ said' = [said EXCEPT ![sn] = 0] /\ heard' = [heard EXCEPT ![sn] = << >>]
  BY <1>1 DEF socket, Return, SOCK_OK, Calling, TcpInv, caller
<1>3. TcpProgram'
  BY <1>1, <1>2, CallReturns DEF Holds, Echoes
<1>4. << >> \in Seq(Item) /\ Len(<< >>) = 0
  BY EmptySeq
<1>5. ChipTypes' /\ OnlySocket(sn)
  BY <1>2, <1>4 DEF Calling, TcpInv, TcpTypes, ChipTypes, close, Statuses, OnlySocket
<1>6. /\ Sn_SR'[sn] = "INIT" /\ tx'[sn] = << >> /\ rx'[sn] = << >> /\ sending'[sn] = 0
      /\ heard'[sn] = << >> /\ said'[sn] = 0
  BY <1>2 DEF close, Calling, TcpInv, TcpTypes, ChipTypes
<1>7. StreamOf(sn)'
  <2>1. "INIT" \notin Live \union {"LAST_ACK"} /\ "INIT" \notin Live
    BY DEF Live
  <2>. QED  BY <1>4, <1>6, <2>1, EmptyRun DEF StreamOf, Stream
<1>8. TcpStreams'
  BY <1>5, <1>7, CallStreams
<1>. QED  BY <1>1, <1>2, <1>3, <1>5, <1>8 DEF TcpInv, TcpTypes

\* listen() and connect() leave the socket fresh; disconnect() ends a stream
\* where it is.
LEMMA StatusMoves ==
    ASSUME NEW sn, Calling(sn), call.fn \in {"listen", "connect", "disconnect"}, NEW sr,
           Sn_SR' = [Sn_SR EXCEPT ![sn] = sr],
           UNCHANGED <<w6x00, rx, tx, sending, buf, peers>>,
           \/ Sn_SR[sn] \in Fresh /\ sr \in Fresh
           \/ Sn_SR[sn] # "CLOSED" /\ sr = "LAST_ACK",
           \/ \E r \in Int : Return(r)
           \/ \E st : Goto(st)
    PROVE  TcpInv'
<1>1. /\ at = "last" /\ buf' = buf /\ echoed' = {} /\ buf \in Seq(Item) /\ ret \in Int
      /\ at' = "last"
  BY DEF Calling, TcpInv, TcpTypes, TcpProgram, CallsAt, peers, Idle
<1>2. at \notin Holds /\ at \notin Echoes
  BY <1>1 DEF Holds, Echoes
<1>3. TcpProgram' /\ ret' \in Int
  <2>1. ASSUME NEW r \in Int, Return(r)
        PROVE  TcpProgram' /\ ret' \in Int
    BY <1>2, <2>1, CallReturns DEF Return
  <2>2. ASSUME NEW st, Goto(st)
        PROVE  TcpProgram' /\ ret' \in Int
    BY <1>1, <1>2, <2>2, CallGoesOn DEF Goto
  <2>. QED  BY <2>1, <2>2
<1>4. sr \in Statuses \ {"UDP"} /\ sr \notin Live
  BY DEF Fresh, Statuses, Live
<1>5. ChipTypes' /\ OnlySocket(sn) /\ Sn_SR'[sn] = sr
  BY <1>4 DEF Calling, TcpInv, TcpTypes, ChipTypes, OnlySocket, peers
<1>6. StreamOf(sn)'
  <2>1. /\ w6x00' = w6x00 /\ tx' = tx /\ rx' = rx /\ sending' = sending
        /\ heard' = heard /\ conn' = conn /\ said' = said
    BY DEF peers
  <2>2. StreamOf(sn)
    BY DEF Calling, TcpInv, TcpStreams
  <2>3. CASE Sn_SR[sn] \in Fresh /\ sr \in Fresh
    <3>1. sr # "LAST_ACK"
      BY <2>3 DEF Fresh
    <3>. QED  BY <1>4, <1>5, <2>1, <2>2, <2>3, <3>1 DEF StreamOf, Stream
  <2>4. CASE Sn_SR[sn] # "CLOSED" /\ sr = "LAST_ACK"
    <3>1. Sn_SR[sn] \in Live \union {"LAST_ACK"} \union Fresh
      BY <2>4 DEF Calling, TcpInv, TcpTypes, ChipTypes, Statuses, Live, Fresh
    <3>2. RunOf(w6x00, tx[sn], conn[sn], Len(heard[sn]))
      <4>1. CASE Sn_SR[sn] \in Live \union {"LAST_ACK"}
        BY <4>1, <2>2 DEF StreamOf, Stream
      <4>2. CASE Sn_SR[sn] \in Fresh
        BY <4>2, <2>2, EmptyRun DEF StreamOf, Stream
      <4>. QED  BY <3>1, <4>1, <4>2
    <3>3. sr \notin Fresh
      BY <2>4 DEF Fresh
    <3>. QED  BY <1>4, <1>5, <2>1, <2>2, <3>2, <3>3 DEF StreamOf, Stream
  <2>. QED  BY <2>3, <2>4
<1>7. TcpStreams'
  BY <1>5, <1>6, CallStreams
<1>. QED  BY <1>1, <1>3, <1>5, <1>7 DEF TcpInv, TcpTypes

LEMMA ReturnsAre == SOCK_OK \in Int /\ SOCK_BUSY \in Int /\ SOCKERR \in Int
BY DEF SOCK_OK, SOCK_BUSY, SOCKERR

LEMMA TcpListen == ASSUME NEW sn, Calling(sn), listen(sn) PROVE TcpInv'
<1>. USE DEF listen, caller
<1>1. ASSUME call.st = "begin", Sn_SR[sn] = "INIT", Sn_SR' = [Sn_SR EXCEPT ![sn] = "LISTEN"],
             Goto("check"), UNCHANGED <<Sn_IR, Sn_PORT, Sn_DIPR, rx, tx, sending, lib>>
      PROVE  TcpInv'
  BY <1>1, StatusMoves DEF Fresh
<1>2. ASSUME Sn_SR[sn] = "LISTEN", Return(SOCK_OK), UNCHANGED <<chip, lib>>
      PROVE  TcpInv'
  <2>1. Sn_SR[sn] \notin Live
    BY <1>2 DEF Live
  <2>. QED  BY <1>2, <2>1, ReturnsAre, CallLeaves DEF chip
<1>3. ASSUME Fails(sn, TRUE)
      PROVE  TcpInv'
  BY <1>3, CallFails
<1>. QED  BY <1>1, <1>2, <1>3

LEMMA TcpConnect == ASSUME NEW sn, Calling(sn), connect(sn) PROVE TcpInv'
<1>. USE DEF connect, caller
<1>1. ASSUME Sn_SR[sn] = "INIT", Sn_SR' = [Sn_SR EXCEPT ![sn] = "SYNSENT"],
             IF sn \in sock_io_mode THEN Return(SOCK_BUSY) ELSE Goto("wait"),
             UNCHANGED <<Sn_IR, Sn_PORT, Sn_DIPR, rx, tx, sending, lib>>
      PROVE  TcpInv'
  <2>1. (\E r \in Int : Return(r)) \/ (\E st : Goto(st))
    BY <1>1, ReturnsAre
  <2>. QED  BY <1>1, <2>1, StatusMoves DEF Fresh
<1>2. at \notin Echoes
  BY DEF Calling, TcpInv, TcpProgram, CallsAt, Echoes
<1>3. ASSUME Return(SOCK_OK), UNCHANGED <<chip, lib>>
      PROVE  TcpInv'
  BY <1>2, <1>3, ReturnsAre, CallLeaves DEF chip
<1>4. ASSUME Return(SOCKERR), UNCHANGED <<Sn_SR, Sn_PORT, Sn_DIPR, rx, tx, sending, lib>>
      PROVE  TcpInv'
  BY <1>2, <1>4, ReturnsAre, CallLeaves
<1>5. ASSUME Sn_SR[sn] = "CLOSED", Fails(sn, FALSE)
      PROVE  TcpInv'
  BY <1>5, CallFails DEF Live
<1>. QED  BY <1>1, <1>3, <1>4, <1>5

LEMMA TcpDisconnect == ASSUME NEW sn, Calling(sn), disconnect(sn) PROVE TcpInv'
<1>. USE DEF disconnect, caller
<1>1. ASSUME Sn_SR[sn] # "CLOSED", Sn_SR' = [Sn_SR EXCEPT ![sn] = "LAST_ACK"],
             IF sn \in sock_io_mode THEN Return(SOCK_BUSY) ELSE Goto("wait"),
             UNCHANGED <<rx, tx, sending>>
      PROVE  TcpInv'
  <2>1. (\E r \in Int : Return(r)) \/ (\E st : Goto(st))
    BY <1>1, ReturnsAre
  <2>. QED  BY <1>1, <2>1, StatusMoves
<1>2. at \notin Echoes
  BY DEF Calling, TcpInv, TcpProgram, CallsAt, Echoes
<1>3. ASSUME Return(SOCK_OK), UNCHANGED <<chip, lib>>
      PROVE  TcpInv'
  BY <1>2, <1>3, ReturnsAre, CallLeaves DEF chip
<1>4. ASSUME Goto("irq") \/ Goto("wait"), UNCHANGED <<chip, lib>>
      PROVE  TcpInv'
  BY <1>4, CallLeaves DEF chip
<1>5. ASSUME Fails(sn, TRUE)
      PROVE  TcpInv'
  BY <1>5, CallFails
<1>. QED  BY <1>1, <1>3, <1>4, <1>5

----------------------------------------------------------------------------
(* TCP: send() and recv().                                                 *)

LEMMA WhileSending == ASSUME NEW sn, Calling(sn), call.fn = "send"
      PROVE  /\ at \in Echoes /\ at \in Holds /\ cur = sn /\ at' = at /\ cur' = sn
             /\ Sn_SR[sn] \notin Fresh /\ Rest = buf /\ Pend(sn) = buf
             /\ buf \in Seq(Item) /\ StreamOf(sn)
BY DEF Calling, TcpInv, TcpTypes, TcpProgram, TcpStreams, CallsAt, Holds, Echoes, Idle, Rest, Pend

\* What one call writes is the first part of the buffer.
LEMMA DataTaken ==
    ASSUME buf \in Seq(Item)
    PROVE  \E m \in 0 .. Len(buf) : Data = SubSeq(buf, 1, m) /\ Len(Data) = m /\ m \in Nat
<1>. DEFINE m == IF Len(buf) < TxMAX THEN Len(buf) ELSE TxMAX
<1>1. Len(buf) \in Nat
  BY LenProperties
<1>2. m \in 0 .. Len(buf) /\ m \in Nat
  BY <1>1
<1>3. Data = SubSeq(buf, 1, m)
  BY DEF Data
<1>. HIDE DEF m
<1>4. Len(SubSeq(buf, 1, m)) = m
  BY <1>2, RunSplit
<1>. QED  BY <1>2, <1>3, <1>4

LEMMA TcpSendCheck == ASSUME NEW sn, Calling(sn), SendCheck(sn) PROVE TcpInv'
<1>. USE DEF SendCheck, caller
<1>1. ASSUME Sn_SR[sn] \notin Live, Fails(sn, FALSE)
      PROVE  TcpInv'
  BY <1>1, CallFails
<1>2. ASSUME Goto(IF sn \in sock_is_sending THEN "irq" ELSE "room"), UNCHANGED <<chip, lib>>
      PROVE  TcpInv'
  <2>1. CASE sn \in sock_is_sending
    BY <1>2, <2>1, CallLeaves DEF chip, At
  <2>2. CASE sn \notin sock_is_sending
    <3>1. Goto("room") /\ sn \notin sock_is_sending'
      BY <1>2, <2>2 DEF lib
    <3>. QED  BY <1>2, <3>1, CallLeaves DEF chip, At
  <2>. QED  BY <2>1, <2>2
<1>. QED  BY <1>1, <1>2

LEMMA TcpSendIrq == ASSUME NEW sn, Calling(sn), SendIrq(sn) PROVE TcpInv'
<1>. USE DEF SendIrq, caller
<1>1. ASSUME sock_is_sending' = sock_is_sending \ {sn}, Goto("room"),
             UNCHANGED <<Sn_SR, rx, tx, sending>>
      PROVE  TcpInv'
  <2>1. sn \notin sock_is_sending'
    BY <1>1
  <2>. QED  BY <1>1, <2>1, CallLeaves DEF At
<1>2. ASSUME Fails(sn, TRUE)
      PROVE  TcpInv'
  BY <1>2, CallFails
<1>3. ASSUME Return(SOCK_BUSY), UNCHANGED <<chip, lib>>
      PROVE  TcpInv'
  BY <1>3, ReturnsAre, CallLeaves DEF chip, At, SOCK_BUSY
<1>. QED  BY <1>1, <1>2, <1>3

\* Where repeats are not counted, a run may start anywhere.
LEMMA AnyStart ==
    ASSUME NEW q, NEW c, NEW f, NEW g, RunOf(TRUE, q, c, f)
    PROVE  RunOf(TRUE, q, c, g)
BY DEF RunOf

\* The data is written and the call returns what it took.
LEMMA SendWrites ==
    ASSUME NEW sn, Calling(sn), SendRoom(sn), Sn_SR[sn] \in Live, sn \notin sock_is_sending,
           Sends(sn, Data), Return(Len(Data)), UNCHANGED <<w6x00, Sn_SR, rx, buf, peers>>
    PROVE  TcpInv'
<1>. USE DEF Calling
<1>1. call.fn = "send"
  BY DEF SendRoom
<1>2. PICK m \in 0 .. Len(buf) : Data = SubSeq(buf, 1, m) /\ Len(Data) = m /\ m \in Nat
  BY <1>1, WhileSending, DataTaken
<1>3. call' = None /\ call'.fn = "none" /\ ret' = m /\ ret' \in Int /\ ~(ret' < 0)
  <2>1. call' = None /\ ret' = m
    BY <1>2 DEF Return
  <2>2. ~(m < 0) /\ m \in Int
    BY <1>2
  <2>. QED  BY <2>1, <2>2 DEF None
<1>4. Pend(sn)' = SubSeq(buf, m + 1, Len(buf))
  BY <1>1, <1>3, WhileSending DEF Pend, Rest
<1>5. /\ tx' = [tx EXCEPT ![sn] = tx[sn] \o SubSeq(buf, 1, m)]
      /\ sending' = [sending EXCEPT ![sn] = Len(tx'[sn])]
  BY <1>2 DEF Sends
<1>6. /\ tx[sn] \in Seq(Item) /\ rx[sn] \in Seq(Item) /\ heard[sn] \in Seq(Item)
      /\ buf \in Seq(Item) /\ Len(tx[sn]) \in Nat
  BY LenProperties DEF TcpInv, TcpTypes, ChipTypes
<1>7. StreamOf(sn) /\ Pend(sn) = buf
  BY <1>1, WhileSending
<1>. DEFINE t2 == tx[sn] \o SubSeq(buf, 1, m)
<1>8. t2 \in Seq(Item) /\ Len(t2) = Len(tx[sn]) + m /\ Len(t2) \in 0 .. Len(tx[sn]) + m
  <2>1. SubSeq(buf, 1, m) \in Seq(Item) /\ Len(SubSeq(buf, 1, m)) = m
    BY <1>2, <1>6, RunSplit
  <2>2. t2 \in Seq(Item) /\ Len(t2) = Len(tx[sn]) + m
    <3>. DEFINE d == SubSeq(buf, 1, m)
                t == tx[sn]
    <3>1. d \in Seq(Item) /\ Len(d) = m /\ t \in Seq(Item)
      BY <1>6, <2>1
    <3>. HIDE DEF d, t
    <3>2. t \o d \in Seq(Item) /\ Len(t \o d) = Len(t) + Len(d)
      BY <3>1, ConcatProperties
    <3>. QED  BY <3>1, <3>2 DEF d, t
  <2>. HIDE DEF t2
  <2>. QED  BY <1>6, <1>2, <2>2
<1>9. Stream(w6x00, Sn_SR[sn], heard[sn], t2, rx[sn], Len(t2), conn[sn], said[sn],
             SubSeq(buf, m + 1, Len(buf)))
  <2>. DEFINE snd2 == Len(t2)
  <2>1. Stream(w6x00, Sn_SR[sn], heard[sn], tx[sn], rx[sn], sending[sn], conn[sn], said[sn], buf)
    BY <1>7 DEF StreamOf
  <2>2. snd2 \in 0 .. Len(tx[sn]) + m
    BY <1>8
  <2>. HIDE DEF snd2
  <2>3. Stream(w6x00, Sn_SR[sn], heard[sn], tx[sn] \o SubSeq(buf, 1, m), rx[sn], snd2, conn[sn],
               said[sn], SubSeq(buf, m + 1, Len(buf)))
    BY <1>2, <1>6, <2>1, <2>2, StreamSends
  <2>. QED  BY <2>3 DEF snd2
<1>10. tx'[sn] = t2 /\ sending'[sn] = Len(t2)
  BY <1>5 DEF TcpInv, TcpTypes, ChipTypes
<1>11. ChipTypes' /\ OnlySocket(sn) /\ StreamOf(sn)'
  <2>1. tx' \in [Socks -> Seq(Item)] /\ sending' \in [Socks -> Nat]
    <3>. HIDE DEF t2
    <3>1. Len(t2) \in Nat
      BY <1>8, LenProperties
    <3>. QED  BY <1>5, <1>8, <1>10, <3>1 DEF TcpInv, TcpTypes, ChipTypes, t2
  <2>2. ChipTypes' /\ OnlySocket(sn)
    BY <2>1, <1>5 DEF TcpInv, TcpTypes, ChipTypes, OnlySocket, peers
  <2>3. StreamOf(sn)'
    BY <1>4, <1>9, <1>10 DEF StreamOf, peers
  <2>. QED  BY <2>2, <2>3
<1>12. TcpStreams'
  BY <1>11, CallStreams
<1>13. TcpProgram'
  BY <1>1, <1>3, WhileSending, CallReturns
<1>. QED  BY <1>3, <1>6, <1>11, <1>12, <1>13 DEF TcpInv, TcpTypes, peers

\* On a W6x00, with a SEND under way, the data is written before the last SEND
\* has ended, and will be written again.
LEMMA SendWritesEarly ==
    ASSUME NEW sn, Calling(sn), SendRoom(sn), Sn_SR[sn] \in Live, sn \in sock_is_sending,
           tx' = [tx EXCEPT ![sn] = @ \o Data], Goto("sendok"),
           UNCHANGED <<w6x00, Sn_SR, rx, sending, buf, peers>>
    PROVE  TcpInv'
<1>. USE DEF Calling
<1>1. call.fn = "send" /\ w6x00 /\ w6x00' = TRUE /\ w6x00 = TRUE
  BY DEF SendRoom, TcpInv, TcpProgram, TcpTypes, ChipTypes
<1>2. PICK m \in 0 .. Len(buf) : Data = SubSeq(buf, 1, m) /\ Len(Data) = m /\ m \in Nat
  BY <1>1, WhileSending, DataTaken
<1>. DEFINE t  == tx[sn]
            d  == SubSeq(buf, 1, m)
            t2 == t \o d
<1>3. /\ t \in Seq(Item) /\ rx[sn] \in Seq(Item) /\ heard[sn] \in Seq(Item)
      /\ buf \in Seq(Item) /\ Len(t) \in Nat /\ sending[sn] \in Nat
  BY LenProperties DEF TcpInv, TcpTypes, ChipTypes
<1>4. d \in Seq(Item) /\ Len(d) = m
  BY <1>2, <1>3, RunSplit
<1>5. StreamOf(sn) /\ Pend(sn) = buf /\ Sn_SR[sn] \notin Fresh
  BY <1>1, WhileSending
<1>6. TcpProgram' /\ call'.fn = "send"
  BY <1>1, <1>5, CallGoesOn
<1>7. Pend(sn)' = buf /\ ret' = ret
  BY <1>1, <1>6, WhileSending DEF Pend, Rest, Goto
<1>8. tx' = [tx EXCEPT ![sn] = t2] /\ tx'[sn] = t2
  BY <1>2 DEF TcpInv, TcpTypes, ChipTypes
<1>. HIDE DEF t, d
<1>9. t2 \in Seq(Item) /\ Len(t2) = Len(t) + m
  BY <1>3, <1>4, ConcatProperties
<1>10. Stream(TRUE, Sn_SR[sn], heard[sn], t2, rx[sn], sending[sn], conn[sn], said[sn], buf)
  <2>1. Stream(TRUE, Sn_SR[sn], heard[sn], t, rx[sn], sending[sn], conn[sn], said[sn], buf)
    BY <1>1, <1>5 DEF StreamOf, t
  <2>2. sending[sn] <= Len(t)
    BY <2>1 DEF Stream
  <2>3. sending[sn] \in 0 .. Len(t) + m
    BY <1>2, <1>3, <2>2
  <2>4. Stream(TRUE, Sn_SR[sn], heard[sn], t2, rx[sn], sending[sn], conn[sn], said[sn],
               SubSeq(buf, m + 1, Len(buf)))
    BY <1>2, <1>3, <2>1, <2>3, StreamSends DEF d
  <2>. HIDE DEF t2
  <2>5. RunOf(TRUE, buf, conn[sn], Len(heard[sn]) + Len(t2))
    BY <2>1, AnyStart DEF Stream
  <2>6. RunOf(TRUE, rx[sn], conn[sn], Len(heard[sn]) + Len(t2) + Len(buf))
    BY <2>1, AnyStart DEF Stream
  <2>. QED  BY <1>5, <2>4, <2>5, <2>6 DEF Stream
<1>. HIDE DEF t2
<1>11. ChipTypes' /\ OnlySocket(sn) /\ StreamOf(sn)'
  <2>1. ChipTypes' /\ OnlySocket(sn)
    BY <1>8, <1>9 DEF TcpInv, TcpTypes, ChipTypes, OnlySocket, peers
  <2>2. StreamOf(sn)'
    BY <1>1, <1>7, <1>8, <1>10 DEF StreamOf, peers
  <2>. QED  BY <2>1, <2>2
<1>12. TcpStreams'
  BY <1>11, CallStreams
<1>. QED  BY <1>3, <1>6, <1>7, <1>11, <1>12 DEF TcpInv, TcpTypes, peers

LEMMA TcpSendRoom == ASSUME NEW sn, Calling(sn), SendRoom(sn) PROVE TcpInv'
<1>. USE DEF caller
<1>0. UNCHANGED <<w6x00, buf, peers>> /\ call.fn = "send"
  BY DEF SendRoom
<1>1. ASSUME Sn_SR[sn] \notin Live, Fails(sn, Sn_SR[sn] = "CLOSED")
      PROVE  TcpInv'
  <2>1. (Sn_SR[sn] = "CLOSED") \in BOOLEAN
    OBVIOUS
  <2>. DEFINE closes == Sn_SR[sn] = "CLOSED"
  <2>2. Fails(sn, closes) /\ closes \in BOOLEAN
    BY <1>1
  <2>. HIDE DEF closes
  <2>. QED  BY <1>0, <1>1, <2>2, CallFails
<1>2. ASSUME Return(SOCK_BUSY), UNCHANGED <<chip, lib>>
      PROVE  TcpInv'
  BY <1>0, <1>2, ReturnsAre, CallLeaves DEF chip, SOCK_BUSY
<1>3. ASSUME Sn_SR[sn] \in Live, sn \in sock_is_sending,
             tx' = [tx EXCEPT ![sn] = @ \o Data], Goto("sendok"), UNCHANGED sending,
             UNCHANGED <<Sn_SR, rx>>
      PROVE  TcpInv'
  BY <1>0, <1>3, SendWritesEarly
<1>4. ASSUME Sn_SR[sn] \in Live, sn \notin sock_is_sending,
             Sends(sn, Data), Return(Len(Data)), UNCHANGED <<Sn_SR, rx>>
      PROVE  TcpInv'
  BY <1>0, <1>4, SendWrites
<1>. QED  BY <1>1, <1>2, <1>3, <1>4 DEF SendRoom

LEMMA SendEnds ==
    ASSUME NEW sn, Calling(sn), At("send", "sendok"), Sends(sn, << >>), Return(Len(Data)),
           UNCHANGED <<w6x00, Sn_SR, rx, buf, peers>>
    PROVE  TcpInv'
<1>. USE DEF Calling
<1>1. call.fn = "send" /\ w6x00 /\ w6x00' = TRUE /\ w6x00 = TRUE
  BY DEF At, TcpInv, TcpProgram, TcpTypes, ChipTypes
<1>2. PICK m \in 0 .. Len(buf) : Data = SubSeq(buf, 1, m) /\ Len(Data) = m /\ m \in Nat
  BY <1>1, WhileSending, DataTaken
<1>3. call' = None /\ call'.fn = "none" /\ ret' = m /\ ret' \in Int /\ ~(ret' < 0)
  <2>1. call' = None /\ ret' = m
    BY <1>2 DEF Return
  <2>2. ~(m < 0) /\ m \in Int
    BY <1>2
  <2>. QED  BY <2>1, <2>2 DEF None
<1>4. Pend(sn)' = SubSeq(buf, m + 1, Len(buf))
  BY <1>1, <1>3, WhileSending DEF Pend, Rest
<1>5. StreamOf(sn) /\ Pend(sn) = buf /\ Sn_SR[sn] \notin Fresh /\ buf \in Seq(Item)
  BY <1>1, WhileSending
<1>6. tx' = tx /\ tx[sn] \in Seq(Item) /\ Len(tx[sn]) \in Nat
  <2>1. tx[sn] \in Seq(Item) /\ tx \in [Socks -> Seq(Item)]
    BY DEF TcpInv, TcpTypes, ChipTypes
  <2>2. tx[sn] \o << >> = tx[sn]
    BY <2>1, ConcatEmptySeq
  <2>. QED  BY <2>1, <2>2, LenProperties DEF Sends
<1>7. sending' = [sending EXCEPT ![sn] = Len(tx[sn])] /\ sending'[sn] = Len(tx[sn])
  BY <1>6 DEF Sends, TcpInv, TcpTypes, ChipTypes
<1>8. Stream(TRUE, Sn_SR[sn], heard[sn], tx[sn], rx[sn], Len(tx[sn]), conn[sn], said[sn],
             SubSeq(buf, m + 1, Len(buf)))
  <2>. DEFINE p2 == SubSeq(buf, m + 1, Len(buf))
              from == Len(heard[sn]) + Len(tx[sn])
  <2>1. Stream(TRUE, Sn_SR[sn], heard[sn], tx[sn], rx[sn], sending[sn], conn[sn], said[sn], buf)
    BY <1>1, <1>5 DEF StreamOf
  <2>2. Sn_SR[sn] \in Live => RunOf(TRUE, p2, conn[sn], from)
    <3>1. Sn_SR[sn] \in Live => RunOf(TRUE, buf, conn[sn], 0)
      BY <2>1, AnyStart DEF Stream
    <3>2. Sn_SR[sn] \in Live => RunOf(TRUE, p2, conn[sn], 0 + m)
      BY <1>2, <1>5, <3>1, RunSplit
    <3>. HIDE DEF p2, from
    <3>. QED  BY <3>2, AnyStart
  <2>3. Sn_SR[sn] \in Live => RunOf(TRUE, rx[sn], conn[sn], from + Len(p2))
    <3>. HIDE DEF p2, from
    <3>. QED  BY <2>1, AnyStart DEF Stream
  <2>4. Len(tx[sn]) <= Len(tx[sn])
    BY <1>6
  <2>. HIDE DEF p2
  <2>5. Stream(TRUE, Sn_SR[sn], heard[sn], tx[sn], rx[sn], Len(tx[sn]), conn[sn], said[sn], p2)
    BY <1>5, <2>1, <2>2, <2>3, <2>4 DEF Stream
  <2>. QED  BY <2>5 DEF p2
<1>9. ChipTypes' /\ OnlySocket(sn)
  BY <1>6, <1>7 DEF TcpInv, TcpTypes, ChipTypes, OnlySocket, peers
<1>10. StreamOf(sn)'
  BY <1>1, <1>4, <1>6, <1>7, <1>8 DEF StreamOf, peers
<1>11. TcpStreams'
  BY <1>9, <1>10, CallStreams
<1>12. TcpProgram'
  BY <1>1, <1>3, WhileSending, CallReturns
<1>. QED  BY <1>3, <1>5, <1>9, <1>11, <1>12 DEF TcpInv, TcpTypes, peers

LEMMA TcpSendOkWait == ASSUME NEW sn, Calling(sn), SendOkWait(sn) PROVE TcpInv'
<1>. USE DEF SendOkWait, caller
<1>1. ASSUME Sends(sn, << >>), Return(Len(Data)), UNCHANGED <<Sn_SR, rx>>
      PROVE  TcpInv'
  BY <1>1, SendEnds
<1>2. ASSUME Sn_SR[sn] \notin Live,
             Fails(sn, Sn_SR[sn] = "CLOSED" \/ "TIMEOUT" \in Sn_IR[sn])
      PROVE  TcpInv'
  <2>. DEFINE closes == Sn_SR[sn] = "CLOSED" \/ "TIMEOUT" \in Sn_IR[sn]
  <2>1. Fails(sn, closes) /\ closes \in BOOLEAN
    BY <1>2
  <2>. HIDE DEF closes
  <2>. QED  BY <1>2, <2>1, CallFails
<1>3. ASSUME Return(SOCK_BUSY), UNCHANGED <<chip, lib>>
      PROVE  TcpInv'
  BY <1>3, ReturnsAre, CallLeaves DEF chip, At, SOCK_BUSY
<1>. QED  BY <1>1, <1>2, <1>3

LEMMA RecvReads ==
    ASSUME NEW sn, Calling(sn), call.fn = "recv", Sn_SR[sn] \in Live, NEW n \in 0 .. Len(rx[sn]),
           buf' = SubSeq(rx[sn], 1, n), Return(n),
           rx' = [rx EXCEPT ![sn] = SubSeq(@, n + 1, Len(@))],
           UNCHANGED <<w6x00, Sn_SR, tx, sending, peers>>
    PROVE  TcpInv'
<1>. USE DEF Calling
<1>1. /\ at \in Holds /\ at \notin Echoes /\ buf = << >> /\ cur = sn /\ at' = at /\ cur' = cur
      /\ Sn_SR[sn] \notin Fresh /\ StreamOf(sn)
  BY DEF TcpInv, TcpProgram, TcpStreams, CallsAt, Idle, Holds, Echoes
<1>2. /\ tx[sn] \in Seq(Item) /\ rx[sn] \in Seq(Item) /\ heard[sn] \in Seq(Item)
      /\ Len(rx[sn]) \in Nat
  BY LenProperties DEF TcpInv, TcpTypes, ChipTypes
<1>3. call' = None /\ call'.fn = "none" /\ ret' = n /\ ret' \in Int
  <2>1. call' = None /\ ret' = n
    BY DEF Return
  <2>2. n \in Int
    BY <1>2
  <2>. QED  BY <2>1, <2>2 DEF None
<1>4. Pend(sn) = << >> /\ Pend(sn)' = SubSeq(rx[sn], 1, n)
  BY <1>1, <1>3 DEF Pend, Rest
<1>5. rx' = [rx EXCEPT ![sn] = SubSeq(rx[sn], n + 1, Len(rx[sn]))]
  OBVIOUS
<1>6. rx'[sn] = SubSeq(rx[sn], n + 1, Len(rx[sn]))
  BY <1>5 DEF TcpInv, TcpTypes, ChipTypes
<1>7. /\ SubSeq(rx[sn], 1, n) \in Seq(Item) /\ SubSeq(rx[sn], n + 1, Len(rx[sn])) \in Seq(Item)
      /\ Stream(w6x00, Sn_SR[sn], heard[sn], tx[sn], SubSeq(rx[sn], n + 1, Len(rx[sn])),
                sending[sn], conn[sn], said[sn], SubSeq(rx[sn], 1, n))
  <2>1. Stream(w6x00, Sn_SR[sn], heard[sn], tx[sn], rx[sn], sending[sn], conn[sn], said[sn], << >>)
    BY <1>1, <1>4 DEF StreamOf
  <2>. QED  BY <1>2, <2>1, StreamReads
<1>8. ChipTypes' /\ OnlySocket(sn)
  <2>1. rx' \in [Socks -> Seq(Item)]
    BY <1>5, <1>7 DEF TcpInv, TcpTypes, ChipTypes
  <2>2. ChipTypes'
    BY <2>1 DEF TcpInv, TcpTypes, ChipTypes, peers
  <2>3. OnlySocket(sn)
    BY <1>5 DEF OnlySocket, peers
  <2>. QED  BY <2>2, <2>3
<1>9. StreamOf(sn)'
  BY <1>4, <1>6, <1>7 DEF StreamOf, peers
<1>10. TcpStreams'
  BY <1>8, <1>9, CallStreams
<1>11. ~(ret' > 0) => buf' = << >>
  <2>1. ~(ret' > 0) => n = 0
    BY <1>2, <1>3
  <2>2. SubSeq(rx[sn], 1, 0) = << >>
    BY SubSeqEmpty
  <2>. QED  BY <2>1, <2>2
<1>12. TcpProgram'
  BY <1>1, <1>3, <1>11, CallReturns
<1>. QED  BY <1>3, <1>7, <1>8, <1>10, <1>12 DEF TcpInv, TcpTypes, peers

LEMMA TcpRecv == ASSUME NEW sn, Calling(sn), recv(sn) PROVE TcpInv'
<1>0. /\ call.fn = "recv" /\ UNCHANGED <<w6x00, peers>> /\ buf = << >> /\ call.arg \in Nat
      /\ at \notin Echoes /\ echoed' = {}
  BY DEF recv, At, Calling, TcpInv, TcpProgram, CallsAt, Echoes, peers
<1>1. ASSUME Fails(sn, TRUE), UNCHANGED buf
      PROVE  TcpInv'
  BY <1>0, <1>1, CallFails
<1>2. ASSUME Return(SOCK_BUSY), UNCHANGED <<chip, lib, buf>>
      PROVE  TcpInv'
  <2>1. call' = None /\ call'.fn = "none" /\ ret' = 0 /\ ret' \in Int /\ buf' = << >>
    <3>1. call' = None /\ ret' = 0 /\ buf' = << >>
      BY <1>0, <1>2 DEF Return, SOCK_BUSY
    <3>2. call'.fn = "none"
      BY <3>1 DEF None
    <3>3. ret' \in Int
      BY <3>1
    <3>. QED  BY <3>1, <3>2, <3>3
  <2>2. /\ w6x00' = w6x00 /\ Sn_SR' = Sn_SR
        /\ UNCHANGED <<w6x00, Sn_SR, rx, tx, sending, peers>>
    BY <1>0, <1>2 DEF chip
  <2>3. at' = at /\ cur' = cur
    BY DEF Calling, Idle
  <2>4. Pend(sn)' = Pend(sn)
    BY <1>0, <2>1, <2>3 DEF Pend, Rest
  <2>5. ChipTypes' /\ OnlySocket(sn) /\ StreamOf(sn)'
    BY <2>2, <2>4, SameStream
  <2>6. TcpStreams'
    BY <2>5, CallStreams
  <2>7. at \in Holds => Sn_SR'[sn] \notin Fresh
    BY <2>2 DEF Calling, TcpInv, TcpProgram
  <2>8. TcpProgram'
    BY <1>0, <2>1, <2>7, CallReturns
  <2>. QED  BY <1>0, <2>1, <2>5, <2>6, <2>8, EmptySeq DEF TcpInv, TcpTypes
<1>3. ASSUME NEW n, n = (IF call.arg < Len(rx[sn]) THEN call.arg ELSE Len(rx[sn])),
             \/ Sn_SR[sn] = "CLOSE_WAIT"
             \/ Sn_SR[sn] = "ESTABLISHED" /\ sn \notin sock_io_mode,
             buf' = SubSeq(rx[sn], 1, n),
             rx' = [rx EXCEPT ![sn] = SubSeq(@, n + 1, Len(@))], Return(n),
             UNCHANGED <<Sn_SR, tx, sending>>
      PROVE  TcpInv'
  <2>1. Sn_SR[sn] \in Live
    BY <1>3 DEF Live
  <2>2. Len(rx[sn]) \in Nat
    BY LenProperties DEF Calling, TcpInv, TcpTypes, ChipTypes
  <2>3. n \in 0 .. Len(rx[sn])
    BY <1>0, <1>3, <2>2
  <2>. QED  BY <1>0, <1>3, <2>1, <2>3, RecvReads
<1>. QED  BY <1>1, <1>2, <1>3 DEF recv

LEMMA TcpCalls == ASSUME TcpInv, Calls, Idle PROVE TcpInv'
<1>1. PICK sn \in Socks :
        \/ CloseCall(sn) \/ (\E p \in {"TCP", "UDP"} : socket(sn, p))
        \/ listen(sn) \/ connect(sn) \/ disconnect(sn)
        \/ SendCheck(sn) \/ SendIrq(sn) \/ SendRoom(sn) \/ SendOkWait(sn) \/ recv(sn)
        \/ sendto(sn) \/ recvfrom(sn)
  BY DEF Calls
<1>2. ~sendto(sn) /\ ~recvfrom(sn)
  BY DEF TcpInv, TcpProgram, CallsAt, sendto, recvfrom, At
<1>3. call.fn # "none" /\ sn = call.sn
  BY <1>1, <1>2 DEF CloseCall, socket, listen, connect, disconnect, SendCheck, SendIrq, SendRoom,
                    SendOkWait, recv, At
<1>4. Calling(sn)
  BY <1>3 DEF Calling
<1>. QED  BY <1>1, <1>2, <1>4, TcpClose, TcpSocket, TcpListen, TcpConnect, TcpDisconnect,
             TcpSendCheck, TcpSendIrq, TcpSendRoom, TcpSendOkWait, TcpRecv

----------------------------------------------------------------------------
(* TCP: the chip and the peers.                                            *)

LEMMA NetworkKeeps ==
    ASSUME TcpInv, NEW sn \in Socks, Idle, UNCHANGED <<call, ret, buf, sock_is_sending, echoed>>,
           OnlySocket(sn), ChipTypes', StreamOf(sn)',
           \/ Sn_SR'[sn] = Sn_SR[sn] \/ Sn_SR[sn] \in Fresh
           \/ Sn_SR[sn] \in Live /\ Sn_SR'[sn] = "CLOSE_WAIT"
           \/ Sn_SR'[sn] = "CLOSED",
           Sn_SR[sn] \in Fresh => Sn_SR'[sn] \in {"ESTABLISHED", "CLOSED"} \union {Sn_SR[sn]}
    PROVE  TcpInv'
<1>1. at' = at /\ cur' = cur /\ w6x00' = w6x00
  BY DEF Idle, OnlySocket
<1>2. \A s : Pend(s)' = Pend(s)
  BY <1>1 DEF Pend, Rest
<1>3. TcpStreams'
  <2>1. ASSUME NEW s \in Socks, s # sn
        PROVE  StreamOf(s)'
    <3>1. StreamOf(s) /\ Pend(s)' = Pend(s) /\ s \in Socks \ {sn}
      BY <1>2, <2>1 DEF TcpInv, TcpStreams
    <3>. QED  BY <3>1 DEF StreamOf, OnlySocket
  <2>. QED  BY <2>1 DEF TcpStreams
<1>4. at \in Holds => Sn_SR'[cur] \notin Fresh
  <2>1. ASSUME at \in Holds
        PROVE  Sn_SR'[cur] \notin Fresh
    <3>1. cur \in Socks /\ Sn_SR[cur] \notin Fresh
      BY <2>1 DEF TcpInv, TcpProgram, Holds
    <3>2. CASE cur = sn
      BY <3>1, <3>2 DEF Fresh, Live
    <3>3. CASE cur # sn
      BY <3>1, <3>3 DEF OnlySocket
    <3>. QED  BY <3>2, <3>3
  <2>. QED  BY <2>1
<1>5. at \in Echoes /\ call.fn = "none" /\ ret < 0 => Sn_SR'[cur] \notin Live
  <2>1. ASSUME at \in Echoes, call.fn = "none", ret < 0
        PROVE  Sn_SR'[cur] \notin Live
    <3>1. cur \in Socks /\ Sn_SR[cur] \notin Live /\ Sn_SR[cur] \notin Fresh
      BY <2>1 DEF TcpInv, TcpProgram, Holds, Echoes
    <3>2. CASE cur = sn
      BY <3>1, <3>2 DEF Live
    <3>3. CASE cur # sn
      BY <3>1, <3>3 DEF OnlySocket
    <3>. QED  BY <3>2, <3>3
  <2>. QED  BY <2>1
<1>6. TcpProgram'
  BY <1>1, <1>4, <1>5 DEF TcpInv, TcpProgram, CallsAt
<1>. QED  BY <1>3, <1>6 DEF TcpInv, TcpTypes

LEMMA TcpSocketTypes ==
    ASSUME TcpInv, NEW sn \in Socks
    PROVE  /\ w6x00 \in BOOLEAN /\ Sn_SR[sn] \in Statuses \ {"UDP"}
           /\ tx[sn] \in Seq(Item) /\ rx[sn] \in Seq(Item) /\ heard[sn] \in Seq(Item)
           /\ Len(tx[sn]) \in Nat /\ Len(rx[sn]) \in Nat /\ Len(heard[sn]) \in Nat
           /\ conn[sn] \in {0, 1} /\ said[sn] \in Nat /\ sending[sn] \in Nat
           /\ Pend(sn) \in Seq(Item) /\ StreamOf(sn)
BY PendType, LenProperties DEF TcpInv, TcpTypes, ChipTypes, TcpStreams

LEMMA SamePend ==
    ASSUME Idle, UNCHANGED <<call, ret, buf>>
    PROVE  \A s : Pend(s)' = Pend(s)
BY DEF Idle, Pend, Rest

LEMMA TcpConnected == ASSUME TcpInv, NEW sn \in Socks, Connected(sn), Idle PROVE TcpInv'
<1>. USE DEF Connected, Becomes, Raise, lib, caller
<1>1. Sn_SR[sn] \in Fresh
  BY DEF Fresh
<1>2. /\ w6x00 \in BOOLEAN /\ tx[sn] = << >> /\ rx[sn] = << >> /\ sending[sn] = 0
      /\ conn[sn] \in {0, 1}
  BY <1>1, TcpSocketTypes DEF StreamOf, Stream
<1>3. ~(cur = sn /\ at \in Holds)
  BY <1>1 DEF TcpInv, TcpProgram
<1>4. Pend(sn)' = << >>
  <2>1. Pend(sn) = << >>
    BY <1>3 DEF Pend
  <2>. QED  BY <2>1, SamePend
<1>5. << >> \in Seq(Item) /\ Len(<< >>) = 0
  BY EmptySeq
<1>6. conn' = [conn EXCEPT ![sn] = 1 - conn[sn]] /\ 1 - conn[sn] \in {0, 1}
  BY <1>2
<1>7. ChipTypes' /\ OnlySocket(sn)
  <2>1. /\ Sn_SR' \in [Socks -> Statuses \ {"UDP"}] /\ conn' \in [Socks -> {0, 1}]
        /\ heard' \in [Socks -> Seq(Item)] /\ said' \in [Socks -> Nat]
    BY <1>5, <1>6 DEF TcpInv, TcpTypes, ChipTypes, Statuses
  <2>2. ChipTypes'
    BY <2>1 DEF TcpInv, TcpTypes, ChipTypes
  <2>3. OnlySocket(sn)
    BY <1>6 DEF OnlySocket
  <2>. QED  BY <2>2, <2>3
<1>8. /\ Sn_SR'[sn] = "ESTABLISHED" /\ said'[sn] = 0 /\ heard'[sn] = << >>
      /\ tx' = tx /\ rx' = rx /\ sending' = sending
  BY DEF TcpInv, TcpTypes, ChipTypes
<1>9. StreamOf(sn)'
  <2>1. Stream(w6x00', "ESTABLISHED", << >>, << >>, << >>, 0, conn'[sn], 0, << >>)
    BY <1>5, EmptyRun DEF Stream, Fresh
  <2>. QED  BY <1>2, <1>4, <1>8, <2>1 DEF StreamOf
<1>. QED  BY <1>1, <1>7, <1>8, <1>9, NetworkKeeps

LEMMA TcpPeerSays == ASSUME TcpInv, NEW sn \in Socks, PeerSays(sn), Idle PROVE TcpInv'
<1>. DEFINE r2 == Append(rx[sn], [who |-> conn[sn], n |-> said[sn] + 1])
            n2 == said[sn] + 1
<1>1. /\ Sn_SR[sn] \in Live /\ Sn_SR' = Sn_SR /\ w6x00' = w6x00 /\ tx' = tx
      /\ sending' = sending /\ conn' = conn /\ heard' = heard
      /\ UNCHANGED <<call, ret, buf, sock_is_sending, echoed>>
  BY DEF PeerSays, Live, lib, caller
<1>2. /\ said' = [said EXCEPT ![sn] = n2] /\ said'[sn] = n2
      /\ rx' = [rx EXCEPT ![sn] = r2] /\ rx'[sn] = r2
  <2>1. said' = [said EXCEPT ![sn] = said[sn] + 1] /\ said'[sn] = said[sn] + 1
    BY DEF PeerSays, TcpInv, TcpTypes, ChipTypes
  <2>2. rx' = [rx EXCEPT ![sn] = r2]
    BY <2>1 DEF PeerSays
  <2>. HIDE DEF r2
  <2>3. rx'[sn] = r2
    BY <2>2 DEF TcpInv, TcpTypes, ChipTypes
  <2>. QED  BY <2>1, <2>2, <2>3
<1>3. Pend(sn)' = Pend(sn)
  BY <1>1, SamePend
<1>4. /\ r2 \in Seq(Item) /\ n2 \in Nat
      /\ Stream(w6x00, Sn_SR[sn], heard[sn], tx[sn], r2, sending[sn], conn[sn], n2, Pend(sn))
  <2>. DEFINE x == w6x00  sr == Sn_SR[sn]  h == heard[sn]  t == tx[sn]  r == rx[sn]
              snd == sending[sn]  c == conn[sn]  sd == said[sn]  p == Pend(sn)
  <2>1. /\ sr \in Live /\ c \in {0, 1} /\ sd \in Nat
        /\ h \in Seq(Item) /\ t \in Seq(Item) /\ r \in Seq(Item) /\ p \in Seq(Item)
    BY <1>1, TcpSocketTypes
  <2>2. Stream(x, sr, h, t, r, snd, c, sd, p)
    BY TcpSocketTypes DEF StreamOf
  <2>. HIDE DEF x, sr, h, t, r, snd, c, sd, p
  <2>. DEFINE e == [who |-> c, n |-> sd + 1]
              sd2 == sd + 1
  <2>3. e = [who |-> c, n |-> sd + 1] /\ sd2 = sd + 1 /\ sd2 \in Nat
    BY <2>1
  <2>4. e \in Item /\ e.who = c /\ e.n = sd2 /\ Follows(sd, sd2)
    BY <2>1, <2>3 DEF Item, Follows
  <2>. HIDE DEF e, sd2
  <2>5. Append(r, e) \in Seq(Item) /\ Stream(x, sr, h, t, Append(r, e), snd, c, sd2, p)
    BY <2>1, <2>2, <2>4, StreamSays
  <2>. QED  BY <2>3, <2>5 DEF x, sr, h, t, r, snd, c, sd, p, e, sd2
<1>. HIDE DEF r2, n2
<1>5. ChipTypes' /\ OnlySocket(sn)
  BY <1>1, <1>2, <1>4 DEF TcpInv, TcpTypes, ChipTypes, OnlySocket
<1>6. StreamOf(sn)'
  BY <1>1, <1>2, <1>3, <1>4 DEF StreamOf
<1>7. Sn_SR[sn] \notin Fresh
  BY <1>1, NotFresh
<1>. QED  BY <1>1, <1>5, <1>6, <1>7, NetworkKeeps

\* The peer's FIN, a reset, or the end of a handshake.
LEMMA StatusEnds ==
    ASSUME TcpInv, NEW sn \in Socks, Idle, NEW sr, NEW snd \in {0, sending[sn]},
           Sn_SR' = [Sn_SR EXCEPT ![sn] = sr], sending' = [sending EXCEPT ![sn] = snd],
           UNCHANGED <<w6x00, rx, tx, lib, call, ret, caller, peers>>,
           sr = "CLOSED" \/ (Sn_SR[sn] \in Live /\ sr = "CLOSE_WAIT")
    PROVE  TcpInv'
<1>. USE DEF lib, caller, peers
<1>1. ChipTypes' /\ OnlySocket(sn) /\ Sn_SR'[sn] = sr /\ sending'[sn] = snd
  BY DEF TcpInv, TcpTypes, ChipTypes, OnlySocket, Statuses
<1>2. Pend(sn)' = Pend(sn)
  BY SamePend
<1>3. snd <= Len(tx[sn])
  <2>1. sending[sn] <= Len(tx[sn])
    BY TcpSocketTypes DEF StreamOf, Stream
  <2>2. Len(tx[sn]) \in Nat
    BY TcpSocketTypes
  <2>. QED  BY <2>1, <2>2
<1>4. sr \notin Fresh
  BY DEF Fresh
<1>5. Stream(w6x00, sr, heard[sn], tx[sn], rx[sn], snd, conn[sn], said[sn], Pend(sn))
  <2>1. Stream(w6x00, Sn_SR[sn], heard[sn], tx[sn], rx[sn], sending[sn], conn[sn], said[sn],
               Pend(sn))
    BY TcpSocketTypes DEF StreamOf
  <2>2. sr \in Live \union {"LAST_ACK"} => Sn_SR[sn] \in Live /\ sr \in Live
    BY DEF Live
  <2>. QED  BY <1>3, <1>4, <2>1, <2>2 DEF Stream
<1>6. StreamOf(sn)'
  BY <1>1, <1>2, <1>5 DEF StreamOf
<1>7. Sn_SR[sn] \in Fresh => sr = "CLOSED"
  BY DEF Fresh, Live
<1>. QED  BY <1>1, <1>6, <1>7, NetworkKeeps

LEMMA TcpEnds ==
    ASSUME TcpInv, NEW sn \in Socks, PeerCloses(sn) \/ HandshakeEnds(sn), Idle
    PROVE  TcpInv'
<1>1. ASSUME PeerCloses(sn)
      PROVE  TcpInv'
  <2>1. PICK sr : /\ Sn_SR' = [Sn_SR EXCEPT ![sn] = sr]
                  /\ sr = "CLOSED" \/ (Sn_SR[sn] \in Live /\ sr = "CLOSE_WAIT")
    BY <1>1 DEF PeerCloses, Becomes, Live
  <2>2. PICK snd \in {0, sending[sn]} : sending' = [sending EXCEPT ![sn] = snd]
    BY <1>1 DEF PeerCloses
  <2>. QED  BY <1>1, <2>1, <2>2, StatusEnds DEF PeerCloses
<1>2. ASSUME HandshakeEnds(sn)
      PROVE  TcpInv'
  BY <1>2, StatusEnds DEF HandshakeEnds, Becomes
<1>. QED  BY <1>1, <1>2

LEMMA TcpAcknowledged == ASSUME TcpInv, NEW sn \in Socks, Acknowledged(sn), Idle PROVE TcpInv'
<1>. USE DEF lib, caller
<1>1. /\ Sn_SR[sn] \in Live \union {"LAST_ACK"} /\ Sn_SR[sn] \notin Fresh
      /\ UNCHANGED <<w6x00, rx, lib, call, ret, caller, conn, said, echoed>>
      /\ sending' = [sending EXCEPT ![sn] = 0]
  BY NotFresh DEF Acknowledged
<1>2. Pend(sn)' = Pend(sn)
  BY <1>1, SamePend
<1>3. Stream(w6x00, Sn_SR[sn], heard[sn], tx[sn], rx[sn], sending[sn], conn[sn], said[sn], Pend(sn))
  BY TcpSocketTypes DEF StreamOf
<1>4. ASSUME heard' = [heard EXCEPT ![sn] = @ \o SubSeq(tx[sn], 1, sending[sn])],
             tx' = [tx EXCEPT ![sn] = SubSeq(@, sending[sn] + 1, Len(@))], Sn_SR' = Sn_SR
      PROVE  TcpInv'
  <2>. DEFINE h2 == heard[sn] \o SubSeq(tx[sn], 1, sending[sn])
              t2 == SubSeq(tx[sn], sending[sn] + 1, Len(tx[sn]))
  <2>1. /\ h2 \in Seq(Item) /\ t2 \in Seq(Item)
        /\ Stream(w6x00, Sn_SR[sn], h2, t2, rx[sn], 0, conn[sn], said[sn], Pend(sn))
    BY <1>1, <1>3, TcpSocketTypes, StreamHeard
  <2>2. heard' = [heard EXCEPT ![sn] = h2] /\ tx' = [tx EXCEPT ![sn] = t2]
    BY <1>4
  <2>. HIDE DEF h2, t2
  <2>3. ChipTypes' /\ OnlySocket(sn)
    <3>1. heard' \in [Socks -> Seq(Item)] /\ tx' \in [Socks -> Seq(Item)]
      BY <2>1, <2>2 DEF TcpInv, TcpTypes, ChipTypes
    <3>2. ChipTypes'
      BY <1>1, <1>4, <3>1 DEF TcpInv, TcpTypes, ChipTypes
    <3>3. OnlySocket(sn)
      BY <1>1, <1>4, <2>2 DEF OnlySocket
    <3>. QED  BY <3>2, <3>3
  <2>4. heard'[sn] = h2 /\ tx'[sn] = t2 /\ sending'[sn] = 0
    BY <1>1, <2>2 DEF TcpInv, TcpTypes, ChipTypes
  <2>5. StreamOf(sn)'
    BY <1>1, <1>2, <1>4, <2>1, <2>4 DEF StreamOf
  <2>. QED  BY <1>1, <1>4, <2>3, <2>5, NetworkKeeps
<1>5. ASSUME NEW k \in 0 .. sending[sn],
             heard' = [heard EXCEPT ![sn] = @ \o SubSeq(tx[sn], 1, k)],
             tx' = tx, Becomes(sn, "CLOSED")
      PROVE  TcpInv'
  <2>. DEFINE h2 == heard[sn] \o SubSeq(tx[sn], 1, k)
  <2>1. /\ h2 \in Seq(Item)
        /\ Stream(w6x00, "CLOSED", h2, tx[sn], rx[sn], 0, conn[sn], said[sn], Pend(sn))
    BY <1>1, <1>3, TcpSocketTypes, StreamCut
  <2>2. heard' = [heard EXCEPT ![sn] = h2] /\ Sn_SR' = [Sn_SR EXCEPT ![sn] = "CLOSED"]
    BY <1>5 DEF Becomes
  <2>. HIDE DEF h2
  <2>3. ChipTypes' /\ OnlySocket(sn)
    <3>1. heard' \in [Socks -> Seq(Item)] /\ Sn_SR' \in [Socks -> Statuses \ {"UDP"}]
      BY <2>1, <2>2 DEF TcpInv, TcpTypes, ChipTypes, Statuses
    <3>2. ChipTypes'
      BY <1>1, <1>5, <3>1 DEF TcpInv, TcpTypes, ChipTypes
    <3>3. OnlySocket(sn)
      BY <1>1, <1>5, <2>2 DEF OnlySocket
    <3>. QED  BY <3>2, <3>3
  <2>4. heard'[sn] = h2 /\ Sn_SR'[sn] = "CLOSED" /\ sending'[sn] = 0
    BY <1>1, <2>2 DEF TcpInv, TcpTypes, ChipTypes
  <2>5. StreamOf(sn)'
    BY <1>1, <1>2, <1>5, <2>1, <2>4 DEF StreamOf
  <2>. QED  BY <1>1, <2>3, <2>4, <2>5, NetworkKeeps
<1>. QED  BY <1>4, <1>5 DEF Acknowledged

LEMMA TcpNetwork == ASSUME TcpInv, Network, Idle PROVE TcpInv'
<1>1. PICK sn \in Socks :
        \/ Connected(sn) \/ PeerSays(sn) \/ PeerCloses(sn) \/ HandshakeEnds(sn)
        \/ Acknowledged(sn) \/ Transmitted(sn)
        \/ \E c \in Clients, n \in 1 .. MTU : Datagram(sn, c, n)
  BY DEF Network
<1>2. Sn_SR[sn] # "UDP"
  BY TcpSocketTypes
<1>3. ~Transmitted(sn) /\ ~(\E c \in Clients, n \in 1 .. MTU : Datagram(sn, c, n))
  BY <1>2 DEF Transmitted, Datagram
<1>. QED  BY <1>1, <1>3, TcpConnected, TcpPeerSays, TcpEnds, TcpAcknowledged

----------------------------------------------------------------------------
(* TCP: the program.                                                       *)

SameSockets == UNCHANGED <<w6x00, Sn_SR, rx, tx, sending, sock_is_sending, peers>>

LEMMA ProgramKeeps ==
    ASSUME TcpInv, SameSockets, buf' \in Seq(Item), ret' \in Int, TcpProgram',
           \A s \in Socks : Pend(s)' = Pend(s) \/ Sn_SR[s] \notin Live
    PROVE  TcpInv'
<1>. USE DEF SameSockets, peers
<1>1. TcpTypes' /\ echoed' = {}
  BY DEF TcpInv, TcpTypes, ChipTypes
<1>2. ASSUME NEW s \in Socks
      PROVE  StreamOf(s)'
  <2>1. StreamOf(s)
    BY DEF TcpInv, TcpStreams
  <2>2. CASE Pend(s)' = Pend(s)
    BY <2>1, <2>2 DEF StreamOf
  <2>3. CASE Sn_SR[s] \notin Live
    BY <2>1, <2>3 DEF StreamOf, Stream
  <2>. QED  BY <1>2, <2>2, <2>3
<1>. QED  BY <1>1, <1>2 DEF TcpInv, TcpStreams

\* The program holds nothing, or nothing that matters.
Settled == at \notin Holds \/ Rest = << >> \/ Sn_SR[cur] \notin Live

LEMMA HoldsNothing ==
    ASSUME Settled, NEW s \in Socks
    PROVE  Pend(s) = << >> \/ Sn_SR[s] \notin Live
BY DEF Settled, Pend

LEMMA Finished ==
    ASSUME TcpInv, SameSockets, Settled, call' = None, at' = "poll", buf' = << >>, ret' \in Int
    PROVE  TcpInv'
<1>1. \A s : Pend(s)' = << >>
  BY DEF Pend, Holds
<1>2. << >> \in Seq(Item)
  BY EmptySeq
<1>3. /\ call'.fn = "none"
      /\ call' = [fn |-> call'.fn, st |-> call'.st, sn |-> call'.sn, arg |-> call'.arg]
  BY DEF None
<1>4. TcpProgram'
  BY <1>3 DEF TcpProgram, CallsAt, Holds, Echoes
<1>. QED  BY <1>1, <1>2, <1>4, HoldsNothing, ProgramKeeps

LEMMA CallIsCall ==
    ASSUME NEW fn, NEW st, NEW sn, NEW arg,
           call' = [fn |-> fn, st |-> st, sn |-> sn, arg |-> arg]
    PROVE  /\ call'.fn = fn /\ call'.st = st /\ call'.sn = sn /\ call'.arg = arg
           /\ call' = [fn |-> call'.fn, st |-> call'.st, sn |-> call'.sn, arg |-> call'.arg]
OBVIOUS

\* It makes a last call: socket(), listen(), connect(), disconnect() or close().
LEMMA LastCall ==
    ASSUME TcpInv, SameSockets, Settled, cur \in Socks, UNCHANGED <<cur, ret, buf>>,
           NEW fn, NEW st, NEW arg, call' = [fn |-> fn, st |-> st, sn |-> cur, arg |-> arg],
           \/ at' = "last" /\ fn \in {"socket", "listen", "connect", "disconnect"}
           \/ at' = "failed" /\ fn = "close",
           fn = "socket" => st = "TCP"
    PROVE  TcpInv'
<1>1. at' \notin Holds /\ at' # "poll" /\ at' \notin Echoes
  BY DEF Holds, Echoes
<1>2. \A s : Pend(s)' = << >>
  BY <1>1 DEF Pend
<1>3. buf' \in Seq(Item) /\ ret' \in Int
  BY DEF TcpInv, TcpTypes
<1>4. /\ call'.fn = fn /\ call'.st = st /\ call'.sn = cur
      /\ call' = [fn |-> call'.fn, st |-> call'.st, sn |-> call'.sn, arg |-> call'.arg]
  BY CallIsCall
<1>5. TcpProgram'
  BY <1>1, <1>4 DEF TcpProgram, CallsAt
<1>. QED  BY <1>2, <1>3, <1>5, HoldsNothing, ProgramKeeps

LEMMA Disconnects ==
    ASSUME TcpInv, SameSockets, Settled, cur \in Socks, UNCHANGED <<cur, ret, buf>>,
           \/ Begin(Call("disconnect", cur, 0), "last")
           \/ Begin(Call("close", cur, 0), "failed")
    PROVE  TcpInv'
<1>1. PICK fn, n : /\ call' = [fn |-> fn, st |-> "begin", sn |-> cur, arg |-> n]
                   /\ \/ at' = "last" /\ fn = "disconnect"
                      \/ at' = "failed" /\ fn = "close"
  BY DEF Begin, Call
<1>2. fn = "disconnect" \/ fn = "close"
  BY <1>1
<1>3. fn # "socket"
  BY <1>2
<1>. QED  BY <1>1, <1>3, LastCall

LEMMA TcpRead ==
    ASSUME TcpInv, SameSockets, at = "poll", call = None, cur \in Socks, Sn_SR[cur] \in Live,
           NEW place \in {"received", "received in CLOSE_WAIT"}, Read("recv", place),
           UNCHANGED <<cur, ret, buf>>
    PROVE  TcpInv'
<1>1. getSn_RX_RSR(cur) \in Nat /\ Smaller(getSn_RX_RSR(cur), DATA_BUF_SIZE) \in Nat
  <2>1. Sn_SR[cur] # "UDP" /\ Len(rx[cur]) \in Nat
    BY TcpSocketTypes
  <2>. QED  BY <2>1 DEF getSn_RX_RSR, Smaller
<1>2. PICK n \in Nat : call' = [fn |-> "recv", st |-> "begin", sn |-> cur, arg |-> n]
  BY <1>1 DEF Read, Begin, Call
<1>3. /\ call'.fn = "recv" /\ call'.sn = cur /\ call'.arg = n
      /\ call' = [fn |-> call'.fn, st |-> call'.st, sn |-> call'.sn, arg |-> call'.arg]
  BY <1>2, CallIsCall
<1>4. at' = place /\ buf' = buf /\ buf = << >> /\ buf' \in Seq(Item) /\ ret' \in Int
  BY DEF Read, Begin, TcpInv, TcpProgram, TcpTypes
<1>5. \A s : Pend(s)' = Pend(s)
  <2>1. \A s : Pend(s) = << >>
    BY DEF Pend, Holds
  <2>2. Rest' = << >>
    BY <1>3, <1>4 DEF Rest
  <2>. QED  BY <2>1, <2>2 DEF Pend
<1>6. Sn_SR'[cur'] \notin Fresh /\ cur' \in Socks
  BY NotFresh DEF SameSockets
<1>7. TcpProgram'
  BY <1>2, <1>3, <1>4, <1>6 DEF TcpProgram, CallsAt, Holds, Echoes
<1>. QED  BY <1>4, <1>5, <1>7, ProgramKeeps

\* It sends what it holds.
LEMMA SendCall ==
    ASSUME TcpInv, SameSockets, ~Udp, at \in Holds, call = None, at' \in Echoes,
           call' = Call(Sending, cur, 0), UNCHANGED <<cur, ret>>, buf' = Rest
    PROVE  TcpInv'
<1>1. call' = [fn |-> "send", st |-> "begin", sn |-> cur, arg |-> 0]
  BY DEF Call, Sending
<1>2. /\ call'.fn = "send" /\ call'.st = "begin" /\ call'.sn = cur
      /\ call' = [fn |-> call'.fn, st |-> call'.st, sn |-> call'.sn, arg |-> call'.arg]
  BY <1>1, CallIsCall
<1>3. at' \in Holds /\ at' # "poll"
  BY DEF Holds, Echoes
<1>4. buf' \in Seq(Item) /\ ret' \in Int
  BY PendType DEF TcpInv, TcpTypes
<1>5. Rest' = Rest
  BY <1>2 DEF Rest
<1>6. \A s : Pend(s)' = Pend(s)
  BY <1>3, <1>5 DEF Pend
<1>7. cur' \in Socks /\ Sn_SR'[cur'] \notin Fresh
  BY DEF TcpInv, TcpProgram, SameSockets, Holds
<1>8. TcpProgram'
  BY <1>2, <1>3, <1>7 DEF TcpProgram, CallsAt
<1>. QED  BY <1>4, <1>6, <1>8, ProgramKeeps

LEMMA NoCall == ASSUME call = None PROVE call.fn = "none"
BY DEF None

LEMMA Signs == \A r \in Int : (r >= 0 => ~(r < 0)) /\ (r <= 0 => ~(r > 0))
OBVIOUS

LEMMA FinishesPoll ==
    ASSUME ~Udp, NEW r, Done \/ Error(r)
    PROVE  at' = "poll" /\ buf' = << >> /\ ret' \in Int
BY ReturnsAre DEF Done, Error, Finishes, Udp

LEMMA Polling ==
    ASSUME at = "poll"
    PROVE  at \notin Holds /\ Settled
BY DEF Settled, Holds

LEMMA TcpEstablished == ASSUME TcpInv, ~Udp, Established PROVE TcpInv'
<1>. USE DEF Established
<1>1. SameSockets /\ at = "poll" /\ call = None /\ cur \in Socks /\ Sn_SR[cur] \in Live
  BY DEF SameSockets, Polls, Live, lib
<1>2. ASSUME Read("recv", "received"), UNCHANGED <<cur, ret, buf>>
      PROVE  TcpInv'
  BY <1>1, <1>2, TcpRead
<1>3. ASSUME Done, UNCHANGED call
      PROVE  TcpInv'
  BY <1>1, <1>3, Polling, FinishesPoll, Finished
<1>. QED  BY <1>2, <1>3

LEMMA TcpPolls ==
    ASSUME TcpInv, ~Udp, CloseWait \/ CloseWait_W6x00 \/ Initialised \/ Reopen
    PROVE  TcpInv'
<1>. USE DEF CloseWait, CloseWait_W6x00, Initialised, Reopen
<1>1. /\ SameSockets /\ at = "poll" /\ call = None /\ cur \in Socks
      /\ UNCHANGED <<cur, ret, buf>>
  BY DEF SameSockets, Polls, chip, lib, caller
<1>2. Settled
  BY <1>1, Polling
<1>3. ASSUME CloseWait_W6x00, Read("recv", "received in CLOSE_WAIT")
      PROVE  TcpInv'
  <2>1. Sn_SR[cur] \in Live
    BY <1>3 DEF Polls, Live
  <2>. QED  BY <1>1, <1>3, <2>1, TcpRead
<1>4. ASSUME Begin(Call("disconnect", cur, 0), "last")
      PROVE  TcpInv'
  BY <1>1, <1>2, <1>4, Disconnects
<1>5. ASSUME Initialised
      PROVE  TcpInv'
  <2>1. PICK fn \in {"connect", "listen"} :
          at' = "last" /\ call' = [fn |-> fn, st |-> "begin", sn |-> cur, arg |-> 0]
    BY <1>5 DEF Begin, Call
  <2>. QED  BY <1>1, <1>2, <2>1, LastCall
<1>6. ASSUME Reopen
      PROVE  TcpInv'
  <2>1. PICK n : n = NewPort
    OBVIOUS
  <2>2. at' = "last" /\ call' = [fn |-> "socket", st |-> "TCP", sn |-> cur, arg |-> n]
    BY <1>6, <2>1 DEF Begin, Call
  <2>. QED  BY <1>1, <1>2, <2>2, LastCall
<1>. QED  BY <1>3, <1>4, <1>5, <1>6

LEMMA TcpWaits == ASSUME TcpInv, ~Udp, Waits PROVE TcpInv'
<1>1. SameSockets /\ at = "poll" /\ call' = None /\ Done
  BY DEF Waits, SameSockets, chip, lib
<1>. QED  BY <1>1, Polling, FinishesPoll, Finished

LEMMA TcpReceived == ASSUME TcpInv, ~Udp, Received PROVE TcpInv'
<1>. USE DEF Received
<1>1. SameSockets /\ call = None /\ at \in Holds /\ at \notin Echoes
  BY DEF SameSockets, chip, lib, Holds, Echoes
<1>2. Rest = buf
  BY <1>1 DEF Rest
<1>3. CASE ret <= 0
  <2>1. ~(ret > 0)
    <3>1. ret \in Int
      BY DEF TcpInv, TcpTypes
    <3>. QED  BY <1>3, <3>1, Signs
  <2>2. buf = << >>
    BY <1>1, <2>1, NoCall DEF TcpInv, TcpProgram
  <2>3. Settled /\ call' = None
    BY <1>1, <1>2, <1>3, <2>2 DEF Settled
  <2>. QED  BY <1>1, <1>3, <2>3, FinishesPoll, Finished
<1>4. CASE ~(ret <= 0)
  <2>1. role # "multicast_recv"
    BY DEF Udp
  <2>2. Begin(Call(Sending, cur, 0), EchoAt) /\ UNCHANGED <<cur, ret, buf>>
    BY <1>4, <2>1
  <2>3. at' \in Echoes
    BY <2>2 DEF Begin, EchoAt, Echoes
  <2>. QED  BY <1>1, <1>2, <2>2, <2>3, SendCall DEF Begin
<1>. QED  BY <1>3, <1>4

LEMMA TcpEcho == ASSUME TcpInv, ~Udp, Echo PROVE TcpInv'
<1>. USE DEF Echo
<1>1. /\ SameSockets /\ call = None /\ call.fn = "none" /\ at \in Holds /\ at \in Echoes
      /\ cur \in Socks
  BY NoCall DEF SameSockets, chip, lib, Holds, Echoes, TcpInv, TcpProgram
<1>2. ret \in Int
  BY DEF TcpInv, TcpTypes
<1>3. ret >= 0 => Rest = Unsent
  <2>1. ret >= 0 => ~(ret < 0)
    BY <1>2, Signs
  <2>. QED  BY <1>1, <2>1 DEF Rest, Unsent
<1>4. ASSUME ret < 0, Begin(Call("close", cur, 0), "failed"), UNCHANGED <<cur, ret, buf>>
      PROVE  TcpInv'
  <2>1. Settled
    BY <1>1, <1>4 DEF Settled, TcpInv, TcpProgram
  <2>. QED  BY <1>1, <1>4, <2>1, Disconnects
<1>5. ASSUME ret >= 0, buf' = Unsent, call' = Call(Sending, cur, 0), UNCHANGED <<at, cur, ret>>
      PROVE  TcpInv'
  BY <1>1, <1>3, <1>5, SendCall
<1>6. ASSUME ret >= 0, Unsent = << >>, Done, UNCHANGED call
      PROVE  TcpInv'
  <2>1. Settled
    BY <1>3, <1>6 DEF Settled
  <2>. QED  BY <1>1, <1>6, <2>1, FinishesPoll, Finished
<1>7. ASSUME ret >= 0, Unsent = << >>, Begin(Call("disconnect", cur, 0), "last"),
             UNCHANGED <<cur, ret, buf>>
      PROVE  TcpInv'
  <2>1. Settled
    BY <1>3, <1>7 DEF Settled
  <2>. QED  BY <1>1, <1>7, <2>1, Disconnects
<1>. QED  BY <1>4, <1>5, <1>6, <1>7

LEMMA TcpLast == ASSUME TcpInv, ~Udp, Returned PROVE TcpInv'
<1>1. SameSockets /\ call' = None /\ at \notin Holds /\ (Done \/ Error(SOCK_BUSY))
  BY DEF Returned, SameSockets, chip, lib, Holds
<1>2. Settled
  BY <1>1 DEF Settled
<1>. QED  BY <1>1, <1>2, FinishesPoll, Finished

LEMMA TcpInvNext ==
    ASSUME TcpInv, ~Udp, [EchoNext]_echoVars
    PROVE  TcpInv' /\ ~Udp'
<1>1. ~Udp'
  BY DEF EchoNext, echoVars, Program, Idle, Udp, loopback_tcps, loopback_tcpc,
         loopback_tcps_W6x00, loopback_tcpc_W6x00, tcp_server_multi_socket,
         loopback_udps, loopback_udpc, multicast_loopback, multicast_recv,
         Tcp_W5500, Tcp_W6x00, UdpCall, Established, CloseWait, CloseWait_W6x00, Initialised,
         Reopen, Waits, UdpRead, Received, Echo, Returned
<1>2. ASSUME Program
      PROVE  TcpInv'
  <2>1. Tcp_W5500 \/ Tcp_W6x00
    BY <1>2 DEF Program, Udp, loopback_tcps, loopback_tcpc, loopback_tcps_W6x00,
       loopback_tcpc_W6x00, tcp_server_multi_socket, loopback_udps, loopback_udpc,
       multicast_loopback, multicast_recv
  <2>. QED  BY <2>1, TcpEstablished, TcpPolls, TcpWaits, TcpReceived, TcpEcho, TcpLast
            DEF Tcp_W5500, Tcp_W6x00
<1>3. ASSUME Calls, Idle
      PROVE  TcpInv'
  BY <1>3, TcpCalls
<1>4. ASSUME Network, Idle
      PROVE  TcpInv'
  BY <1>4, TcpNetwork
<1>5. ASSUME UNCHANGED echoVars
      PROVE  TcpInv'
  <2>1. /\ SameSockets /\ Pend(0)' = Pend(0) /\ buf' = buf /\ ret' = ret /\ call' = call
        /\ UNCHANGED <<at, cur>>
    BY <1>5 DEF echoVars, sockVars, chip, lib, caller, SameSockets, Pend, Rest
  <2>2. \A s : Pend(s)' = Pend(s)
    BY <2>1 DEF Pend, Rest
  <2>3. TcpProgram'
    BY <2>1 DEF TcpInv, TcpProgram, CallsAt, SameSockets
  <2>. QED  BY <2>1, <2>2, <2>3, ProgramKeeps DEF TcpInv, TcpTypes
<1>. QED  BY <1>1, <1>2, <1>3, <1>4, <1>5 DEF EchoNext

----------------------------------------------------------------------------
(* UDP: the invariant.                                                     *)

UdpCallsAt(fn) ==
    \/ fn = "none"
    \/ fn = "recvfrom" /\ at = "received" /\ destip = Garbage0
    \/ fn = "sendto" /\ at = "echo"
    \/ fn = "socket" /\ at = "last" /\ call.st = "UDP"

\* The buffer, once filled, holds one datagram, from the address in destip.
UdpProgram ==
    /\ at \in {"poll", "received", "echo", "last", "halt"}
    /\ UdpCallsAt(call.fn)
    /\ call = [fn |-> call.fn, st |-> call.st, sn |-> call.sn, arg |-> call.arg]
    /\ call.fn = "none" => call = None
    /\ at \in {"received", "echo"} =>
           destip = Garbage0 \/ \E m : buf = << m >> /\ m.who = destip

\* A sendto() waits for the end of its SEND.
Awaited(s) == call.fn = "sendto" /\ call.st = "wait" /\ call.sn = s
Ended(s)   == "SENDOK" \in Sn_IR[s] \/ "TIMEOUT" \in Sn_IR[s]
Empty(s)   == tx[s] = << >> /\ sending[s] = 0

UdpSocket(s) ==
    /\ tx[s] = << >> \/ \E m : tx[s] = << m >> /\ m.who = Sn_DIPR[s]
    /\ ~Awaited(s) => Empty(s) /\ ~Ended(s)
    /\ Ended(s) => Empty(s) /\ ~("SENDOK" \in Sn_IR[s] /\ "TIMEOUT" \in Sn_IR[s])

UdpTypes ==
    /\ Sn_SR \in [Socks -> {"CLOSED", "UDP"}]
    /\ DOMAIN Sn_IR = Socks /\ DOMAIN Sn_DIPR = Socks /\ DOMAIN tx = Socks
    /\ sending \in [Socks -> {0, 1}]
    /\ heard = [s \in Socks |-> << >>]

UdpInv ==
    /\ UdpTypes /\ UdpProgram /\ \A s \in Socks : UdpSocket(s)
    /\ \A e \in echoed : e[1] = e[2]

LEMMA InitUdp == ASSUME EchoInit, Udp PROVE UdpInv
<1>. USE DEF EchoInit, SockInit
<1>1. call.fn = "none" /\ call = None
  BY DEF None
<1>2. call = [fn |-> call.fn, st |-> call.st, sn |-> call.sn, arg |-> call.arg]
  BY DEF None
<1>3. UdpProgram
  BY <1>1, <1>2 DEF UdpProgram, UdpCallsAt
<1>4. UdpTypes
  BY DEF UdpTypes
<1>5. ASSUME NEW s \in Socks
      PROVE  UdpSocket(s)
  BY <1>1 DEF UdpSocket, Awaited, Ended, Empty
<1>. QED  BY <1>3, <1>4, <1>5 DEF UdpInv

----------------------------------------------------------------------------
(* UDP: the steps.                                                         *)

LEMMA UdpSocketCall ==
    ASSUME UdpInv, Idle, NEW sn \in Socks, NEW protocol \in {"TCP", "UDP"}, socket(sn, protocol)
    PROVE  UdpInv'
<1>. USE DEF UdpInv, socket, At, close, Idle, caller
<1>1. protocol = "UDP" /\ at = "last" /\ call.fn # "sendto"
  BY DEF UdpProgram, UdpCallsAt
<1>2. call' = None /\ call'.fn = "none"
  BY DEF Return, None
<1>3. call' = [fn |-> call'.fn, st |-> call'.st, sn |-> call'.sn, arg |-> call'.arg]
  BY <1>2 DEF None
<1>4. UdpProgram'
  BY <1>1, <1>2, <1>3 DEF UdpProgram, UdpCallsAt
<1>5. UdpTypes'
  BY <1>1 DEF UdpTypes
<1>6. ASSUME NEW s \in Socks
      PROVE  UdpSocket(s)'
  <2>1. UdpSocket(s) /\ ~Awaited(s) /\ ~Awaited(s)'
    BY <1>1, <1>2 DEF Awaited
  <2>2. tx'[s] = << >> /\ sending'[s] = 0
    BY <2>1 DEF UdpSocket, Empty, UdpTypes
  <2>3. Sn_IR'[s] \in {{}, Sn_IR[s]}
    BY DEF UdpTypes
  <2>. QED  BY <2>1, <2>2, <2>3 DEF UdpSocket, Empty, Ended
<1>. QED  BY <1>4, <1>5, <1>6

\* In UDP what one call writes is the datagram.
LEMMA WholeDatagram == ASSUME NEW m, buf = << m >> PROVE Data = << m >> /\ Len(<< m >>) = 1
<1>1. << m >> \in Seq({m}) /\ Len(<< m >>) = 1
  OBVIOUS
<1>2. (IF 1 < TxMAX THEN 1 ELSE TxMAX) = 1
  OBVIOUS
<1>3. SubSeq(<< m >>, 1, Len(<< m >>)) = << m >>
  BY <1>1, SubSeqFull
<1>. QED  BY <1>1, <1>2, <1>3 DEF Data

LEMMA SendtoBegins ==
    ASSUME UdpInv, Idle, NEW sn \in Socks, call.fn = "sendto", sn = call.sn, call.st = "begin",
           Sn_DIPR' = [Sn_DIPR EXCEPT ![sn] = destip], ~(destip = Garbage0 \/ buf = << >>),
           tx' = [tx EXCEPT ![sn] = @ \o Data], sending' = [sending EXCEPT ![sn] = Len(tx'[sn])],
           Goto("wait"), UNCHANGED <<Sn_SR, Sn_IR, caller, heard, echoed>>
    PROVE  UdpInv'
<1>. USE DEF UdpInv, Idle, caller
<1>1. at = "echo" /\ at' = "echo"
  BY DEF UdpProgram, UdpCallsAt
<1>2. PICK m : buf = << m >> /\ m.who = destip
  BY <1>1 DEF UdpProgram
<1>3. Data = << m >> /\ Len(<< m >>) = 1
  BY <1>2, WholeDatagram
<1>4. call' = [fn |-> call.fn, st |-> "wait", sn |-> call.sn, arg |-> call.arg]
  BY DEF UdpProgram, Goto
<1>5. /\ call'.fn = "sendto" /\ call'.st = "wait" /\ call'.sn = sn
      /\ call' = [fn |-> call'.fn, st |-> call'.st, sn |-> call'.sn, arg |-> call'.arg]
  BY <1>4
<1>6. ~Awaited(sn) /\ tx[sn] = << >> /\ ~Ended(sn)
  BY DEF Awaited, UdpSocket, Empty
<1>7. << >> \o << m >> = << m >>
  <2>1. << m >> \in Seq({m})
    OBVIOUS
  <2>. QED  BY <2>1, ConcatEmptySeq
<1>8. tx'[sn] = << m >> /\ tx' = [tx EXCEPT ![sn] = << m >>] /\ sending' = [sending EXCEPT ![sn] = 1]
  <2>1. tx' = [tx EXCEPT ![sn] = << m >>]
    BY <1>3, <1>6, <1>7
  <2>2. tx'[sn] = << m >>
    BY <2>1 DEF UdpTypes
  <2>. QED  BY <1>3, <2>1, <2>2
<1>9. UdpTypes'
  BY <1>8 DEF UdpTypes
<1>10. UdpProgram'
  BY <1>1, <1>2, <1>5 DEF UdpProgram, UdpCallsAt
<1>11. ASSUME NEW s \in Socks
       PROVE  UdpSocket(s)'
  <2>1. UdpSocket(s)
    OBVIOUS
  <2>2. CASE s = sn
    <3>1. Awaited(s)' /\ ~Ended(s)'
      BY <1>5, <1>6, <2>2 DEF Awaited, Ended
    <3>2. Sn_DIPR'[s] = m.who
      BY <1>2, <2>2 DEF UdpTypes
    <3>. QED  BY <1>8, <2>2, <3>1, <3>2 DEF UdpSocket
  <2>3. CASE s # sn
    <3>1. Awaited(s)' = FALSE /\ Awaited(s) = FALSE
      BY <1>5, <2>3 DEF Awaited
    <3>2. /\ tx'[s] = tx[s] /\ sending'[s] = sending[s] /\ Sn_IR'[s] = Sn_IR[s]
          /\ Sn_DIPR'[s] = Sn_DIPR[s]
      BY <1>8, <2>3 DEF UdpTypes
    <3>. QED  BY <2>1, <3>1, <3>2 DEF UdpSocket, Ended, Empty
  <2>. QED  BY <2>2, <2>3
<1>. QED  BY <1>9, <1>10, <1>11

LEMMA UdpReturns ==
    ASSUME UdpInv, Idle, call.fn \in {"sendto", "recvfrom"}, call' = None,
           destip' = Garbage0 \/ \E m : buf' = << m >> /\ m.who = destip'
    PROVE  UdpProgram'
<1>1. call'.fn = "none"
  BY DEF None
<1>2. call' = [fn |-> call'.fn, st |-> call'.st, sn |-> call'.sn, arg |-> call'.arg]
  BY DEF None
<1>. QED  BY <1>1, <1>2 DEF UdpInv, UdpProgram, UdpCallsAt, Idle

LEMMA SendtoReturns ==
    ASSUME UdpInv, Idle, NEW sn \in Socks, call.fn = "sendto", sn = call.sn, call' = None,
           \/ /\ call.st = "begin" /\ Sn_DIPR' = [Sn_DIPR EXCEPT ![sn] = destip]
              /\ UNCHANGED Sn_IR
           \/ /\ call.st = "wait" /\ UNCHANGED Sn_DIPR
              /\ \E irq : /\ irq = IF "SENDOK" \in Sn_IR[sn] THEN "SENDOK" ELSE "TIMEOUT"
                          /\ irq \in Sn_IR[sn]
                          /\ Sn_IR' = [Sn_IR EXCEPT ![sn] = @ \ {irq}],
           UNCHANGED <<Sn_SR, tx, sending, caller, heard, echoed>>
    PROVE  UdpInv'
<1>. USE DEF UdpInv, Idle, caller
<1>1. call'.fn = "none"
  BY DEF None
<1>2. UdpProgram'
  <2>1. destip = Garbage0 \/ \E m : buf = << m >> /\ m.who = destip
    BY DEF UdpProgram, UdpCallsAt
  <2>. QED  BY <2>1, UdpReturns
<1>3. UdpTypes'
  BY DEF UdpTypes
<1>4. ASSUME NEW s \in Socks
      PROVE  UdpSocket(s)'
  <2>1. UdpSocket(s) /\ ~Awaited(s)' /\ tx'[s] = tx[s] /\ sending'[s] = sending[s]
    BY <1>1 DEF Awaited
  <2>2. CASE s # sn
    <3>1. ~Awaited(s) /\ Sn_IR'[s] = Sn_IR[s]
      BY <2>2 DEF Awaited, UdpTypes
    <3>. QED  BY <2>1, <3>1 DEF UdpSocket, Ended, Empty
  <2>3. CASE s = sn /\ call.st = "begin"
    <3>1. ~Awaited(s) /\ Sn_IR' = Sn_IR
      BY <2>3 DEF Awaited
    <3>. QED  BY <2>1, <3>1 DEF UdpSocket, Ended, Empty
  <2>4. CASE s = sn /\ call.st # "begin"
    <3>1. Ended(s) /\ Empty(s)
      BY <2>1, <2>4 DEF UdpSocket, Ended
    <3>2. ~Ended(s)'
      <4>1. PICK irq : /\ irq = (IF "SENDOK" \in Sn_IR[sn] THEN "SENDOK" ELSE "TIMEOUT")
                       /\ irq \in Sn_IR[sn] /\ Sn_IR'[sn] = Sn_IR[sn] \ {irq}
        BY <2>4 DEF UdpTypes
      <4>2. ~("SENDOK" \in Sn_IR[sn] /\ "TIMEOUT" \in Sn_IR[sn])
        BY <2>1, <2>4, <3>1 DEF UdpSocket
      <4>. QED  BY <2>4, <4>1, <4>2 DEF Ended
    <3>. QED  BY <2>1, <3>1, <3>2 DEF UdpSocket, Empty
  <2>. QED  BY <2>2, <2>3, <2>4
<1>. QED  BY <1>2, <1>3, <1>4

LEMMA UdpSendto == ASSUME UdpInv, Idle, NEW sn \in Socks, sendto(sn) PROVE UdpInv'
<1>. USE DEF sendto, lib, peers
<1>1. ASSUME call.st = "begin", Sn_DIPR' = [Sn_DIPR EXCEPT ![sn] = destip],
             Return(SOCKERR), UNCHANGED <<tx, sending>>, UNCHANGED <<Sn_SR, Sn_IR>>
      PROVE  UdpInv'
  BY <1>1, SendtoReturns DEF Return
<1>2. ASSUME call.st = "begin", Sn_DIPR' = [Sn_DIPR EXCEPT ![sn] = destip],
             ~(destip = Garbage0 \/ buf = << >>),
             tx' = [tx EXCEPT ![sn] = @ \o Data], sending' = [sending EXCEPT ![sn] = Len(tx'[sn])],
             Goto("wait"), UNCHANGED <<Sn_SR, Sn_IR>>
      PROVE  UdpInv'
  BY <1>2, SendtoBegins
<1>3. ASSUME call.st = "wait", Sn_IR[sn] \intersect {"SENDOK", "TIMEOUT"} # {}, NEW irq,
             irq = (IF "SENDOK" \in Sn_IR[sn] THEN "SENDOK" ELSE "TIMEOUT"),
             Sn_IR' = [Sn_IR EXCEPT ![sn] = @ \ {irq}],
             NEW r, Return(r), UNCHANGED <<Sn_SR, Sn_DIPR, tx, sending>>
      PROVE  UdpInv'
  <2>1. irq \in Sn_IR[sn]
    BY <1>3
  <2>. QED  BY <1>3, <2>1, SendtoReturns DEF Return
<1>. QED  BY <1>1, <1>2, <1>3

LEMMA UdpRecvfrom == ASSUME UdpInv, Idle, NEW sn \in Socks, recvfrom(sn) PROVE UdpInv'
<1>1. /\ call.fn = "recvfrom" /\ call' = None /\ call'.fn = "none"
      /\ UNCHANGED <<Sn_SR, Sn_IR, Sn_DIPR, tx, sending, heard, echoed>>
  BY DEF recvfrom, At, Return, None, peers
<1>2. destip' = Garbage0 \/ \E m : buf' = << m >> /\ m.who = destip'
  <2>1. destip = Garbage0
    BY <1>1 DEF UdpInv, UdpProgram, UdpCallsAt
  <2>2. PICK n : /\ destip' = IF sock_remained_size[sn] # 0 THEN destip ELSE Head(rx[sn]).who
                 /\ buf' = << [who |-> Head(rx[sn]).who, n |-> n] >>
    BY DEF recvfrom
  <2>. QED  BY <2>1, <2>2
<1>3. UdpProgram'
  BY <1>1, <1>2, UdpReturns
<1>4. ASSUME NEW s \in Socks
      PROVE  UdpSocket(s)'
  BY <1>1 DEF UdpInv, UdpSocket, Awaited, Ended, Empty
<1>. QED  BY <1>1, <1>3, <1>4 DEF UdpInv, UdpTypes

LEMMA UdpCalls == ASSUME UdpInv, Calls, Idle PROVE UdpInv'
<1>1. PICK sn \in Socks :
        \/ CloseCall(sn) \/ (\E p \in {"TCP", "UDP"} : socket(sn, p))
        \/ listen(sn) \/ connect(sn) \/ disconnect(sn)
        \/ SendCheck(sn) \/ SendIrq(sn) \/ SendRoom(sn) \/ SendOkWait(sn) \/ recv(sn)
        \/ sendto(sn) \/ recvfrom(sn)
  BY DEF Calls
<1>2. call.fn \in {"none", "recvfrom", "sendto", "socket"}
  BY DEF UdpInv, UdpProgram, UdpCallsAt
<1>3. ~(CloseCall(sn) \/ listen(sn) \/ connect(sn) \/ disconnect(sn) \/ SendCheck(sn)
        \/ SendIrq(sn) \/ SendRoom(sn) \/ SendOkWait(sn) \/ recv(sn))
  BY <1>2 DEF CloseCall, listen, connect, disconnect, SendCheck, SendIrq, SendRoom, SendOkWait,
              recv, At
<1>. QED  BY <1>1, <1>3, UdpSocketCall, UdpSendto, UdpRecvfrom

LEMMA UdpTransmitted == ASSUME UdpInv, Idle, NEW sn \in Socks, Transmitted(sn) PROVE UdpInv'
<1>. USE DEF UdpInv, Transmitted, lib, caller
<1>1. /\ UNCHANGED <<Sn_SR, Sn_DIPR, call, buf, destip, heard>>
      /\ sending' = [sending EXCEPT ![sn] = 0] /\ tx' = [tx EXCEPT ![sn] = << >>]
  OBVIOUS
<1>2. sending[sn] = 1
  BY DEF UdpTypes
<1>3. PICK irq \in {"SENDOK", "TIMEOUT"} : Sn_IR' = [Sn_IR EXCEPT ![sn] = @ \union {irq}]
  BY DEF Raise
<1>4. UdpTypes'
  BY <1>1, <1>3 DEF UdpTypes
<1>5. UdpProgram'
  BY <1>1 DEF UdpProgram, UdpCallsAt, Idle
<1>6. Awaited(sn) /\ ~Ended(sn)
  <2>1. ~Empty(sn)
    BY <1>2 DEF Empty
  <2>. QED  BY <2>1 DEF UdpSocket
<1>7. ASSUME NEW s \in Socks
      PROVE  UdpSocket(s)'
  <2>1. UdpSocket(s) /\ (Awaited(s)' <=> Awaited(s))
    BY <1>1 DEF Awaited
  <2>2. CASE s = sn
    <3>1. tx'[s] = << >> /\ sending'[s] = 0 /\ Sn_IR'[s] = Sn_IR[s] \union {irq}
      BY <1>1, <1>3, <2>2 DEF UdpTypes
    <3>2. Empty(s)'
      BY <3>1 DEF Empty
    <3>3. ~("SENDOK" \in Sn_IR'[s] /\ "TIMEOUT" \in Sn_IR'[s])
      BY <1>6, <2>2, <3>1 DEF Ended
    <3>. QED  BY <1>6, <2>1, <2>2, <3>1, <3>2, <3>3 DEF UdpSocket
  <2>3. CASE s # sn
    <3>1. tx'[s] = tx[s] /\ sending'[s] = sending[s] /\ Sn_IR'[s] = Sn_IR[s]
      BY <1>1, <1>3, <2>3 DEF UdpTypes
    <3>. QED  BY <1>1, <2>1, <3>1 DEF UdpSocket, Ended, Empty
  <2>. QED  BY <2>2, <2>3
<1>8. \A e \in echoed' : e[1] = e[2]
  <2>1. tx[sn] = << >> \/ \E m : tx[sn] = << m >> /\ m.who = Sn_DIPR[sn]
    BY DEF UdpSocket
  <2>2. \A i \in DOMAIN tx[sn] : tx[sn][i].who = Sn_DIPR[sn]
    BY <2>1
  <2>3. ASSUME echoed' = {<<Sn_DIPR[sn], tx[sn][i].who>> : i \in DOMAIN tx[sn]}
        PROVE  \A e \in echoed' : e[1] = e[2]
    BY <2>2, <2>3
  <2>. QED  BY <2>3
<1>. QED  BY <1>4, <1>5, <1>7, <1>8

LEMMA UdpNetwork == ASSUME UdpInv, Network, Idle PROVE UdpInv'
<1>1. PICK sn \in Socks :
        \/ Connected(sn) \/ PeerSays(sn) \/ PeerCloses(sn) \/ HandshakeEnds(sn)
        \/ Acknowledged(sn) \/ Transmitted(sn)
        \/ \E c \in Clients, n \in 1 .. MTU : Datagram(sn, c, n)
  BY DEF Network
<1>2. Sn_SR[sn] \in {"CLOSED", "UDP"}
  BY DEF UdpInv, UdpTypes
<1>3. ~(Connected(sn) \/ PeerSays(sn) \/ PeerCloses(sn) \/ HandshakeEnds(sn) \/ Acknowledged(sn))
  BY <1>2 DEF Connected, PeerSays, PeerCloses, HandshakeEnds, Acknowledged, Live
<1>4. ASSUME NEW c \in Clients, NEW n \in 1 .. MTU, Datagram(sn, c, n)
      PROVE  UdpInv'
  <2>. USE <1>4 DEF Datagram, lib, caller, peers, UdpInv, Idle
  <2>1. UdpTypes' /\ UdpProgram'
    BY DEF UdpTypes, UdpProgram, UdpCallsAt
  <2>2. ASSUME NEW s \in Socks
        PROVE  UdpSocket(s)'
    BY DEF UdpSocket, Awaited, Ended, Empty
  <2>. QED  BY <2>1, <2>2
<1>. QED  BY <1>1, <1>3, <1>4, UdpTransmitted

\* A step of the program leaves the sockets alone.
LEMMA UdpProgramKeeps ==
    ASSUME UdpInv, UNCHANGED <<chip, peers>>, UdpProgram', ~(call'.fn = "sendto" /\ call'.st = "wait"),
           call = None
    PROVE  UdpInv'
<1>. USE DEF UdpInv, chip, peers
<1>1. UdpTypes'
  BY DEF UdpTypes
<1>2. ASSUME NEW s \in Socks
      PROVE  UdpSocket(s)'
  <2>1. ~Awaited(s)' /\ ~Awaited(s)
    BY DEF Awaited, None
  <2>2. Ended(s)' = Ended(s) /\ Empty(s)' = Empty(s)
    BY DEF Ended, Empty
  <2>. QED  BY <2>1, <2>2 DEF UdpSocket
<1>. QED  BY <1>1, <1>2

LEMMA UdpStops ==
    ASSUME UdpInv, UNCHANGED <<chip, peers>>, call = None, call' = None, NEW r, Done \/ Error(r)
    PROVE  UdpInv'
<1>1. at' \in {"poll", "halt"}
  BY DEF Done, Error, Finishes
<1>2. call'.fn = "none"
  BY DEF None
<1>3. call' = [fn |-> call'.fn, st |-> call'.st, sn |-> call'.sn, arg |-> call'.arg]
  BY DEF None
<1>4. UdpProgram'
  BY <1>1, <1>2, <1>3 DEF UdpProgram, UdpCallsAt
<1>. QED  BY <1>2, <1>4, UdpProgramKeeps

LEMMA UdpBegins ==
    ASSUME UdpInv, UNCHANGED <<chip, peers>>, call = None,
           NEW fn, NEW st, NEW arg, st # "wait",
           call' = [fn |-> fn, st |-> st, sn |-> cur, arg |-> arg],
           \/ fn = "recvfrom" /\ at' = "received" /\ destip' = Garbage0
           \/ fn = "socket" /\ at' = "last" /\ st = "UDP"
           \/ fn = "sendto" /\ at' = "echo" /\ at = "received" /\ UNCHANGED <<buf, destip>>
    PROVE  UdpInv'
<1>1. /\ call'.fn = fn /\ call'.st = st
      /\ call' = [fn |-> call'.fn, st |-> call'.st, sn |-> call'.sn, arg |-> call'.arg]
  BY CallIsCall
<1>2. fn # "none"
  OBVIOUS
<1>3. UdpProgram'
  BY <1>1, <1>2 DEF UdpInv, UdpProgram, UdpCallsAt
<1>. QED  BY <1>1, <1>3, UdpProgramKeeps

LEMMA UdpActions ==
    ASSUME UdpInv, Udp, UdpCall \/ Echo
    PROVE  UdpInv'
<1>. USE DEF caller
<1>1. ASSUME UdpRead
      PROVE  UdpInv'
  <2>1. UNCHANGED <<chip, peers>> /\ call = None /\ destip' = Garbage0 /\ at' = "received"
    BY <1>1 DEF UdpRead, Polls, Read, Begin
  <2>2. PICK n : call' = [fn |-> "recvfrom", st |-> "begin", sn |-> cur, arg |-> n]
    BY <1>1 DEF UdpRead, Read, Begin, Call
  <2>3. PICK fn, st : fn = "recvfrom" /\ st = "begin" /\ st # "wait"
    OBVIOUS
  <2>. QED  BY <2>1, <2>2, <2>3, UdpBegins
<1>2. ASSUME Reopen
      PROVE  UdpInv'
  <2>1. UNCHANGED <<chip, peers>> /\ call = None /\ at' = "last"
    BY <1>2 DEF Reopen, Polls, Begin
  <2>2. PICK n : n = NewPort
    OBVIOUS
  <2>3. call' = [fn |-> "socket", st |-> "UDP", sn |-> cur, arg |-> n]
    BY <1>2, <2>2 DEF Reopen, Begin, Call
  <2>4. PICK fn, st : fn = "socket" /\ st = "UDP" /\ st # "wait"
    OBVIOUS
  <2>. QED  BY <2>1, <2>3, <2>4, UdpBegins
<1>3. ASSUME Waits
      PROVE  UdpInv'
  <2>1. UNCHANGED <<chip, peers>> /\ call = None /\ call' = None /\ Done
    BY <1>3 DEF Waits
  <2>. QED  BY <2>1, UdpStops
<1>4. ASSUME Received
      PROVE  UdpInv'
  <2>1. UNCHANGED <<chip, peers>> /\ call = None /\ UNCHANGED destip /\ at = "received"
    BY <1>4 DEF Received, UdpInv, UdpProgram
  <2>2. CASE (Error(ret) \/ Done) /\ UNCHANGED call
    BY <2>1, <2>2, UdpStops
  <2>3. CASE Begin(Call(Sending, cur, 0), EchoAt) /\ UNCHANGED <<cur, ret, buf>>
    <3>1. /\ at' = "echo"
          /\ call' = [fn |-> "sendto", st |-> "begin", sn |-> cur, arg |-> 0]
      BY <2>1, <2>3 DEF Begin, Call, Sending, EchoAt
    <3>2. PICK fn, st, n : fn = "sendto" /\ st = "begin" /\ st # "wait" /\ n = 0
      OBVIOUS
    <3>. QED  BY <2>1, <2>3, <3>1, <3>2, UdpBegins
  <2>. QED  BY <1>4, <2>2, <2>3 DEF Received
<1>5. ASSUME Echo
      PROVE  UdpInv'
  <2>1. UNCHANGED <<chip, peers>> /\ call = None /\ at = "echo" /\ Unsent = << >>
    BY <1>5 DEF Echo, UdpInv, UdpProgram, Unsent
  <2>2. (Error(ret) \/ Done) /\ UNCHANGED call
    BY <1>5, <2>1 DEF Echo
  <2>. QED  BY <2>1, <2>2, UdpStops
<1>6. ASSUME Returned
      PROVE  UdpInv'
  <2>1. UNCHANGED <<chip, peers>> /\ call = None /\ call' = None /\ (Done \/ Error(SOCK_BUSY))
    BY <1>6 DEF Returned
  <2>. QED  BY <2>1, UdpStops
<1>. QED  BY <1>1, <1>2, <1>3, <1>4, <1>5, <1>6 DEF UdpCall

LEMMA UdpInvNext ==
    ASSUME UdpInv, Udp, [EchoNext]_echoVars
    PROVE  UdpInv' /\ Udp'
<1>1. Udp'
  BY DEF EchoNext, echoVars, Program, Idle, Udp, loopback_tcps, loopback_tcpc,
         loopback_tcps_W6x00, loopback_tcpc_W6x00, tcp_server_multi_socket,
         loopback_udps, loopback_udpc, multicast_loopback, multicast_recv,
         Tcp_W5500, Tcp_W6x00, UdpCall, Established, CloseWait, CloseWait_W6x00, Initialised,
         Reopen, Waits, UdpRead, Received, Echo, Returned
<1>2. ASSUME Program
      PROVE  UdpInv'
  <2>1. UdpCall \/ Echo
    BY <1>2 DEF Program, Udp, loopback_tcps, loopback_tcpc, loopback_tcps_W6x00,
       loopback_tcpc_W6x00, tcp_server_multi_socket, loopback_udps, loopback_udpc,
       multicast_loopback, multicast_recv
  <2>. QED  BY <2>1, UdpActions
<1>3. ASSUME Calls, Idle
      PROVE  UdpInv'
  BY <1>3, UdpCalls
<1>4. ASSUME Network, Idle
      PROVE  UdpInv'
  BY <1>4, UdpNetwork
<1>5. ASSUME UNCHANGED echoVars
      PROVE  UdpInv'
  <2>. USE <1>5 DEF echoVars, sockVars, chip, lib, caller, peers, UdpInv
  <2>1. UdpTypes' /\ UdpProgram'
    BY DEF UdpTypes, UdpProgram, UdpCallsAt
  <2>2. ASSUME NEW s \in Socks
        PROVE  UdpSocket(s)'
    BY DEF UdpSocket, Awaited, Ended, Empty
  <2>. QED  BY <2>1, <2>2
<1>. QED  BY <1>1, <1>2, <1>3, <1>4, <1>5 DEF EchoNext

----------------------------------------------------------------------------

EchoInv == (Udp => UdpInv) /\ (~Udp => TcpInv)

LEMMA EchoInvIsOwn == EchoInv => EchoIsOwn
<1>1. ASSUME Udp, UdpInv
      PROVE  EchoIsOwn
  <2>1. ASSUME NEW s \in Socks
        PROVE  DOMAIN heard[s] = {}
    <3>1. heard[s] = << >>
      BY <1>1 DEF UdpInv, UdpTypes
    <3>. QED  BY <3>1
  <2>. QED  BY <1>1, <2>1 DEF EchoIsOwn, UdpInv
<1>2. ASSUME ~Udp, TcpInv
      PROVE  EchoIsOwn
  <2>1. ASSUME NEW s \in Socks, NEW i \in DOMAIN heard[s]
        PROVE  heard[s][i].who = conn[s] /\ (~w6x00 => heard[s][i].n = i)
    <3>1. heard[s] \in Seq(Item)
      BY <1>2, TcpSocketTypes
    <3>2. i \in 1 .. Len(heard[s]) /\ Len(heard[s]) \in Nat
      BY <3>1, LenProperties
    <3>3. RunOf(w6x00, heard[s], conn[s], 0)
      BY <1>2, TcpSocketTypes DEF StreamOf, Stream
    <3>4. heard[s][i].who = conn[s] /\ (~w6x00 => heard[s][i].n = 0 + i)
      BY <3>2, <3>3 DEF RunOf
    <3>5. 0 + i = i
      BY <3>2
    <3>. QED  BY <3>4, <3>5
  <2>. QED  BY <1>2, <2>1 DEF EchoIsOwn, TcpInv
<1>. QED  BY <1>1, <1>2 DEF EchoInv

\* What a TCP peer hears is what it said, from its first byte, in order and
\* once, and a UDP client receives its own data, in every run of the programs of
\* loopback.c and multicast.c on any number of sockets.
THEOREM EchoIsOwnHolds == EchoSpec => []EchoIsOwn
<1>1. EchoInit => EchoInv
  BY InitTcp, InitUdp DEF EchoInv
<1>2. EchoInv /\ [EchoNext]_echoVars => EchoInv'
  BY TcpInvNext, UdpInvNext DEF EchoInv
<1>. QED  BY <1>1, <1>2, EchoInvIsOwn, PTL DEF EchoSpec

----------------------------------------------------------------------------
(* Types: what a socket's memory holds of datagrams.                       *)

Datagrams == [who : Clients, n : 1 .. MTU]

\* The recursive function in Units exists, and its last value is the result.
Sums(g, s) == g = [i \in 0 .. Len(s) |-> IF i = 0 THEN 0 ELSE g[i - 1] + s[i].n + 1]

LEMMA SumsExist ==
    ASSUME NEW s, Len(s) \in Nat
    PROVE  \E g : Sums(g, s)
<1>. DEFINE n == Len(s)
            Part(g, k) == /\ g = [i \in 0 .. k |-> g[i]]
                          /\ \A i \in 0 .. k : g[i] = IF i = 0 THEN 0 ELSE g[i - 1] + s[i].n + 1
            Good == {k \in Nat : \E g : Part(g, k)}
<1>1. 0 \in Good
  <2>1. Part([i \in 0 .. 0 |-> 0], 0)
    OBVIOUS
  <2>. QED  BY <2>1
<1>2. ASSUME NEW k \in Nat, k \in Good
      PROVE  k + 1 \in Good
  <2>1. PICK g : Part(g, k)
    BY <1>2
  <2>. DEFINE m == k + 1
              h == [i \in 0 .. m |-> IF i = m THEN g[k] + s[i].n + 1 ELSE g[i]]
  <2>2. m \in Nat /\ m # 0 /\ m - 1 = k
    OBVIOUS
  <2>. HIDE DEF m
  <2>3. h = [i \in 0 .. m |-> h[i]]
    OBVIOUS
  <2>4. ASSUME NEW i \in 0 .. m
        PROVE  h[i] = IF i = 0 THEN 0 ELSE h[i - 1] + s[i].n + 1
    <3>1. CASE i = m
      <4>1. i # 0 /\ i - 1 = k /\ i - 1 \in 0 .. m /\ i - 1 # m
        BY <2>2, <3>1
      <4>. QED  BY <3>1, <4>1
    <3>2. CASE i # m
      <4>1. i \in 0 .. k
        BY <2>2, <3>2
      <4>2. i # 0 => i - 1 \in 0 .. m /\ i - 1 # m
        BY <2>2, <4>1
      <4>3. g[i] = IF i = 0 THEN 0 ELSE g[i - 1] + s[i].n + 1
        BY <2>1, <4>1
      <4>. QED  BY <3>2, <4>2, <4>3
    <3>. QED  BY <3>1, <3>2
  <2>. HIDE DEF h
  <2>5. Part(h, m)
    BY <2>3, <2>4
  <2>. HIDE DEF Part
  <2>6. Part(h, k + 1)
    BY <2>5 DEF m
  <2>. QED  BY <2>6
<1>3. n \in Good
  <2>. HIDE DEF Good
  <2>1. Nat \subseteq Good
    BY <1>1, <1>2, InductiveSet
  <2>. QED  BY <2>1
<1>4. PICK g : Part(g, n)
  BY <1>3
<1>5. Sums(g, s)
  BY <1>4 DEF Sums
<1>. QED  BY <1>5

LEMMA UnitsIs ==
    ASSUME NEW s, Len(s) \in Nat
    PROVE  \E g : Sums(g, s) /\ Units(s) = g[Len(s)]
<1>. DEFINE g == CHOOSE f : Sums(f, s)
<1>1. Sums(g, s)
  BY SumsExist
<1>2. Units(s) = g[Len(s)]
  BY Zenon DEF Units, Sums
<1>. HIDE DEF g
<1>. QED  BY <1>1, <1>2

\* Two sequences that are the same but for where they start, and what their
\* sums are: equal but for a number.
Shifted(s, t, d, n) == n <= Len(s) /\ n + d <= Len(t) /\ \A i \in 1 .. n : t[i + d] = s[i]

LEMMA SumsApart ==
    ASSUME NEW s \in Seq(Datagrams), NEW t \in Seq(Datagrams), NEW d \in {0, 1},
           NEW n \in Nat, Shifted(s, t, d, n), NEW g, Sums(g, s), NEW h, Sums(h, t)
    PROVE  /\ \A i \in 0 .. n : g[i] \in Nat /\ h[i + d] = h[d] + g[i]
           /\ h[d] = (IF d = 0 THEN 0 ELSE t[1].n + 1) /\ h[d] \in Nat
<1>. USE DEF Shifted
<1>1. Len(s) \in Nat /\ Len(t) \in Nat /\ DOMAIN s = 1 .. Len(s) /\ DOMAIN t = 1 .. Len(t)
  BY LenProperties
<1>2. /\ \A i \in 0 .. Len(s) : g[i] = IF i = 0 THEN 0 ELSE g[i - 1] + s[i].n + 1
      /\ \A i \in 0 .. Len(t) : h[i] = IF i = 0 THEN 0 ELSE h[i - 1] + t[i].n + 1
  BY <1>1 DEF Sums
<1>3. (\A i \in 1 .. Len(s) : s[i].n \in Nat) /\ \A i \in 1 .. Len(t) : t[i].n \in Nat
  <2>1. \A m \in Datagrams : m.n \in Nat
    BY DEF Datagrams
  <2>. QED  BY <2>1, <1>1
<1>4. h[d] = (IF d = 0 THEN 0 ELSE t[1].n + 1) /\ h[d] \in Nat
  <2>1. h[0] = 0
    BY <1>1, <1>2
  <2>2. ASSUME d = 1
        PROVE  h[1] = t[1].n + 1 /\ t[1].n \in Nat
    <3>1. 1 \in 0 .. Len(t) /\ 1 \in 1 .. Len(t)
      BY <1>1, <2>2
    <3>2. h[1] = h[0] + t[1].n + 1 /\ t[1].n \in Nat
      BY <1>2, <1>3, <3>1
    <3>. QED  BY <2>1, <3>2
  <2>. QED  BY <2>1, <2>2
<1>. DEFINE Good == {i \in Nat : g[i] \in Nat /\ h[i + d] = h[d] + g[i]}
<1>5. 0 \in Good
  BY <1>1, <1>2, <1>4
<1>6. ASSUME NEW k \in 0 .. n - 1, k \in Good
      PROVE  k + 1 \in Good
  <2>1. k \in Nat /\ k + 1 \in 0 .. Len(s) /\ k + 1 \in 1 .. Len(s) /\ k + 1 \in 1 .. n /\ k + 1 # 0 /\ (k + 1) - 1 = k
    BY <1>1
  <2>. DEFINE j == (k + 1) + d
  <2>2. j \in 0 .. Len(t) /\ j # 0 /\ j - 1 = k + d
    BY <1>1
  <2>3. t[j] = s[k + 1]
    BY <2>1
  <2>. DEFINE a == s[k + 1].n
  <2>4. g[k + 1] = g[k] + a + 1 /\ h[j] = h[k + d] + a + 1 /\ a \in Nat
    <3>1. g[k + 1] = g[(k + 1) - 1] + a + 1
      BY <1>2, <2>1
    <3>2. h[j] = h[j - 1] + t[j].n + 1
      BY <1>2, <2>2
    <3>3. a \in Nat
      BY <1>3, <2>1
    <3>. QED  BY <2>1, <2>2, <2>3, <3>1, <3>2, <3>3
  <2>5. g[k] \in Nat /\ h[k + d] = h[d] + g[k]
    BY <1>6
  <2>6. g[k + 1] \in Nat /\ h[j] = h[d] + g[k + 1]
    <3>. DEFINE x == g[k]
                y == h[d]
                z == h[k + d]
                u == g[k + 1]
                v == h[j]
    <3>1. x \in Nat /\ y \in Nat /\ a \in Nat /\ z = y + x /\ u = x + a + 1 /\ v = z + a + 1
      BY <1>4, <2>4, <2>5
    <3>. HIDE DEF x, y, z, u, v, a
    <3>2. u \in Nat /\ v = y + u
      BY <3>1
    <3>. QED  BY <3>2 DEF u, v, y
  <2>. QED  BY <2>1, <2>6 DEF j
<1>. HIDE DEF Good
<1>7. \A i \in 0 .. n : i \in Good
  BY <1>5, <1>6, Upward
<1>. QED  BY <1>4, <1>7 DEF Good

LEMMA UnitsFacts ==
    ASSUME NEW s \in Seq(Datagrams)
    PROVE  Units(s) \in Nat /\ (s = << >> => Units(s) = 0)
<1>1. Len(s) \in Nat
  BY LenProperties
<1>2. PICK g : Sums(g, s) /\ Units(s) = g[Len(s)]
  BY <1>1, UnitsIs
<1>. DEFINE n == Len(s)
<1>4. \A i \in 0 .. n : g[i] \in Nat
  <2>1. PICK d \in {0, 1} : d = 0
    OBVIOUS
  <2>2. Shifted(s, s, d, n) /\ n \in Nat
    BY <1>1, <2>1 DEF Shifted
  <2>. HIDE DEF n
  <2>. QED  BY <1>2, <2>1, <2>2, SumsApart
<1>5. n \in 0 .. n
  BY <1>1
<1>6. s = << >> => g[0] = 0 /\ n = 0
  BY <1>2 DEF Sums
<1>. QED  BY <1>2, <1>4, <1>5, <1>6

LEMMA UnitsAppend ==
    ASSUME NEW s \in Seq(Datagrams), NEW m \in Datagrams
    PROVE  Units(Append(s, m)) = Units(s) + m.n + 1
<1>. DEFINE n == Len(s)
            t == Append(s, m)
<1>1. n \in Nat /\ t \in Seq(Datagrams) /\ Len(t) = n + 1 /\ t[n + 1] = m /\ \A i \in 1 .. n : t[i] = s[i]
  BY AppendProperties, LenProperties
<1>. HIDE DEF t
<1>2. PICK g : Sums(g, s) /\ Units(s) = g[n]
  BY <1>1, UnitsIs
<1>3. PICK h : Sums(h, t) /\ Units(t) = h[n + 1]
  BY <1>1, UnitsIs
<1>6. (\A i \in 0 .. n : g[i] \in Nat /\ h[i + 0] = h[0] + g[i]) /\ h[0] = 0
  <2>1. PICK d \in {0, 1} : d = 0
    OBVIOUS
  <2>2. Shifted(s, t, d, n)
    BY <1>1, <2>1 DEF Shifted
  <2>. HIDE DEF n
  <2>4. (\A i \in 0 .. n : g[i] \in Nat /\ h[i + d] = h[d] + g[i])
          /\ h[d] = (IF d = 0 THEN 0 ELSE t[1].n + 1)
    BY <1>1, <1>2, <1>3, <2>1, <2>2, SumsApart
  <2>. QED  BY <2>1, <2>4
<1>7. n + 0 = n /\ n \in 0 .. n /\ n + 1 \in 0 .. n + 1 /\ n + 1 # 0 /\ (n + 1) - 1 = n
  BY <1>1
<1>8. h[n + 1] = h[n] + m.n + 1
  <2>1. \A i \in 0 .. n + 1 : h[i] = IF i = 0 THEN 0 ELSE h[i - 1] + t[i].n + 1
    BY <1>1, <1>3 DEF Sums
  <2>. QED  BY <1>1, <1>7, <2>1
<1>9. h[n] = g[n]
  BY <1>6, <1>7
<1>. QED  BY <1>2, <1>3, <1>8, <1>9 DEF t

LEMMA UnitsTail ==
    ASSUME NEW t \in Seq(Datagrams), t # << >>
    PROVE  Tail(t) \in Seq(Datagrams) /\ Units(Tail(t)) <= Units(t)
<1>. DEFINE s == Tail(t)
            n == Len(s)
<1>1. s \in Seq(Datagrams) /\ n \in Nat /\ Len(t) = n + 1 /\ \A i \in 1 .. n : s[i] = t[i + 1]
  <2>1. Len(t) \in Nat /\ Len(t) # 0
    BY LenProperties, EmptySeq
  <2>. QED  BY <2>1, HeadTailProperties
<1>. HIDE DEF s
<1>2. PICK g : Sums(g, s) /\ Units(s) = g[n]
  BY <1>1, UnitsIs
<1>3. PICK h : Sums(h, t) /\ Units(t) = h[n + 1]
  BY <1>1, UnitsIs
<1>5. (\A i \in 0 .. n : g[i] \in Nat /\ h[i + 1] = h[1] + g[i]) /\ h[1] \in Nat
  <2>1. PICK d \in {0, 1} : d = 1
    OBVIOUS
  <2>2. Shifted(s, t, d, n)
    BY <1>1, <2>1 DEF Shifted
  <2>. HIDE DEF n
  <2>4. (\A i \in 0 .. n : g[i] \in Nat /\ h[i + d] = h[d] + g[i]) /\ h[d] \in Nat
    BY <1>1, <1>2, <1>3, <2>1, <2>2, SumsApart
  <2>. QED  BY <2>1, <2>4
<1>6. n \in 0 .. n
  BY <1>1
<1>7. Units(s) <= Units(t)
  <2>1. g[n] \in Nat /\ h[n + 1] = h[1] + g[n]
    BY <1>5, <1>6
  <2>. QED  BY <1>2, <1>3, <1>5, <2>1
<1>. QED  BY <1>1, <1>7 DEF s

----------------------------------------------------------------------------
(* Types: registers, ports, calls.                                         *)

Irqs     == {"CON", "DISCON", "TIMEOUT", "SENDOK"}
PortValues    == 0 .. PortMax
AnyPorts == SOCK_ANY_PORT_NUM .. SOCK_ANY_PORT_END - 1
Registers == Sn_IR \in [Socks -> SUBSET Irqs] /\ Sn_PORT \in [Socks -> PortValues] /\ sock_any_port \in AnyPorts

\* Lengths that a call is given are within the buffer, ports within 16 bits.
Reading(fn) == fn \in {"recv", "recvfrom"}
CallArg ==
    /\ Reading(call.fn) => call.arg \in 0 .. DATA_BUF_SIZE
    /\ call.fn = "socket" => call.arg \in PortValues

ProgramTypes == role \in Roles /\ any_port \in PortValues /\ cur \in Socks \union {c + 1 : c \in Socks}

LEMMA PortFacts ==
    /\ AnyPorts \subseteq PortValues /\ SOCK_ANY_PORT_NUM \in AnyPorts /\ 0 \in PortValues
    /\ PORT \in PortValues /\ FirstAnyPort \in PortValues
    /\ sock_any_port \in AnyPorts => NextAnyPort \in AnyPorts
    /\ any_port \in PortValues => NextPort \in PortValues
<1>. USE DEF AnyPorts, PortValues
<1>1. AnyPorts \subseteq PortValues /\ SOCK_ANY_PORT_NUM \in AnyPorts /\ 0 \in PortValues
  OBVIOUS
<1>2. PORT \in PortValues /\ FirstAnyPort \in PortValues
  OBVIOUS
<1>3. sock_any_port \in AnyPorts => NextAnyPort \in AnyPorts
  BY DEF NextAnyPort
<1>4. any_port \in PortValues => NextPort \in PortValues
  <2>. DEFINE a == any_port + 1
              m == PortMax + 1
  <2>1. any_port \in PortValues => a \in Nat /\ m \in Nat \ {0} /\ m - 1 = PortMax
    OBVIOUS
  <2>2. ASSUME a \in Nat, m \in Nat \ {0}
        PROVE  a % m \in 0 .. m - 1
    <3>. HIDE DEF a, m
    <3>. QED  BY <2>2
  <2>. QED  BY <2>1, <2>2 DEF NextPort
<1>. QED  BY <1>1, <1>2, <1>3, <1>4

\* A call ends, or goes on with another step.
LEMMA CallSteps ==
    ASSUME Calls
    PROVE  call' = None \/ \E st : call' = [call EXCEPT !.st = st]
<1>1. PICK sn \in Socks :
        \/ CloseCall(sn) \/ (\E p \in {"TCP", "UDP"} : socket(sn, p))
        \/ listen(sn) \/ connect(sn) \/ disconnect(sn)
        \/ SendCheck(sn) \/ SendIrq(sn) \/ SendRoom(sn) \/ SendOkWait(sn) \/ recv(sn)
        \/ sendto(sn) \/ recvfrom(sn)
  BY DEF Calls
<1>. DEFINE Steps == call' = None \/ \E st : call' = [call EXCEPT !.st = st]
<1>2. \A st : Goto(st) => Steps
  BY DEF Goto
<1>3. \A r : Return(r) => Steps
  BY DEF Return
<1>4. \A closes : Fails(sn, closes) => Steps
  BY <1>3 DEF Fails
<1>. HIDE DEF Steps
<1>5. CloseCall(sn) \/ (\E p \in {"TCP", "UDP"} : socket(sn, p)) => Steps
  BY <1>3 DEF CloseCall, socket
<1>6. listen(sn) => Steps
  BY <1>2, <1>3, <1>4 DEF listen
<1>7. connect(sn) => Steps
  BY <1>2, <1>3, <1>4 DEF connect
<1>8. disconnect(sn) => Steps
  BY <1>2, <1>3, <1>4 DEF disconnect
<1>9. SendCheck(sn) => Steps
  BY <1>2, <1>4 DEF SendCheck
<1>10. SendIrq(sn) => Steps
  BY <1>2, <1>3, <1>4 DEF SendIrq
<1>11. SendRoom(sn) => Steps
  BY <1>2, <1>3, <1>4 DEF SendRoom
<1>12. SendOkWait(sn) => Steps
  BY <1>3, <1>4 DEF SendOkWait
<1>13. recv(sn) => Steps
  BY <1>3, <1>4 DEF recv
<1>14. sendto(sn) => Steps
  BY <1>2, <1>3 DEF sendto
<1>15. recvfrom(sn) => Steps
  BY <1>3 DEF recvfrom
<1>. QED  BY <1>1, <1>5, <1>6, <1>7, <1>8, <1>9, <1>10, <1>11, <1>12, <1>13, <1>14, <1>15 DEF Steps

LEMMA CallArgKept ==
    ASSUME CallArg, call = [fn |-> call.fn, st |-> call.st, sn |-> call.sn, arg |-> call.arg],
           call' = None \/ \E st : call' = [call EXCEPT !.st = st]
    PROVE  CallArg'
<1>1. CASE call' = None
  BY <1>1 DEF CallArg, None, Reading
<1>2. ASSUME NEW st, call' = [call EXCEPT !.st = st]
      PROVE  CallArg'
  <2>1. call'.fn = call.fn /\ call'.arg = call.arg
    BY <1>2
  <2>. QED  BY <2>1 DEF CallArg, Reading
<1>. QED  BY <1>1, <1>2

\* What a step of a call, or of the network, does to the registers of a socket.
RegisterSteps(sn) ==
    /\ Sn_IR' = Sn_IR \/ \E q \in SUBSET Irqs : Sn_IR' = [Sn_IR EXCEPT ![sn] = q]
    /\ UNCHANGED <<Sn_PORT, sock_any_port>>

LEMMA RegistersStep ==
    ASSUME Registers, NEW sn \in Socks, RegisterSteps(sn)
    PROVE  Registers'
BY DEF Registers, RegisterSteps

LEMMA IrqSteps ==
    ASSUME Registers, NEW sn \in Socks, UNCHANGED <<Sn_PORT, sock_any_port>>
    PROVE  /\ UNCHANGED Sn_IR => RegisterSteps(sn)
           /\ Sn_IR' = [Sn_IR EXCEPT ![sn] = {}] => RegisterSteps(sn)
           /\ \A q \in Irqs : Raise(sn, q) => RegisterSteps(sn)
           /\ \A q : Sn_IR' = [Sn_IR EXCEPT ![sn] = @ \ {q}] => RegisterSteps(sn)
           /\ \A closes : Fails(sn, closes) => RegisterSteps(sn)
<1>1. Sn_IR[sn] \in SUBSET Irqs
  BY DEF Registers
<1>2. UNCHANGED Sn_IR => RegisterSteps(sn)
  BY DEF RegisterSteps
<1>3. Sn_IR' = [Sn_IR EXCEPT ![sn] = {}] => RegisterSteps(sn)
  BY DEF RegisterSteps
<1>4. ASSUME NEW q \in Irqs, Raise(sn, q)
      PROVE  RegisterSteps(sn)
  <2>1. Sn_IR[sn] \union {q} \in SUBSET Irqs
    BY <1>1
  <2>. QED  BY <1>4, <2>1 DEF Raise, RegisterSteps
<1>5. ASSUME NEW q, Sn_IR' = [Sn_IR EXCEPT ![sn] = @ \ {q}]
      PROVE  RegisterSteps(sn)
  <2>1. Sn_IR[sn] \ {q} \in SUBSET Irqs
    BY <1>1
  <2>. QED  BY <1>5, <2>1 DEF RegisterSteps
<1>6. \A closes : Fails(sn, closes) => RegisterSteps(sn)
  BY <1>2, <1>3 DEF Fails, close
<1>. QED  BY <1>2, <1>3, <1>4, <1>5, <1>6

LEMMA RegisterCalls ==
    ASSUME Registers, CallArg, Calls
    PROVE  Registers'
<1>1. PICK sn \in Socks :
        \/ CloseCall(sn) \/ (\E p \in {"TCP", "UDP"} : socket(sn, p))
        \/ listen(sn) \/ connect(sn) \/ disconnect(sn)
        \/ SendCheck(sn) \/ SendIrq(sn) \/ SendRoom(sn) \/ SendOkWait(sn) \/ recv(sn)
        \/ sendto(sn) \/ recvfrom(sn)
  BY DEF Calls
<1>. DEFINE Fine == RegisterSteps(sn)
<1>2. UNCHANGED <<Sn_PORT, sock_any_port>> =>
        /\ UNCHANGED Sn_IR => Fine
        /\ Sn_IR' = [Sn_IR EXCEPT ![sn] = {}] => Fine
        /\ \A q : Sn_IR' = [Sn_IR EXCEPT ![sn] = @ \ {q}] => Fine
  BY IrqSteps
<1>3. ASSUME NEW closes, Fails(sn, closes)
      PROVE  Fine
  BY <1>3, IrqSteps DEF Fails
<1>. HIDE DEF Fine
<1>4. ASSUME NEW p \in {"TCP", "UDP"}, socket(sn, p)
      PROVE  Registers'
  <2>1. Sn_IR' = [Sn_IR EXCEPT ![sn] = {}] /\ call.fn = "socket"
    BY <1>4 DEF socket, close, At
  <2>2. call.arg \in PortValues /\ AnyPorts \subseteq PortValues /\ (sock_any_port \in AnyPorts => NextAnyPort \in AnyPorts)
    BY <2>1, PortFacts DEF CallArg
  <2>3. \/ Sn_PORT' = [Sn_PORT EXCEPT ![sn] = sock_any_port] /\ sock_any_port' = NextAnyPort
        \/ Sn_PORT' = [Sn_PORT EXCEPT ![sn] = call.arg] /\ UNCHANGED sock_any_port
    BY <1>4 DEF socket
  <2>. QED  BY <2>1, <2>2, <2>3 DEF Registers
<1>5. CloseCall(sn) => Fine
  BY <1>2 DEF CloseCall, close
<1>6. listen(sn) => Fine
  BY <1>2, <1>3 DEF listen, chip, lib
<1>7. connect(sn) => Fine
  BY <1>2, <1>3 DEF connect, chip, lib
<1>8. disconnect(sn) => Fine
  BY <1>2, <1>3 DEF disconnect, chip, lib
<1>9. SendCheck(sn) => Fine
  BY <1>2, <1>3 DEF SendCheck, chip, lib
<1>10. SendIrq(sn) => Fine
  BY <1>2, <1>3 DEF SendIrq, chip, lib
<1>11. SendRoom(sn) => Fine
  BY <1>2, <1>3 DEF SendRoom, chip, lib
<1>12. SendOkWait(sn) => Fine
  BY <1>2, <1>3 DEF SendOkWait, chip, lib
<1>13. recv(sn) => Fine
  BY <1>2, <1>3 DEF recv, chip, lib
<1>14. sendto(sn) => Fine
  BY <1>2 DEF sendto, lib
<1>15. recvfrom(sn) => Fine
  BY <1>2 DEF recvfrom
<1>16. Fine => Registers'
  BY RegistersStep DEF Fine
<1>. QED  BY <1>1, <1>4, <1>5, <1>6, <1>7, <1>8, <1>9, <1>10, <1>11, <1>12, <1>13, <1>14, <1>15, <1>16

LEMMA RegisterNetwork ==
    ASSUME Registers, Network
    PROVE  Registers' /\ UNCHANGED call
<1>1. PICK sn \in Socks :
        \/ Connected(sn) \/ PeerSays(sn) \/ PeerCloses(sn) \/ HandshakeEnds(sn)
        \/ Acknowledged(sn) \/ Transmitted(sn)
        \/ \E c \in Clients, n \in 1 .. MTU : Datagram(sn, c, n)
  BY DEF Network
<1>2. UNCHANGED <<Sn_PORT, sock_any_port, call>>
  BY <1>1 DEF Connected, PeerSays, PeerCloses, HandshakeEnds, Acknowledged, Transmitted, Datagram, lib
<1>3. UNCHANGED Sn_IR \/ \E q \in Irqs : Raise(sn, q)
  BY <1>1 DEF Connected, PeerSays, PeerCloses, HandshakeEnds, Acknowledged, Transmitted, Datagram, Irqs
<1>4. RegisterSteps(sn)
  BY <1>2, <1>3, IrqSteps
<1>. QED  BY <1>2, <1>4, RegistersStep

----------------------------------------------------------------------------
(* Types: TCP, what the memories and the buffer hold.                      *)

Lengths ==
    /\ \A s \in Socks : Len(tx[s]) <= TxMAX /\ Len(rx[s]) <= RxMAX
    /\ Len(buf) <= DATA_BUF_SIZE
    /\ sock_remained_size \in [Socks -> 0 .. MTU]

\* What a step of a call does to them.
LengthSteps(sn) ==
    \/ UNCHANGED <<rx, tx, sock_remained_size, buf>>
    \/ /\ rx' = [rx EXCEPT ![sn] = << >>] /\ tx' = [tx EXCEPT ![sn] = << >>]
       /\ sock_remained_size' = [sock_remained_size EXCEPT ![sn] = 0] /\ UNCHANGED buf
    \/ \E d \in Seq(Item) :
           /\ Len(d) <= Free(sn) /\ tx' = [tx EXCEPT ![sn] = @ \o d]
           /\ UNCHANGED <<rx, sock_remained_size, buf>>
    \/ \E n \in 0 .. Len(rx[sn]) :
           /\ n <= DATA_BUF_SIZE /\ buf' = SubSeq(rx[sn], 1, n)
           /\ rx' = [rx EXCEPT ![sn] = SubSeq(@, n + 1, Len(@))]
           /\ UNCHANGED <<tx, sock_remained_size>>

LEMMA LengthsStep ==
    ASSUME TcpInv, Lengths, NEW sn \in Socks, LengthSteps(sn)
    PROVE  Lengths'
<1>1. /\ tx \in [Socks -> Seq(Item)] /\ rx \in [Socks -> Seq(Item)]
      /\ sock_remained_size \in [Socks -> 0 .. MTU]
      /\ \A s \in Socks : Len(tx[s]) \in Nat /\ Len(rx[s]) \in Nat /\ Len(tx[s]) <= TxMAX /\ Len(rx[s]) <= RxMAX
  BY LenProperties DEF TcpInv, TcpTypes, ChipTypes, Lengths
<1>2. CASE UNCHANGED <<rx, tx, sock_remained_size, buf>>
  BY <1>2 DEF Lengths
<1>3. CASE /\ rx' = [rx EXCEPT ![sn] = << >>] /\ tx' = [tx EXCEPT ![sn] = << >>]
           /\ sock_remained_size' = [sock_remained_size EXCEPT ![sn] = 0] /\ UNCHANGED buf
  <2>1. \A s \in Socks : Len(tx'[s]) <= TxMAX /\ Len(rx'[s]) <= RxMAX
    BY <1>1, <1>3
  <2>2. sock_remained_size' \in [Socks -> 0 .. MTU]
    BY <1>1, <1>3
  <2>. QED  BY <1>3, <2>1, <2>2 DEF Lengths
<1>4. ASSUME NEW d \in Seq(Item), Len(d) <= Free(sn), tx' = [tx EXCEPT ![sn] = @ \o d],
             UNCHANGED <<rx, sock_remained_size, buf>>
      PROVE  Lengths'
  <2>. DEFINE t == tx[sn]
              u == t \o d
  <2>1. Len(u) = Len(t) + Len(d) /\ Len(d) \in Nat /\ Len(t) \in Nat
    BY <1>1, ConcatProperties, LenProperties
  <2>2. Len(d) <= TxMAX - Len(t)
    BY <1>4 DEF Free
  <2>. HIDE DEF u
  <2>3. Len(u) <= TxMAX
    <3>. DEFINE x == Len(t)
                y == Len(d)
                z == Len(u)
    <3>. HIDE DEF x, y, z
    <3>1. z = x + y /\ y \in Nat /\ x \in Nat /\ y <= TxMAX - x
      BY <2>1, <2>2 DEF x, y, z
    <3>2. z <= TxMAX
      BY <3>1
    <3>. QED  BY <3>2 DEF z
  <2>4. ASSUME NEW s \in Socks
        PROVE  Len(tx'[s]) <= TxMAX
    <3>1. tx'[s] = IF s = sn THEN u ELSE tx[s]
      BY <1>1, <1>4 DEF u
    <3>. QED  BY <1>1, <2>3, <3>1
  <2>. QED  BY <1>1, <1>4, <2>4 DEF Lengths
<1>5. ASSUME NEW n \in 0 .. Len(rx[sn]), n <= DATA_BUF_SIZE, buf' = SubSeq(rx[sn], 1, n),
             rx' = [rx EXCEPT ![sn] = SubSeq(@, n + 1, Len(@))], UNCHANGED <<tx, sock_remained_size>>
      PROVE  Lengths'
  <2>. DEFINE r == rx[sn]
              a == SubSeq(r, 1, n)
              b == SubSeq(r, n + 1, Len(r))
  <2>1. r \in Seq(Item) /\ Len(r) \in Nat /\ Len(r) <= RxMAX
    BY <1>1
  <2>2. Len(a) = n /\ Len(b) = Len(r) - n
    BY <2>1, RunSplit
  <2>. HIDE DEF a, b
  <2>3. Len(b) <= RxMAX
    BY <2>1, <2>2
  <2>4. ASSUME NEW s \in Socks
        PROVE  Len(rx'[s]) <= RxMAX
    <3>1. rx'[s] = IF s = sn THEN b ELSE rx[s]
      BY <1>1, <1>5 DEF b
    <3>. QED  BY <1>1, <2>3, <3>1
  <2>5. Len(buf') <= DATA_BUF_SIZE
    BY <1>5, <2>2 DEF a
  <2>. QED  BY <1>1, <1>5, <2>4, <2>5 DEF Lengths
<1>. QED  BY <1>2, <1>3, <1>4, <1>5 DEF LengthSteps

LEMMA LengthCalls ==
    ASSUME TcpInv, Lengths, CallArg, Calls, Idle
    PROVE  Lengths'
<1>1. PICK sn \in Socks :
        \/ CloseCall(sn) \/ (\E p \in {"TCP", "UDP"} : socket(sn, p))
        \/ listen(sn) \/ connect(sn) \/ disconnect(sn)
        \/ SendCheck(sn) \/ SendIrq(sn) \/ SendRoom(sn) \/ SendOkWait(sn) \/ recv(sn)
        \/ sendto(sn) \/ recvfrom(sn)
  BY DEF Calls
<1>2. ~sendto(sn) /\ ~recvfrom(sn)
  BY DEF TcpInv, TcpProgram, CallsAt, sendto, recvfrom, At
<1>. DEFINE Fine == LengthSteps(sn)
<1>3. UNCHANGED <<rx, tx, sock_remained_size, buf>> => Fine
  BY DEF LengthSteps
<1>4. ASSUME NEW sr, close(sn, sr), UNCHANGED buf
      PROVE  Fine
  BY <1>4 DEF close, LengthSteps
<1>5. ASSUME NEW closes, Fails(sn, closes), UNCHANGED buf
      PROVE  Fine
  BY <1>3, <1>4, <1>5 DEF Fails
<1>6. ASSUME NEW d \in Seq(Item), Len(d) <= Free(sn), tx' = [tx EXCEPT ![sn] = @ \o d],
             UNCHANGED <<rx, sock_remained_size, buf>>
      PROVE  Fine
  BY <1>6 DEF LengthSteps
<1>. HIDE DEF Fine
<1>7. buf \in Seq(Item) /\ Len(tx[sn]) \in Nat /\ Len(rx[sn]) \in Nat
  BY LenProperties DEF TcpInv, TcpTypes, ChipTypes
<1>8. Data \in Seq(Item)
  <2>1. PICK m \in 0 .. Len(buf) : Data = SubSeq(buf, 1, m)
    BY <1>7, DataTaken
  <2>. QED  BY <1>7, <2>1, RunSplit
<1>9. CloseCall(sn) => Fine
  BY <1>4 DEF CloseCall, caller
<1>10. (\E p \in {"TCP", "UDP"} : socket(sn, p)) => Fine
  BY <1>4 DEF socket, caller
<1>11. listen(sn) => Fine
  BY <1>3, <1>5 DEF listen, chip, lib, caller
<1>12. connect(sn) => Fine
  BY <1>3, <1>5 DEF connect, chip, lib, caller
<1>13. disconnect(sn) => Fine
  BY <1>3, <1>5 DEF disconnect, chip, lib, caller
<1>14. SendCheck(sn) => Fine
  BY <1>3, <1>5 DEF SendCheck, chip, lib, caller
<1>15. SendIrq(sn) => Fine
  BY <1>3, <1>5 DEF SendIrq, chip, lib, caller
<1>16. SendRoom(sn) => Fine
  BY <1>3, <1>5, <1>6, <1>8 DEF SendRoom, Sends, chip, lib, caller
<1>17. SendOkWait(sn) => Fine
  <2>1. << >> \in Seq(Item) /\ Len(<< >>) = 0 /\ 0 <= Free(sn)
    BY <1>7 DEF Free, Lengths
  <2>2. ASSUME Sends(sn, << >>), UNCHANGED <<rx, sock_remained_size, buf>>
        PROVE  Fine
    <3>1. PICK d \in Seq(Item) : d = << >> /\ Len(d) <= Free(sn)
      BY <2>1
    <3>. QED  BY <1>6, <2>2, <3>1 DEF Sends
  <2>. QED  BY <1>3, <1>5, <2>2 DEF SendOkWait, chip, lib, caller
<1>18. recv(sn) => Fine
  <2>1. ASSUME NEW n, n = (IF call.arg < Len(rx[sn]) THEN call.arg ELSE Len(rx[sn])), call.fn = "recv",
               buf' = SubSeq(rx[sn], 1, n),
               rx' = [rx EXCEPT ![sn] = SubSeq(@, n + 1, Len(@))],
               UNCHANGED <<tx, sock_remained_size>>
        PROVE  Fine
    <3>1. call.arg \in 0 .. DATA_BUF_SIZE
      BY <2>1 DEF CallArg, Reading
    <3>2. n \in 0 .. Len(rx[sn]) /\ n <= DATA_BUF_SIZE
      BY <1>7, <2>1, <3>1
    <3>. QED  BY <2>1, <3>2 DEF Fine, LengthSteps
  <2>. QED  BY <1>3, <1>5, <2>1 DEF recv, At, chip, lib
<1>19. Fine => Lengths'
  BY LengthsStep DEF Fine
<1>. QED  BY <1>1, <1>2, <1>9, <1>10, <1>11, <1>12, <1>13, <1>14, <1>15, <1>16, <1>17, <1>18, <1>19

LEMMA LengthNetwork ==
    ASSUME TcpInv, Lengths, Network
    PROVE  Lengths'
<1>1. PICK sn \in Socks :
        \/ Connected(sn) \/ PeerSays(sn) \/ PeerCloses(sn) \/ HandshakeEnds(sn)
        \/ Acknowledged(sn) \/ Transmitted(sn)
        \/ \E c \in Clients, n \in 1 .. MTU : Datagram(sn, c, n)
  BY DEF Network
<1>2. /\ tx \in [Socks -> Seq(Item)] /\ rx \in [Socks -> Seq(Item)] /\ Sn_SR[sn] # "UDP"
      /\ conn[sn] \in {0, 1} /\ sending[sn] \in Nat
      /\ \A s \in Socks : Len(tx[s]) \in Nat /\ Len(rx[s]) \in Nat /\ Len(tx[s]) <= TxMAX /\ Len(rx[s]) <= RxMAX
  BY LenProperties DEF TcpInv, TcpTypes, ChipTypes, Lengths
<1>3. ~Transmitted(sn) /\ ~\E c \in Clients, n \in 1 .. MTU : Datagram(sn, c, n)
  BY <1>2 DEF Transmitted, Datagram
<1>4. UNCHANGED <<buf, sock_remained_size>>
  BY <1>1 DEF Connected, PeerSays, PeerCloses, HandshakeEnds, Acknowledged, Transmitted, Datagram, lib, caller
<1>5. CASE UNCHANGED <<rx, tx>>
  BY <1>4, <1>5 DEF Lengths
<1>6. CASE PeerSays(sn)
  <2>. DEFINE r == rx[sn]
              m == [who |-> conn[sn], n |-> said'[sn]]
              u == Append(r, m)
  <2>1. r \in Seq(Item) /\ Len(r) < RxMAX /\ Len(r) \in Nat /\ rx' = [rx EXCEPT ![sn] = u] /\ tx' = tx
    BY <1>2, <1>6 DEF PeerSays
  <2>. HIDE DEF m, r
  <2>2. Len(u) = Len(r) + 1
    BY <2>1
  <2>. HIDE DEF u
  <2>3. Len(u) <= RxMAX
    BY <2>1, <2>2
  <2>4. ASSUME NEW s \in Socks
        PROVE  Len(rx'[s]) <= RxMAX
    <3>1. rx'[s] = IF s = sn THEN u ELSE rx[s]
      BY <1>2, <2>1
    <3>. QED  BY <1>2, <2>3, <3>1
  <2>. QED  BY <1>4, <2>1, <2>4 DEF Lengths
<1>7. ASSUME UNCHANGED rx, tx' = [tx EXCEPT ![sn] = SubSeq(@, sending[sn] + 1, Len(@))]
      PROVE  Lengths'
  <2>. DEFINE t == tx[sn]
              k == sending[sn]
              b == SubSeq(t, k + 1, Len(t))
  <2>1. t \in Seq(Item) /\ Len(t) \in Nat /\ Len(t) <= TxMAX /\ k \in Nat /\ k <= Len(t)
    <3>1. StreamOf(sn)
      BY DEF TcpInv, TcpStreams
    <3>2. k <= Len(t)
      BY <3>1 DEF StreamOf, Stream
    <3>. QED  BY <1>2, <3>2
  <2>. HIDE DEF t, k
  <2>2. k \in 0 .. Len(t)
    BY <2>1
  <2>3. Len(b) = Len(t) - k
    BY <2>1, <2>2, RunSplit
  <2>. HIDE DEF b
  <2>4. Len(b) <= TxMAX
    BY <2>1, <2>3
  <2>5. ASSUME NEW s \in Socks
        PROVE  Len(tx'[s]) <= TxMAX
    <3>1. tx'[s] = IF s = sn THEN b ELSE tx[s]
      BY <1>2, <1>7 DEF b, t, k
    <3>. QED  BY <1>2, <2>4, <3>1
  <2>. QED  BY <1>2, <1>4, <1>7, <2>5 DEF Lengths
<1>8. CASE Acknowledged(sn)
  BY <1>5, <1>7, <1>8 DEF Acknowledged
<1>9. Connected(sn) \/ PeerCloses(sn) \/ HandshakeEnds(sn) => UNCHANGED <<rx, tx>>
  BY DEF Connected, PeerCloses, HandshakeEnds
<1>. QED  BY <1>1, <1>3, <1>5, <1>6, <1>8, <1>9

----------------------------------------------------------------------------
(* Types: UDP.                                                             *)

UdpMemory ==
    /\ rx \in [Socks -> Seq(Datagrams)]
    /\ \A s \in Socks : Units(rx[s]) <= RxMAX /\ (Sn_SR[s] = "CLOSED" => rx[s] = << >>)
    /\ Len(buf) <= DATA_BUF_SIZE
    /\ sock_remained_size \in [Socks -> 0 .. MTU]

LEMMA UdpMemorySet ==
    ASSUME UdpInv, UdpMemory, NEW sn \in Socks, NEW r \in Seq(Datagrams), Units(r) <= RxMAX,
           rx' = [rx EXCEPT ![sn] = r], NEW k \in 0 .. MTU,
           sock_remained_size' = [sock_remained_size EXCEPT ![sn] = k],
           \/ UNCHANGED Sn_SR /\ Sn_SR[sn] = "UDP"
           \/ r = << >> /\ \E sr : Sn_SR' = [Sn_SR EXCEPT ![sn] = sr],
           Len(buf') <= DATA_BUF_SIZE
    PROVE  UdpMemory'
<1>1. rx \in [Socks -> Seq(Datagrams)] /\ sock_remained_size \in [Socks -> 0 .. MTU] /\ DOMAIN Sn_SR = Socks
  BY DEF UdpMemory, UdpInv, UdpTypes
<1>2. rx' \in [Socks -> Seq(Datagrams)] /\ sock_remained_size' \in [Socks -> 0 .. MTU]
  BY <1>1
<1>3. ASSUME NEW s \in Socks
      PROVE  Units(rx'[s]) <= RxMAX /\ (Sn_SR'[s] = "CLOSED" => rx'[s] = << >>)
  <2>1. Units(rx[s]) <= RxMAX /\ (Sn_SR[s] = "CLOSED" => rx[s] = << >>)
    BY DEF UdpMemory
  <2>2. CASE s = sn
    <3>1. rx'[s] = r
      BY <1>1, <2>2
    <3>. QED  BY <2>2, <3>1
  <2>3. CASE s # sn
    <3>1. rx'[s] = rx[s] /\ Sn_SR'[s] = Sn_SR[s]
      BY <1>1, <2>3
    <3>. QED  BY <2>1, <3>1
  <2>. QED  BY <2>2, <2>3
<1>. QED  BY <1>2, <1>3 DEF UdpMemory

LEMMA UdpMemoryRead ==
    ASSUME UdpInv, UdpMemory, CallArg, NEW sn \in Socks, recvfrom(sn)
    PROVE  UdpMemory'
<1>. DEFINE r == rx[sn]
            a == call.arg
            q == Remaining(sn)
            n == IF a < q THEN a ELSE q
<1>1. a \in Nat /\ r \in Seq(Datagrams) /\ r # << >> /\ Sn_SR[sn] = "UDP" /\ UNCHANGED Sn_SR
  <2>1. call.fn = "recvfrom" /\ r # << >> /\ UNCHANGED Sn_SR
    BY DEF recvfrom, At
  <2>2. Sn_SR[sn] \in {"CLOSED", "UDP"}
    BY DEF UdpInv, UdpTypes
  <2>. QED  BY <2>1, <2>2 DEF CallArg, Reading, UdpMemory
<1>2. q \in 0 .. MTU
  <2>1. Head(r) \in Datagrams
    BY <1>1, EmptySeq
  <2>2. Head(r).n \in 0 .. MTU
    BY <2>1 DEF Datagrams
  <2>3. sock_remained_size[sn] \in 0 .. MTU
    BY DEF UdpMemory
  <2>. QED  BY <2>2, <2>3 DEF Remaining
<1>3. Tail(r) \in Seq(Datagrams) /\ Units(Tail(r)) <= Units(r) /\ Units(r) <= RxMAX
        /\ Units(Tail(r)) \in Nat /\ Units(r) \in Nat
  <2>1. Tail(r) \in Seq(Datagrams) /\ Units(Tail(r)) <= Units(r)
    BY <1>1, UnitsTail
  <2>. QED  BY <1>1, <2>1, UnitsFacts DEF UdpMemory
<1>4. /\ sock_remained_size' = [sock_remained_size EXCEPT ![sn] = q - n]
      /\ rx' = [rx EXCEPT ![sn] = IF n < q THEN r ELSE Tail(r)]
      /\ buf' = << [who |-> Head(r).who, n |-> n] >>
  BY DEF recvfrom, TakeRemaining
<1>5. Len(buf') <= DATA_BUF_SIZE
  <2>1. Len(buf') = 1
    BY <1>4
  <2>. QED  BY <2>1
<1>. HIDE DEF q, a, r
<1>6. q - n \in 0 .. MTU
  BY <1>1, <1>2
<1>7. PICK k \in 0 .. MTU : k = q - n
  BY <1>6
<1>. HIDE DEF n
<1>8. PICK t \in Seq(Datagrams) : t = (IF n < q THEN r ELSE Tail(r)) /\ Units(t) <= RxMAX
  <2>1. Units(Tail(r)) <= RxMAX
    <3>. DEFINE x == Units(r)
                y == Units(Tail(r))
    <3>1. x \in Nat /\ y \in Nat /\ y <= x /\ x <= RxMAX
      BY <1>3
    <3>. HIDE DEF x, y
    <3>2. y <= RxMAX
      BY <3>1
    <3>. QED  BY <3>2 DEF y
  <2>2. CASE n < q
    BY <1>1, <1>3, <2>2
  <2>3. CASE ~(n < q)
    BY <1>3, <2>1, <2>3
  <2>. QED  BY <2>2, <2>3
<1>9. sock_remained_size' = [sock_remained_size EXCEPT ![sn] = k] /\ rx' = [rx EXCEPT ![sn] = t]
  BY <1>4, <1>7, <1>8
<1>. QED  BY <1>1, <1>5, <1>7, <1>8, <1>9, UdpMemorySet

LEMMA UdpMemoryCalls ==
    ASSUME UdpInv, UdpMemory, CallArg, Calls
    PROVE  UdpMemory'
<1>1. PICK sn \in Socks :
        \/ CloseCall(sn) \/ (\E p \in {"TCP", "UDP"} : socket(sn, p))
        \/ listen(sn) \/ connect(sn) \/ disconnect(sn)
        \/ SendCheck(sn) \/ SendIrq(sn) \/ SendRoom(sn) \/ SendOkWait(sn) \/ recv(sn)
        \/ sendto(sn) \/ recvfrom(sn)
  BY DEF Calls
<1>2. call.fn \in {"none", "recvfrom", "sendto", "socket"}
  BY DEF UdpInv, UdpProgram, UdpCallsAt
<1>3. ~(CloseCall(sn) \/ listen(sn) \/ connect(sn) \/ disconnect(sn) \/ SendCheck(sn)
        \/ SendIrq(sn) \/ SendRoom(sn) \/ SendOkWait(sn) \/ recv(sn))
  BY <1>2 DEF CloseCall, listen, connect, disconnect, SendCheck, SendIrq, SendRoom, SendOkWait,
              recv, At
<1>4. ASSUME NEW p, socket(sn, p)
      PROVE  UdpMemory'
  <2>1. /\ \E sr : Sn_SR' = [Sn_SR EXCEPT ![sn] = sr]
        /\ rx' = [rx EXCEPT ![sn] = << >>] /\ buf' = buf
        /\ sock_remained_size' = [sock_remained_size EXCEPT ![sn] = 0]
    BY <1>4 DEF socket, close, caller
  <2>2. PICK r \in Seq(Datagrams) : r = << >> /\ Units(r) <= RxMAX
    <3>1. << >> \in Seq(Datagrams)
      BY EmptySeq
    <3>2. PICK r \in Seq(Datagrams) : r = << >>
      BY <3>1
    <3>3. Units(r) = 0
      BY <3>2, UnitsFacts
    <3>4. Units(r) <= RxMAX
      BY <3>3
    <3>. QED  BY <3>2, <3>4
  <2>3. PICK k \in 0 .. MTU : k = 0
    OBVIOUS
  <2>4. Len(buf') <= DATA_BUF_SIZE
    BY <2>1 DEF UdpMemory
  <2>5. rx' = [rx EXCEPT ![sn] = r] /\ sock_remained_size' = [sock_remained_size EXCEPT ![sn] = k]
    BY <2>1, <2>2, <2>3
  <2>. QED  BY <2>1, <2>2, <2>3, <2>4, <2>5, UdpMemorySet
<1>5. ASSUME sendto(sn)
      PROVE  UdpMemory'
  BY <1>5 DEF sendto, UdpMemory, lib, caller
<1>. QED  BY <1>1, <1>3, <1>4, <1>5, UdpMemoryRead

LEMMA UdpMemoryNetwork ==
    ASSUME UdpInv, UdpMemory, Network
    PROVE  UdpMemory'
<1>1. PICK sn \in Socks :
        \/ Connected(sn) \/ PeerSays(sn) \/ PeerCloses(sn) \/ HandshakeEnds(sn)
        \/ Acknowledged(sn) \/ Transmitted(sn)
        \/ \E c \in Clients, n \in 1 .. MTU : Datagram(sn, c, n)
  BY DEF Network
<1>2. Sn_SR[sn] \in {"CLOSED", "UDP"}
  BY DEF UdpInv, UdpTypes
<1>3. ~(Connected(sn) \/ PeerSays(sn) \/ PeerCloses(sn) \/ HandshakeEnds(sn) \/ Acknowledged(sn))
  BY <1>2 DEF Connected, PeerSays, PeerCloses, HandshakeEnds, Acknowledged, Live
<1>4. CASE Transmitted(sn)
  BY <1>4 DEF Transmitted, UdpMemory, lib, caller
<1>5. ASSUME NEW c \in Clients, NEW n \in 1 .. MTU, Datagram(sn, c, n)
      PROVE  UdpMemory'
  <2>. DEFINE m == [who |-> c, n |-> n]
              r == rx[sn]
              t == Append(r, m)
  <2>1. /\ Sn_SR[sn] = "UDP" /\ UNCHANGED Sn_SR /\ Units(r) + n + 1 <= RxMAX
        /\ rx' = [rx EXCEPT ![sn] = t] /\ UNCHANGED <<buf, sock_remained_size>>
    BY <1>5 DEF Datagram, getSn_RX_RSR, lib, caller
  <2>2. m \in Datagrams /\ m.n = n
    BY DEF Datagrams
  <2>. HIDE DEF m
  <2>3. r \in Seq(Datagrams)
    BY DEF UdpMemory
  <2>. HIDE DEF r
  <2>4. t \in Seq(Datagrams) /\ Units(t) = Units(r) + m.n + 1
    BY <2>2, <2>3, UnitsAppend, AppendProperties
  <2>5. Units(t) <= RxMAX
    BY <2>1, <2>2, <2>4
  <2>. HIDE DEF t
  <2>6. PICK k \in 0 .. MTU : k = sock_remained_size[sn]
    BY DEF UdpMemory
  <2>7. sock_remained_size' = [sock_remained_size EXCEPT ![sn] = k]
    BY <2>1, <2>6 DEF UdpMemory
  <2>8. Len(buf') <= DATA_BUF_SIZE
    BY <2>1 DEF UdpMemory
  <2>. QED  BY <2>1, <2>4, <2>5, <2>6, <2>7, <2>8, UdpMemorySet
<1>. QED  BY <1>1, <1>3, <1>4, <1>5

----------------------------------------------------------------------------
(* Types: the programs.                                                    *)

\* A call of the program: fn from step st, for its socket, with n.
CallWith(fn, st, n) ==
    /\ call' = [fn |-> fn, st |-> st, sn |-> cur, arg |-> n]
    /\ Reading(fn) => /\ cur \in Socks /\ getSn_RX_RSR(cur) > 0
                      /\ n = Smaller(getSn_RX_RSR(cur), DATA_BUF_SIZE)
    /\ fn = "socket" => n = NewPort

\* What a step of a program does.
ProgramSteps ==
    /\ UNCHANGED <<Sn_SR, Sn_PORT, rx, tx, lib, role>>
    /\ UNCHANGED Sn_IR \/ (cur \in Socks /\ ClearCon)
    /\ buf' = buf \/ buf' = << >> \/ (ret >= 0 /\ ~Udp /\ buf' = Unsent)
    /\ cur' \in {cur, NextSocket} /\ any_port' \in {any_port, NextPort}
    /\ call' = call \/ call' = None \/ \E fn, st, n : CallWith(fn, st, n)

LEMMA PlainCall ==
    ASSUME NEW fn, NEW n, NEW place, Begin(Call(fn, cur, n), place), ~Reading(fn), fn # "socket"
    PROVE  \E f, st, m : CallWith(f, st, m)
BY DEF Begin, Call, CallWith

LEMMA ReadingCall ==
    ASSUME NEW fn, NEW place, cur \in Socks, Read(fn, place), fn # "socket"
    PROVE  \E f, st, m : CallWith(f, st, m)
BY DEF Read, Begin, Call, CallWith

LEMMA ProgramStep == ASSUME Program PROVE ProgramSteps
<1>. DEFINE Calling1 == \E fn, st, n : CallWith(fn, st, n)
<1>1. ASSUME NEW fn, NEW n, NEW place, Begin(Call(fn, cur, n), place), ~Reading(fn), fn # "socket"
      PROVE  Calling1
  BY <1>1, PlainCall
<1>2. ASSUME NEW fn, NEW place, cur \in Socks, Read(fn, place), fn # "socket"
      PROVE  Calling1
  BY <1>2, ReadingCall
<1>. HIDE DEF Calling1
<1>3. \A place : Finishes(place) => buf' = << >>
  BY DEF Finishes
<1>4. Done => buf' = << >> /\ cur' \in {cur, NextSocket}
  BY <1>3 DEF Done
<1>5. \A r : Error(r) => buf' = << >> /\ cur' = cur
  BY <1>3 DEF Error
<1>6. ~Reading("disconnect") /\ ~Reading("listen") /\ ~Reading("connect") /\ ~Reading("close")
        /\ ~Reading(Sending) /\ Sending # "socket"
  BY DEF Reading, Sending
<1>7. ASSUME Established
      PROVE  ProgramSteps
  BY <1>2, <1>4, <1>7 DEF Established, Polls, ProgramSteps, Calling1, lib
<1>8. ASSUME CloseWait
      PROVE  ProgramSteps
  BY <1>1, <1>6, <1>8 DEF CloseWait, ProgramSteps, Calling1, chip, caller, Begin
<1>9. ASSUME CloseWait_W6x00
      PROVE  ProgramSteps
  BY <1>1, <1>2, <1>6, <1>9 DEF CloseWait_W6x00, Polls, ProgramSteps, Calling1, chip, caller
<1>10. ASSUME Initialised
      PROVE  ProgramSteps
  <2>1. \E fn \in {"connect", "listen"} : Begin(Call(fn, cur, 0), "last")
    BY <1>10 DEF Initialised
  <2>2. Calling1
    BY <1>1, <1>6, <2>1
  <2>. QED  BY <1>10, <2>2 DEF Initialised, ProgramSteps, Calling1, chip, caller
<1>11. ASSUME Reopen
      PROVE  ProgramSteps
  <2>1. call' = [Call("socket", cur, NewPort) EXCEPT !.st = IF Udp THEN "UDP" ELSE "TCP"]
    BY <1>11 DEF Reopen, Begin
  <2>2. PICK st : st = IF Udp THEN "UDP" ELSE "TCP"
    OBVIOUS
  <2>3. CallWith("socket", st, NewPort)
    BY <2>1, <2>2 DEF CallWith, Call, Reading
  <2>4. Calling1
    BY <2>3 DEF Calling1
  <2>. QED  BY <1>11, <2>4 DEF Reopen, ProgramSteps, Calling1, chip, caller
<1>12. ASSUME Waits
      PROVE  ProgramSteps
  BY <1>4, <1>12 DEF Waits, ProgramSteps, chip
<1>13. ASSUME UdpRead
      PROVE  ProgramSteps
  BY <1>2, <1>13 DEF UdpRead, Polls, ProgramSteps, Calling1, chip
<1>14. ASSUME Received
      PROVE  ProgramSteps
  <2>1. CASE (Error(ret) \/ Done) /\ UNCHANGED call
    BY <1>4, <1>5, <1>14, <2>1 DEF Received, ProgramSteps, chip
  <2>2. CASE Begin(Call(Sending, cur, 0), EchoAt) /\ UNCHANGED <<cur, ret, buf>>
    <3>1. Calling1
      BY <1>1, <1>6, <2>2
    <3>. QED  BY <1>14, <2>2, <3>1 DEF Received, ProgramSteps, chip, Calling1
  <2>. QED  BY <1>14, <2>1, <2>2 DEF Received
<1>15. ASSUME Echo
      PROVE  ProgramSteps
  <2>. DEFINE Rest0 == /\ UNCHANGED <<Sn_SR, Sn_PORT, rx, tx, lib, role, Sn_IR>>
                       /\ any_port' = any_port
  <2>1. Rest0
    BY <1>15 DEF Echo, chip
  <2>2. CASE (Error(ret) \/ Done) /\ UNCHANGED call
    BY <1>4, <1>5, <2>1, <2>2 DEF ProgramSteps
  <2>3. CASE Begin(Call("close", cur, 0), "failed") /\ UNCHANGED <<cur, ret, buf>>
    BY <1>1, <1>6, <2>1, <2>3 DEF ProgramSteps, Calling1
  <2>4. CASE ret >= 0 /\ Unsent # << >> /\ buf' = Unsent /\ call' = Call(Sending, cur, 0) /\ UNCHANGED cur
    <3>1. ~Udp
      BY <2>4 DEF Unsent
    <3>2. CallWith(Sending, "begin", 0)
      BY <1>6, <2>4 DEF CallWith, Call
    <3>3. Calling1
      BY <3>2 DEF Calling1
    <3>. QED  BY <2>1, <2>4, <3>1, <3>3 DEF ProgramSteps, Calling1
  <2>5. CASE Begin(Call("disconnect", cur, 0), "last") /\ UNCHANGED <<cur, ret, buf>>
    BY <1>1, <1>6, <2>1, <2>5 DEF ProgramSteps, Calling1
  <2>. QED  BY <1>15, <2>2, <2>3, <2>4, <2>5 DEF Echo
<1>16. ASSUME Returned
      PROVE  ProgramSteps
  <2>1. CASE at = "last" /\ ret = SOCK_OK
    <3>1. Done /\ UNCHANGED <<chip, lib, call, role, any_port>>
      BY <1>16, <2>1 DEF Returned
    <3>. QED  BY <1>4, <3>1 DEF ProgramSteps, chip
  <2>2. CASE ~(at = "last" /\ ret = SOCK_OK)
    <3>1. Error(SOCK_BUSY) /\ UNCHANGED <<chip, lib, call, role, any_port>>
      BY <1>16, <2>2 DEF Returned
    <3>. QED  BY <1>5, <3>1 DEF ProgramSteps, chip
  <2>. QED  BY <2>1, <2>2
<1>17. \/ Established \/ CloseWait \/ CloseWait_W6x00 \/ Initialised \/ Reopen \/ Waits \/ UdpRead
       \/ Received \/ Echo \/ Returned
  BY DEF Program, Tcp_W5500, Tcp_W6x00, UdpCall, loopback_tcps, loopback_tcpc,
         loopback_tcps_W6x00, loopback_tcpc_W6x00, tcp_server_multi_socket,
         loopback_udps, loopback_udpc, multicast_loopback, multicast_recv
<1>. QED  BY <1>7, <1>8, <1>9, <1>10, <1>11, <1>12, <1>13, <1>14, <1>15, <1>16, <1>17

\* The size register is a number.
LEMMA SizeOf ==
    ASSUME NEW s \in Socks, \/ ~Udp /\ TcpInv
                            \/ UdpInv /\ UdpMemory
    PROVE  getSn_RX_RSR(s) \in Nat
<1>1. CASE ~Udp /\ TcpInv
  <2>1. Sn_SR[s] # "UDP" /\ rx[s] \in Seq(Item)
    BY <1>1 DEF TcpInv, TcpTypes, ChipTypes
  <2>. QED  BY <2>1, LenProperties DEF getSn_RX_RSR
<1>2. CASE UdpInv /\ UdpMemory
  <2>1. rx[s] \in Seq(Datagrams)
    BY <1>2 DEF UdpMemory
  <2>2. Units(rx[s]) \in Nat /\ Len(rx[s]) \in Nat
    BY <2>1, UnitsFacts, LenProperties
  <2>. QED  BY <2>2 DEF getSn_RX_RSR
<1>. QED  BY <1>1, <1>2

LEMMA ProgramCallArg ==
    ASSUME ProgramSteps, CallArg, ProgramTypes, \A s \in Socks : getSn_RX_RSR(s) \in Nat
    PROVE  CallArg'
<1>1. CASE call' = call
  BY <1>1 DEF CallArg
<1>2. CASE call' = None
  BY <1>2 DEF CallArg, None, Reading
<1>3. ASSUME NEW fn, NEW st, NEW n, CallWith(fn, st, n)
      PROVE  CallArg'
  <2>1. call'.fn = fn /\ call'.arg = n
    BY <1>3 DEF CallWith
  <2>2. ASSUME Reading(fn)
        PROVE  n \in 0 .. DATA_BUF_SIZE
    <3>1. n = Smaller(getSn_RX_RSR(cur), DATA_BUF_SIZE) /\ getSn_RX_RSR(cur) \in Nat
      BY <1>3, <2>2 DEF CallWith
    <3>. QED  BY <3>1 DEF Smaller
  <2>3. ASSUME fn = "socket"
        PROVE  n \in PortValues
    <3>1. n = NewPort
      BY <1>3, <2>3 DEF CallWith
    <3>. QED  BY <3>1, PortFacts DEF NewPort, ProgramTypes
  <2>. QED  BY <2>1, <2>2, <2>3 DEF CallArg, Reading
<1>. QED  BY <1>1, <1>2, <1>3 DEF ProgramSteps

\* Whatever the program calls and the network does: registers and ports are of
\* their size, no memory and no buffer is filled beyond it.
EchoTypes ==
    /\ Registers /\ CallArg /\ ProgramTypes
    /\ Udp => UdpMemory
    /\ ~Udp => Lengths

LEMMA InitTypes == EchoInit => EchoTypes
<1>. SUFFICES ASSUME EchoInit PROVE EchoTypes
  OBVIOUS
<1>. USE DEF EchoInit, SockInit
<1>1. Registers
  <2>1. 0 \in PortValues /\ SOCK_ANY_PORT_NUM \in AnyPorts /\ {} \in SUBSET Irqs
    BY PortFacts
  <2>. QED  BY <2>1 DEF Registers
<1>2. CallArg /\ ProgramTypes
  BY PortFacts DEF CallArg, None, Reading, ProgramTypes
<1>3. << >> \in Seq(Datagrams) /\ Len(<< >>) = 0
  BY EmptySeq
<1>4. UdpMemory
  <2>1. PICK e \in Seq(Datagrams) : e = << >>
    BY <1>3
  <2>2. Units(e) = 0
    BY <2>1, UnitsFacts
  <2>3. rx = [s \in Socks |-> e] /\ buf = e /\ sock_remained_size = [s \in Socks |-> 0]
    BY <2>1
  <2>4. Len(e) = 0
    BY <1>3, <2>1
  <2>5. \A s \in Socks : rx[s] = e
    BY <2>3
  <2>. QED  BY <2>1, <2>2, <2>3, <2>4, <2>5 DEF UdpMemory
<1>5. Lengths
  BY <1>3 DEF Lengths
<1>. QED  BY <1>1, <1>2, <1>4, <1>5 DEF EchoTypes

LEMMA NextTypes ==
    ASSUME EchoInv, EchoTypes, [EchoNext]_echoVars
    PROVE  EchoTypes'
<1>. USE DEF EchoTypes
<1>1. CASE Calls /\ Idle
  <2>1. call = [fn |-> call.fn, st |-> call.st, sn |-> call.sn, arg |-> call.arg]
    BY DEF EchoInv, TcpInv, TcpProgram, UdpInv, UdpProgram
  <2>2. CallArg' /\ Registers'
    BY <1>1, <2>1, CallSteps, CallArgKept, RegisterCalls
  <2>3. ProgramTypes' /\ Udp' = Udp
    BY <1>1 DEF Idle, ProgramTypes, Udp
  <2>4. Udp => UdpMemory'
    BY <1>1, UdpMemoryCalls DEF EchoInv
  <2>5. ~Udp => Lengths'
    BY <1>1, LengthCalls DEF EchoInv
  <2>. QED  BY <2>2, <2>3, <2>4, <2>5
<1>2. CASE Network /\ Idle
  <2>1. Registers' /\ CallArg'
    BY <1>2, RegisterNetwork DEF CallArg
  <2>2. ProgramTypes' /\ Udp' = Udp
    BY <1>2 DEF Idle, ProgramTypes, Udp
  <2>3. Udp => UdpMemory'
    BY <1>2, UdpMemoryNetwork DEF EchoInv
  <2>4. ~Udp => Lengths'
    BY <1>2, LengthNetwork DEF EchoInv
  <2>. QED  BY <2>1, <2>2, <2>3, <2>4
<1>3. CASE Program
  <2>1. ProgramSteps
    BY <1>3, ProgramStep
  <2>2. \A s \in Socks : getSn_RX_RSR(s) \in Nat
    BY SizeOf DEF EchoInv
  <2>3. CallArg'
    BY <2>1, <2>2, ProgramCallArg
  <2>4. Registers'
    <3>1. UNCHANGED <<Sn_PORT, sock_any_port>>
      BY <2>1 DEF ProgramSteps, lib
    <3>2. CASE UNCHANGED Sn_IR
      BY <3>1, <3>2 DEF Registers
    <3>3. CASE cur \in Socks /\ ClearCon
      <4>1. RegisterSteps(cur)
        BY <3>1, <3>3, IrqSteps DEF ClearCon
      <4>. QED  BY <3>3, <4>1, RegistersStep
    <3>. QED  BY <2>1, <3>2, <3>3 DEF ProgramSteps
  <2>5. ProgramTypes' /\ Udp' = Udp
    <3>1. cur' \in {cur, NextSocket} /\ any_port' \in {any_port, NextPort} /\ role' = role
      BY <2>1 DEF ProgramSteps
    <3>2. NextPort \in PortValues
      BY PortFacts DEF ProgramTypes
    <3>. QED  BY <3>1, <3>2 DEF NextSocket, ProgramTypes, Udp
  <2>6. UNCHANGED <<Sn_SR, rx, tx, sock_remained_size>>
    BY <2>1 DEF ProgramSteps, lib
  <2>7. buf' = buf \/ buf' = << >> \/ (ret >= 0 /\ ~Udp /\ buf' = Unsent)
    BY <2>1 DEF ProgramSteps
  <2>8. Len(<< >>) <= DATA_BUF_SIZE
    BY EmptySeq
  <2>9. ASSUME Udp
        PROVE  UdpMemory'
    <3>1. Len(buf') <= DATA_BUF_SIZE
      BY <2>7, <2>8, <2>9 DEF UdpMemory
    <3>. QED  BY <2>6, <2>9, <3>1 DEF UdpMemory
  <2>10. ASSUME ~Udp
         PROVE  Lengths'
    <3>1. TcpInv /\ Lengths
      BY <2>10 DEF EchoInv
    <3>2. ASSUME ret >= 0, buf' = Unsent
          PROVE  Len(buf') <= DATA_BUF_SIZE
      <4>. DEFINE n == Len(buf)
                  u == SubSeq(buf, ret + 1, n)
      <4>1. buf \in Seq(Item) /\ ret \in Int /\ n \in Nat /\ n <= DATA_BUF_SIZE
        BY <3>1, LenProperties DEF TcpInv, TcpTypes, Lengths
      <4>2. buf' = u
        BY <2>10, <3>2 DEF Unsent
      <4>3. Len(u) <= n
        <5>1. CASE ret <= n
          <6>1. ret \in 0 .. n
            BY <3>2, <4>1, <5>1
          <6>2. Len(u) = n - ret
            BY <4>1, <6>1, RunSplit
          <6>. QED  BY <4>1, <6>1, <6>2
        <5>2. CASE ~(ret <= n)
          <6>1. u = << >>
            BY <4>1, <5>2, SubSeqEmpty
          <6>2. Len(u) = 0
            <7>1. Len(<< >>) = 0
              OBVIOUS
            <7>. HIDE DEF u
            <7>. QED  BY <6>1, <7>1
          <6>. HIDE DEF u, n
          <6>. QED  BY <4>1, <6>2
        <5>. QED  BY <5>1, <5>2
      <4>. HIDE DEF u
      <4>4. Len(u) \in Int
        <5>1. CASE ret <= n
          <6>1. ret \in 0 .. n
            BY <3>2, <4>1, <5>1
          <6>2. u \in Seq(Item)
            BY <4>1, <6>1, RunSplit DEF u
          <6>. QED  BY <6>2, LenProperties
        <5>2. CASE ~(ret <= n)
          <6>1. u = << >>
            BY <4>1, <5>2, SubSeqEmpty DEF u
          <6>. QED  BY <6>1, EmptySeq
        <5>. QED  BY <5>1, <5>2
      <4>. QED  BY <4>1, <4>2, <4>3, <4>4
    <3>3. Len(buf') <= DATA_BUF_SIZE
      BY <2>7, <2>8, <3>1, <3>2 DEF Lengths
    <3>. QED  BY <2>6, <3>1, <3>3 DEF Lengths
  <2>. QED  BY <2>3, <2>4, <2>5, <2>9, <2>10
<1>4. CASE UNCHANGED echoVars
  <2>1. UNCHANGED <<Sn_SR, Sn_IR, Sn_PORT, rx, tx, sock_any_port, sock_remained_size, call, buf,
                    role, cur, any_port>>
    BY <1>4 DEF echoVars, sockVars, chip, lib, caller
  <2>2. Registers' /\ CallArg' /\ ProgramTypes' /\ Udp' = Udp
    BY <2>1 DEF Registers, CallArg, ProgramTypes, Udp
  <2>3. (Udp => UdpMemory') /\ (~Udp => Lengths')
    BY <2>1 DEF UdpMemory, Lengths
  <2>. QED  BY <2>2, <2>3
<1>. QED  BY <1>1, <1>2, <1>3, <1>4 DEF EchoNext

LEMMA EchoTyped ==
    ASSUME EchoInv, EchoTypes
    PROVE  EchoTypeOK
<1>1. /\ role \in Roles /\ cur \in Socks \union {c + 1 : c \in Socks}
      /\ Sn_IR \in [Socks -> SUBSET {"CON", "DISCON", "TIMEOUT", "SENDOK"}]
      /\ sock_any_port \in SOCK_ANY_PORT_NUM .. SOCK_ANY_PORT_END - 1
      /\ any_port \in 0 .. PortMax /\ Sn_PORT \in [Socks -> 0 .. PortMax]
  BY DEF EchoTypes, ProgramTypes, Registers, Irqs, PortValues, AnyPorts
<1>2. ASSUME Udp
      PROVE  EchoTypeOK
  <2>1. UdpInv /\ UdpMemory
    BY <1>2 DEF EchoInv, EchoTypes
  <2>2. Sn_SR \in [Socks -> Statuses]
    BY <2>1 DEF UdpInv, UdpTypes, Statuses
  <2>3. at \in {"poll", "received", "echo", "last", "halt"}
    BY <2>1 DEF UdpInv, UdpProgram
  <2>4. ASSUME NEW s \in Socks
        PROVE  Len(tx[s]) <= TxMAX /\ getSn_RX_RSR(s) <= RxMAX
    <3>1. tx[s] = << >> \/ \E m : tx[s] = << m >>
      BY <2>1 DEF UdpInv, UdpSocket
    <3>2. Len(<< >>) = 0
      OBVIOUS
    <3>3. Len(tx[s]) <= TxMAX
      <4>1. Len(tx[s]) = 0 \/ Len(tx[s]) = 1
        <5>1. CASE tx[s] = << >>
          BY <5>1
        <5>2. ASSUME NEW m, tx[s] = << m >>
              PROVE  Len(tx[s]) = 1
          BY <5>2
        <5>. QED  BY <3>1, <5>1, <5>2
      <4>. DEFINE k == Len(tx[s])
      <4>. HIDE DEF k
      <4>2. k = 0 \/ k = 1
        BY <4>1 DEF k
      <4>3. k <= TxMAX
        BY <4>2
      <4>. QED  BY <4>3 DEF k
    <3>4. Sn_SR[s] = "UDP" \/ rx[s] = << >>
      BY <2>1 DEF UdpInv, UdpTypes, UdpMemory
    <3>5. Units(rx[s]) <= RxMAX
      BY <2>1 DEF UdpMemory
    <3>6. getSn_RX_RSR(s) <= RxMAX
      BY <3>2, <3>4, <3>5 DEF getSn_RX_RSR
    <3>. QED  BY <3>3, <3>6
  <2>. QED  BY <1>1, <2>1, <2>2, <2>3, <2>4 DEF EchoTypeOK, UdpMemory
<1>3. ASSUME ~Udp
      PROVE  EchoTypeOK
  <2>1. TcpInv /\ Lengths
    BY <1>3 DEF EchoInv, EchoTypes
  <2>2. Sn_SR \in [Socks -> Statuses] /\ \A s \in Socks : Sn_SR[s] # "UDP"
    BY <2>1 DEF TcpInv, TcpTypes, ChipTypes
  <2>3. at \in {"poll", "received", "received in CLOSE_WAIT", "echo", "echo in CLOSE_WAIT",
                "last", "failed"}
    BY <2>1 DEF TcpInv, TcpProgram, Holds
  <2>. QED  BY <1>1, <2>1, <2>2, <2>3 DEF EchoTypeOK, Lengths, getSn_RX_RSR
<1>. QED  BY <1>2, <1>3

\* For any sockets, sizes and programs: what is in a socket's memory or in a
\* buffer fits, ports are of 16 bits, registers have the values they can have.
THEOREM EchoTypeOKHolds == EchoInit /\ [][EchoNext]_echoVars => []EchoTypeOK
<1>1. EchoInit => EchoInv
  BY InitTcp, InitUdp DEF EchoInv
<1>2. EchoInv /\ [EchoNext]_echoVars => EchoInv'
  BY TcpInvNext, UdpInvNext DEF EchoInv
<1>. QED  BY <1>1, <1>2, InitTypes, NextTypes, EchoTyped, PTL
=============================================================================
