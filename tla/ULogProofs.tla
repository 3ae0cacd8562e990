----------------------------- MODULE ULogProofs -----------------------------
(***************************************************************************)
(* The data of ULog for every stream of messages, chunk length, buffer     *)
(* size and sequence number width.  What is in the buffer is a piece of    *)
(* the stream that begins with a message, what is in _buffer_partial is    *)
(* the rest of the message that was written in part, and both lie behind   *)
(* what was written and before the next chunk.                             *)
(***************************************************************************)
EXTENDS ULog, WellFoundedInduction, TLAPS

-----------------------------------------------------------------------------
\* What the sequence operators return.

LEMMA LenIsNat ==
    ASSUME NEW S, NEW q \in Seq(S)
    PROVE  Len(q) \in Nat /\ q \in [1..Len(q) -> S]
  OBVIOUS

LEMMA ElementTyped ==
    ASSUME NEW S, NEW q \in Seq(S), NEW i \in 1..Len(q)
    PROVE  q[i] \in S
  OBVIOUS

LEMMA Concat ==
    ASSUME NEW S, NEW q \in Seq(S), NEW r \in Seq(S)
    PROVE  /\ q \o r \in Seq(S)
           /\ Len(q \o r) = Len(q) + Len(r)
           /\ \A i \in 1..(Len(q) + Len(r)) :
                 (q \o r)[i] = IF i <= Len(q) THEN q[i] ELSE r[i - Len(q)]
  OBVIOUS

LEMMA ConcatEmpty ==
    ASSUME NEW S, NEW q \in Seq(S)
    PROVE  q \o <<>> = q /\ <<>> \o q = q
  OBVIOUS

LEMMA ConcatTwice ==
    ASSUME NEW S, NEW q \in Seq(S), NEW r \in Seq(S), NEW s \in Seq(S)
    PROVE  (q \o r) \o s = q \o (r \o s)
  OBVIOUS

LEMMA NoElements ==
    ASSUME NEW S
    PROVE  <<>> \in Seq(S) /\ \A q \in Seq(S) : (q = <<>>) <=> (Len(q) = 0)
  OBVIOUS

LEMMA PartOfSeq ==
    ASSUME NEW S, NEW q \in Seq(S), NEW m \in 1..(Len(q) + 1), NEW n \in (m - 1)..Len(q)
    PROVE  /\ SubSeq(q, m, n) \in Seq(S)
           /\ Len(SubSeq(q, m, n)) = n - m + 1
           /\ \A i \in 1..(n - m + 1) : SubSeq(q, m, n)[i] = q[m + i - 1]
  OBVIOUS

LEMMA PartsJoin ==
    ASSUME NEW S, NEW q \in Seq(S), NEW i \in 1..(Len(q) + 1), NEW j \in (i - 1)..Len(q),
           NEW k \in j..Len(q)
    PROVE  SubSeq(q, i, j) \o SubSeq(q, j + 1, k) = SubSeq(q, i, k)
  OBVIOUS

-----------------------------------------------------------------------------
\* The stream: the header and the messages, in order.

Byte == (0..Len(MsgSizes)) \X Nat

LEMMA Least ==
    ASSUME NEW T \in SUBSET Nat, T # {}
    PROVE  \E x \in T : \A y \in T : x <= y
<1> DEFINE Less == {ss \in Nat \X Nat : ss[1] < ss[2]}
<1>1. IsWellFoundedOn(Less, Nat)
  BY NatLessThanWellFounded, Zenon DEF OpToRel
<1>2. PICK x \in T : \A y \in T : ~ (<<y, x>> \in Less)
  BY <1>1, WFMin, Zenon
<1>3. ASSUME NEW y \in T PROVE x <= y
  <2>1. <<y, x>> \notin Less /\ <<y, x>> \in Nat \X Nat
    BY <1>2
  <2>. QED BY <2>1
<1>. QED BY <1>3

LEMMA Joined ==
    ASSUME NEW U, NEW v \in Seq(U), NEW w \in Seq(U)
    PROVE  /\ v \o w \in Seq(U) /\ Len(v \o w) = Len(v) + Len(w)
           /\ \A i \in 1..Len(v) : (v \o w)[i] = v[i]
           /\ \A i \in 1..Len(w) : (v \o w)[Len(v) + i] = w[i]
  OBVIOUS

LEMMA AtMostSelf == \A x \in Nat : x <= x
  OBVIOUS

LEMMA AtMostTrans == \A x, y, z \in Nat : x <= y /\ y <= z => x <= z
  OBVIOUS

LEMMA AtMostPlus == \A x, y \in Nat : x + y \in Nat /\ x <= x + y
  OBVIOUS

LEMMA PositiveUp == \A x, y \in Nat : x >= 1 /\ x <= y => 1 <= y
  OBVIOUS

LEMMA StepsInto ==
    \A a, e, n \in Nat : \A l \in 0..(e - a) :
        a <= e /\ e <= n => l \in Nat /\ a + l \in Nat /\ a + l <= e /\ a + l <= n /\ a <= a + l
  OBVIOUS

LEMMA NextWithin ==
    \A d, f, n \in Nat : \A b \in 0..(f - d) :
        1 <= d /\ f <= n /\ b + 1 \in 1..(f - d)
        => d + (b + 1) = (d + b) + 1 /\ d + b \in 1..(n - 1)
  OBVIOUS

LEMMA ConcatTyped == \A S : \A x, y \in Seq(S) : x \o y \in Seq(S)
  BY Concat

LEMMA NotYetAt == \A b, e \in Nat : b <= e /\ b # e => b < e /\ 1 \in 1..(e - b)
  OBVIOUS

LEMMA NextIsThere ==
    \A b, e, n \in Nat : 1 <= b /\ b < e /\ e <= n => b \in 1..(n - 1) /\ b + 1 \in 1..n
  OBVIOUS

LEMMA FitsBefore ==
    \A b, e, m, n \in Nat : n <= e - b /\ e <= m => b + n <= e /\ b + n <= m
  OBVIOUS

LEMMA ChunkFits ==
    \A i, c, b \in Nat : c <= b => i <= i /\ i <= i + c /\ (i + c) - i <= b
  OBVIOUS

LEMMA MovesOn == \A a \in Nat : \A l \in Nat : l # 0 => a # a + l
  OBVIOUS

LEMMA Constants ==
    /\ HeaderLen \in Nat \ {0} /\ MsgHeader \in Nat \ {0} /\ ChunkLen \in Nat \ {0}
    /\ BufferLen \in Nat \ {0} /\ PartialLen \in Nat \ {0} /\ SeqMod \in Nat \ {0}
    /\ HeaderLen <= ChunkLen /\ ChunkLen <= BufferLen /\ HeaderLen <= PartialLen
    /\ Len(MsgSizes) \in Nat
<1> DEFINE R == MsgHeader..BufferLen
<1>1. MsgSizes \in Seq(R)
  BY ULogAssumption
<1> HIDE DEF R
<1>2. Len(MsgSizes) \in Nat
  BY <1>1, LenIsNat
<1>. QED BY <1>2, ULogAssumption

\* f satisfies the equations of StreamTo up to n.
Satisfies(f, n) ==
    f = [m \in 0..n |-> IF m = 0 THEN BytesOf(m) ELSE f[m - 1] \o BytesOf(m)]

LEMMA Satisfiable == \A n \in Nat : \E f : Satisfies(f, n)
<1> DEFINE T == {n \in Nat : ~ \E f : Satisfies(f, n)}
<1> SUFFICES ASSUME T # {} PROVE FALSE
  OBVIOUS
<1>1. PICK n \in T : \A y \in T : n <= y
  BY Least, Zenon
<1>2. CASE n = 0
  <2> DEFINE g == [m \in 0..0 |-> BytesOf(m)]
  <2>1. Satisfies(g, 0)
    BY DEF Satisfies
  <2>. QED BY <1>1, <1>2, <2>1
<1>3. CASE n # 0
  <2>1. n - 1 \in Nat /\ n - 1 \notin T
    BY <1>1, <1>3
  <2>2. PICK f : Satisfies(f, n - 1)
    BY <2>1
  <2> DEFINE g == [m \in 0..n |-> IF m = n THEN f[m - 1] \o BytesOf(m) ELSE f[m]]
  <2>3. ASSUME NEW m \in 0..n
        PROVE  g[m] = IF m = 0 THEN BytesOf(m) ELSE g[m - 1] \o BytesOf(m)
    <3>1. CASE m = n
      BY <1>1, <1>3, <3>1
    <3>2. CASE m # n
      <4>1. m \in 0..(n - 1) /\ (m # 0 => m - 1 \in 0..n /\ m - 1 # n)
        BY <1>1, <3>2
      <4>2. f[m] = IF m = 0 THEN BytesOf(m) ELSE f[m - 1] \o BytesOf(m)
        BY <2>2, <4>1, Zenon DEF Satisfies
      <4>. QED BY <3>2, <4>1, <4>2
    <3>. QED BY <3>1, <3>2
  <2>4. g = [m \in 0..n |-> g[m]]
    OBVIOUS
  <2>. HIDE DEF g
  <2>5. [m \in 0..n |-> g[m]]
           = [m \in 0..n |-> IF m = 0 THEN BytesOf(m) ELSE g[m - 1] \o BytesOf(m)]
    BY <2>3
  <2>6. Satisfies(g, n)
    BY <2>4, <2>5, Zenon DEF Satisfies
  <2>. QED BY <1>1, <2>6
<1>. QED BY <1>2, <1>3

LEMMA StreamToEquation == Satisfies(StreamTo, Len(MsgSizes))
<1>1. Len(MsgSizes) \in Nat
  BY Constants
<1>2. \E f : Satisfies(f, Len(MsgSizes))
  BY <1>1, Satisfiable
<1>3. StreamTo = CHOOSE f : Satisfies(f, Len(MsgSizes))
  BY Zenon DEF StreamTo, Satisfies
<1>. QED BY <1>2, <1>3, Zenon

\* What t looks like if it is the header and the first m messages.
Shape(t, m) ==
    /\ t \in Seq(Byte) /\ Len(t) >= HeaderLen
    /\ \A k \in 1..HeaderLen : t[k] = <<0, k>>
    /\ \A i \in 1..Len(t) : t[i][1] \in 0..m /\ t[i][2] \in 1..SizeOf(t[i][1])
    /\ \A i \in 1..(Len(t) - 1) :
          \/ t[i + 1] = <<t[i][1], t[i][2] + 1>>
          \/ t[i][2] = SizeOf(t[i][1]) /\ t[i + 1] = <<t[i][1] + 1, 1>>
    /\ t[Len(t)] = <<m, SizeOf(m)>>

LEMMA Sizes == \A m \in 0..Len(MsgSizes) : SizeOf(m) \in Nat \ {0} /\ SizeOf(0) = HeaderLen
<1>1. /\ HeaderLen \in Nat \ {0} /\ MsgHeader \in Nat \ {0} /\ BufferLen \in Nat
      /\ Len(MsgSizes) \in Nat
  BY Constants
<1>2. ASSUME NEW m \in 1..Len(MsgSizes) PROVE MsgSizes[m] \in Nat \ {0}
  <2> DEFINE R == MsgHeader..BufferLen
  <2>1. MsgSizes \in Seq(R)
    BY ULogAssumption
  <2> HIDE DEF R
  <2>2. MsgSizes[m] \in R
    BY <2>1, ElementTyped
  <2>. QED BY <1>1, <2>2 DEF R
<1>. QED BY <1>1, <1>2 DEF SizeOf

LEMMA BytesOfFacts ==
    ASSUME NEW m \in 0..Len(MsgSizes)
    PROVE  /\ BytesOf(m) \in Seq(Byte) /\ Len(BytesOf(m)) = SizeOf(m)
           /\ \A k \in 1..SizeOf(m) : BytesOf(m)[k] = <<m, k>>
<1>1. SizeOf(m) \in Nat /\ m \in Int
  BY Sizes, Constants
<1>2. \A k \in 1..SizeOf(m) : <<m, k>> \in Byte
  BY <1>1 DEF Byte
<1>. QED BY <1>1, <1>2 DEF BytesOf

LEMMA ShapeGrows ==
    ASSUME NEW m \in 1..Len(MsgSizes), NEW t, Shape(t, m - 1)
    PROVE  Shape(t \o BytesOf(m), m)
<1>0. m \in Nat /\ m - 1 \in Nat /\ HeaderLen \in Nat
  BY Constants
<1> DEFINE n == SizeOf(m)
<1>1. n \in Nat \ {0}
  BY Sizes
<1>2. PICK b \in Seq(Byte) : b = BytesOf(m) /\ Len(b) = n /\ \A k \in 1..n : b[k] = <<m, k>>
  BY BytesOfFacts
<1>3. PICK u \in Seq(Byte) : u = t \o b
  <2>1. t \in Seq(Byte)
    BY DEF Shape
  <2>. QED BY <1>2, <2>1, Concat, Zenon
<1>4. t \in Seq(Byte) /\ Len(t) \in Nat /\ Len(t) >= HeaderLen /\ Len(u) = Len(t) + n
  BY <1>2, <1>3 DEF Shape
<1>5. /\ \A i \in 1..Len(t) : u[i] = t[i]
      /\ \A k \in 1..n : u[Len(t) + k] = <<m, k>>
  <2>1. /\ \A i \in 1..Len(t) : (t \o b)[i] = t[i]
        /\ \A i \in 1..Len(b) : (t \o b)[Len(t) + i] = b[i]
    BY <1>4, Joined
  <2>. QED BY <1>2, <1>3, <2>1, Zenon
<1>. HIDE DEF n
<1>6. \A k \in 1..HeaderLen : u[k] = <<0, k>>
  <2>1. \A k \in 1..HeaderLen : k \in 1..Len(t) /\ t[k] = <<0, k>>
    BY <1>0, <1>4 DEF Shape
  <2>. QED BY <1>5, <2>1
<1>7. ASSUME NEW i \in 1..Len(u)
      PROVE  u[i][1] \in 0..m /\ u[i][2] \in 1..SizeOf(u[i][1])
  <2>1. CASE i \in 1..Len(t)
    <3>1. t[i][1] \in 0..(m - 1) /\ t[i][2] \in 1..SizeOf(t[i][1])
      BY <2>1, Zenon DEF Shape
    <3>2. u[i] = t[i]
      BY <1>5, <2>1, Zenon
    <3>3. PICK v : v = t[i][1]
      BY Zenon
    <3>4. v \in 0..(m - 1)
      BY <3>1, <3>3, Zenon
    <3>5. v \in 0..m
      BY <1>0, <3>4
    <3>. QED BY <3>1, <3>2, <3>3, <3>5, Zenon
  <2>2. CASE i \notin 1..Len(t)
    <3>1. PICK k \in 1..n : i = Len(t) + k
      <4>1. i - Len(t) \in 1..n /\ i = Len(t) + (i - Len(t))
        BY <1>1, <1>4, <2>2
      <4>. QED BY <4>1
    <3>2. u[i] = <<m, k>>
      BY <1>5, <3>1
    <3>. QED BY <1>0, <3>2 DEF n
  <2>. QED BY <2>1, <2>2
<1>8. ASSUME NEW i \in 1..(Len(u) - 1)
      PROVE  \/ u[i + 1] = <<u[i][1], u[i][2] + 1>>
             \/ u[i][2] = SizeOf(u[i][1]) /\ u[i + 1] = <<u[i][1] + 1, 1>>
  <2>1. CASE i < Len(t)
    <3>1. i \in 1..(Len(t) - 1) /\ i \in 1..Len(t) /\ i + 1 \in 1..Len(t)
      BY <1>4, <2>1
    <3>2. u[i] = t[i] /\ u[i + 1] = t[i + 1]
      BY <1>5, <3>1
    <3>. QED BY <3>1, <3>2 DEF Shape
  <2>2. CASE i = Len(t)
    <3>1. i \in 1..Len(t) /\ 1 \in 1..n
      BY <1>1, <2>2
    <3>2. u[i] = <<m - 1, SizeOf(m - 1)>> /\ u[i + 1] = <<m, 1>>
      BY <1>5, <2>2, <3>1 DEF Shape
    <3>. QED BY <1>0, <3>2
  <2>3. CASE i > Len(t)
    <3>1. PICK k \in 1..n : i = Len(t) + k /\ k + 1 \in 1..n /\ i + 1 = Len(t) + (k + 1)
      <4>1. i - Len(t) \in 1..n /\ i = Len(t) + (i - Len(t)) /\ (i - Len(t)) + 1 \in 1..n
            /\ i + 1 = Len(t) + ((i - Len(t)) + 1)
        BY <1>1, <1>4, <2>3
      <4>. QED BY <4>1
    <3>2. u[i] = <<m, k>> /\ u[i + 1] = <<m, k + 1>>
      BY <1>5, <3>1
    <3>. QED BY <3>2
  <2>. QED BY <1>4, <2>1, <2>2, <2>3
<1>9. u[Len(u)] = <<m, SizeOf(m)>>
  BY <1>1, <1>4, <1>5 DEF n
<1>10. Len(u) >= HeaderLen
  BY <1>0, <1>1, <1>4
<1>. QED BY <1>2, <1>3, <1>6, <1>7, <1>8, <1>9, <1>10, Zenon DEF Shape

LEMMA StreamShape == Shape(StreamBytes, Len(MsgSizes))
<1>0. Len(MsgSizes) \in Nat
  BY Constants
<1>1. \A m \in 0..Len(MsgSizes) :
         StreamTo[m] = IF m = 0 THEN BytesOf(m) ELSE StreamTo[m - 1] \o BytesOf(m)
  BY StreamToEquation, Zenon DEF Satisfies
<1> DEFINE T == {m \in 0..Len(MsgSizes) : ~Shape(StreamTo[m], m)}
<1>2. ASSUME T # {} PROVE FALSE
  <2>1. PICK m \in T : \A y \in T : m <= y
    <3>1. T \in SUBSET Nat
      BY <1>0
    <3>. QED BY <1>2, <3>1, Least, Zenon
  <2>2. CASE m = 0
    <3>1. StreamTo[0] = BytesOf(0) /\ 0 \in 0..Len(MsgSizes)
      BY <1>0, <1>1
    <3>2. PICK b \in Seq(Byte) : /\ b = BytesOf(0) /\ Len(b) = HeaderLen
                                 /\ \A k \in 1..HeaderLen : b[k] = <<0, k>>
      BY <3>1, BytesOfFacts, Sizes
    <3>3. HeaderLen \in Nat \ {0} /\ SizeOf(0) = HeaderLen
      BY <3>1, Sizes, Constants
    <3>4. \A i \in 1..Len(b) : b[i][1] \in 0..0 /\ b[i][2] \in 1..SizeOf(b[i][1])
      BY <3>2, <3>3
    <3>5. \A i \in 1..(Len(b) - 1) : b[i + 1] = <<b[i][1], b[i][2] + 1>>
      BY <3>2, <3>3
    <3>6. b[Len(b)] = <<0, SizeOf(0)>>
      BY <3>2, <3>3
    <3>7. Shape(b, 0)
      <4>1. HeaderLen <= HeaderLen
        BY <3>3
      <4>. QED BY <3>2, <3>4, <3>5, <3>6, <4>1, Zenon DEF Shape
    <3>. QED BY <2>1, <2>2, <3>1, <3>2, <3>7
  <2>3. CASE m # 0
    <3>1. m \in 1..Len(MsgSizes) /\ m - 1 \in 0..Len(MsgSizes) /\ ~(m <= m - 1)
      BY <1>0, <2>1, <2>3
    <3>2. Shape(StreamTo[m - 1], m - 1)
      BY <2>1, <3>1
    <3>3. Shape(StreamTo[m - 1] \o BytesOf(m), m)
      BY <3>1, <3>2, ShapeGrows
    <3>. QED BY <1>1, <2>1, <2>3, <3>3
  <2>. QED BY <2>2, <2>3
<1>3. Len(MsgSizes) \in 0..Len(MsgSizes)
  BY <1>0
<1>. QED BY <1>2, <1>3 DEF StreamBytes

\* A message of the stream ends at position i.
EndsAt(i) == StreamBytes[i][2] = SizeOf(StreamBytes[i][1])

\* The bytes behind position i, up to position j.
Seg(i, j) == SubSeq(StreamBytes, i + 1, j)

LEMMA StreamFacts ==
    /\ StreamBytes \in Seq(Byte) /\ Len(StreamBytes) \in Nat /\ HeaderLen <= Len(StreamBytes)
    /\ \A k \in 1..HeaderLen : StreamBytes[k] = <<0, k>>
    /\ \A i \in 1..Len(StreamBytes) :
          /\ StreamBytes[i] \in Byte
          /\ StreamBytes[i][1] \in 0..Len(MsgSizes)
          /\ StreamBytes[i][2] \in 1..SizeOf(StreamBytes[i][1])
    /\ \A i \in 1..(Len(StreamBytes) - 1) :
          \/ StreamBytes[i + 1] = <<StreamBytes[i][1], StreamBytes[i][2] + 1>>
          \/ EndsAt(i) /\ StreamBytes[i + 1] = <<StreamBytes[i][1] + 1, 1>>
<1>1. Shape(StreamBytes, Len(MsgSizes))
  BY StreamShape
<1>2. StreamBytes \in Seq(Byte) /\ HeaderLen <= Len(StreamBytes)
  BY <1>1, Constants DEF Shape
<1>3. Len(StreamBytes) \in Nat /\ \A i \in 1..Len(StreamBytes) : StreamBytes[i] \in Byte
  BY <1>2, LenIsNat, ElementTyped
<1>. QED BY <1>1, <1>2, <1>3, Zenon DEF Shape, EndsAt

LEMMA HeaderEnds == HeaderLen \in 1..Len(StreamBytes) /\ EndsAt(HeaderLen)
<1>1. HeaderLen \in 1..HeaderLen /\ HeaderLen \in 1..Len(StreamBytes) /\ SizeOf(0) = HeaderLen
  BY Constants, StreamFacts DEF SizeOf
<1>. QED BY <1>1, StreamFacts DEF EndsAt

\* Byte k of message m is at position i.
IsByte(i, m, k) ==
    /\ StreamBytes[i] = <<m, k>>
    /\ m \in Nat /\ k \in Nat \ {0} /\ SizeOf(m) \in Nat \ {0} /\ k <= SizeOf(m)
    /\ EndsAt(i) <=> k = SizeOf(m)

LEMMA StreamByte ==
    ASSUME NEW i \in 1..Len(StreamBytes)
    PROVE  \E m, k : IsByte(i, m, k)
<1>1. /\ StreamBytes[i] \in Byte
      /\ StreamBytes[i][1] \in 0..Len(MsgSizes)
      /\ StreamBytes[i][2] \in 1..SizeOf(StreamBytes[i][1])
  BY StreamFacts, Zenon
<1>2. PICK m, k : m = StreamBytes[i][1] /\ k = StreamBytes[i][2] /\ StreamBytes[i] = <<m, k>>
  BY <1>1 DEF Byte
<1>3. SizeOf(m) \in Nat \ {0} /\ m \in Nat /\ k \in 1..SizeOf(m)
  BY <1>1, <1>2, Sizes, Constants
<1>4. IsByte(i, m, k)
  BY <1>2, <1>3 DEF IsByte, EndsAt
<1>. QED BY <1>4

\* A message begins behind position i exactly if one ends there.
LEMMA NextByte ==
    ASSUME NEW i \in 1..(Len(StreamBytes) - 1)
    PROVE  /\ EndsAt(i) => StreamBytes[i + 1] = <<StreamBytes[i][1] + 1, 1>>
           /\ ~EndsAt(i) => StreamBytes[i + 1] = <<StreamBytes[i][1], StreamBytes[i][2] + 1>>
           /\ StreamBytes[i + 1][2] = 1 => EndsAt(i)
<1>1. i \in 1..Len(StreamBytes) /\ i + 1 \in 1..Len(StreamBytes)
  BY StreamFacts
<1>2. PICK m, k : IsByte(i, m, k)
  BY <1>1, StreamByte
<1>3. PICK m1, k1 : IsByte(i + 1, m1, k1)
  BY <1>1, StreamByte
<1>4. \/ <<m1, k1>> = <<m, k + 1>>
      \/ EndsAt(i) /\ <<m1, k1>> = <<m + 1, 1>>
  <2>1. \/ StreamBytes[i + 1] = <<StreamBytes[i][1], StreamBytes[i][2] + 1>>
        \/ EndsAt(i) /\ StreamBytes[i + 1] = <<StreamBytes[i][1] + 1, 1>>
    BY StreamFacts, Zenon
  <2>. QED BY <1>2, <1>3, <2>1 DEF IsByte
<1>. QED BY <1>2, <1>3, <1>4 DEF IsByte

\* A later byte belongs to a later message, or is further in the same.
Behind(i, j) ==
    \/ StreamBytes[j][1] > StreamBytes[i][1]
    \/ StreamBytes[j][1] = StreamBytes[i][1] /\ StreamBytes[j][2] > StreamBytes[i][2]

LEMMA StreamOrder ==
    ASSUME NEW i \in 1..Len(StreamBytes), NEW j \in 1..Len(StreamBytes), i < j
    PROVE  Behind(i, j)
<1> DEFINE T == {x \in 1..Len(StreamBytes) : i < x /\ ~Behind(i, x)}
<1> SUFFICES ASSUME T # {} PROVE FALSE
  OBVIOUS
<1>0. Len(StreamBytes) \in Nat
  BY StreamFacts
<1>1. PICK x \in T : \A y \in T : x <= y
  <2>1. T \in SUBSET Nat
    BY <1>0
  <2>. QED BY <2>1, Least, Zenon
<1>2. /\ x - 1 \in 1..(Len(StreamBytes) - 1) /\ x - 1 \in 1..Len(StreamBytes)
      /\ (x - 1) + 1 = x /\ i <= x - 1 /\ x - 1 \notin T
  BY <1>0, <1>1
<1>3. PICK mi, ki : IsByte(i, mi, ki)
  BY StreamByte
<1>4. PICK m, k : IsByte(x - 1, m, k)
  BY <1>2, StreamByte
<1>5. StreamBytes[x] = <<m + 1, 1>> \/ StreamBytes[x] = <<m, k + 1>>
  <2>1. \/ StreamBytes[(x - 1) + 1] = <<StreamBytes[x - 1][1] + 1, 1>>
        \/ StreamBytes[(x - 1) + 1] = <<StreamBytes[x - 1][1], StreamBytes[x - 1][2] + 1>>
    BY <1>2, NextByte, Zenon
  <2>2. StreamBytes[x - 1][1] = m /\ StreamBytes[x - 1][2] = k
    BY <1>4 DEF IsByte
  <2>3. (x - 1) + 1 = x
    BY <1>2, Zenon
  <2>. QED BY <2>1, <2>2, <2>3, Zenon
<1>6. i = x - 1 \/ Behind(i, x - 1)
  BY <1>1, <1>2
<1>7. Behind(i, x)
  <2>1. /\ StreamBytes[i] = <<mi, ki>> /\ mi \in Nat /\ ki \in Nat
        /\ StreamBytes[x - 1] = <<m, k>> /\ m \in Nat /\ k \in Nat
    BY <1>3, <1>4 DEF IsByte
  <2>2. CASE i = x - 1
    <3>1. <<mi, ki>> = <<m, k>>
      BY <2>1, <2>2
    <3>. QED BY <1>5, <2>1, <3>1 DEF Behind
  <2>3. CASE Behind(i, x - 1)
    <3>0. /\ StreamBytes[x - 1][1] = m /\ StreamBytes[x - 1][2] = k
          /\ StreamBytes[i][1] = mi /\ StreamBytes[i][2] = ki
      BY <2>1
    <3>1. m > mi \/ (m = mi /\ k > ki)
      BY <2>3, <3>0, Zenon DEF Behind
    <3>. QED BY <1>5, <2>1, <3>1 DEF Behind
  <2>. QED BY <1>6, <2>2, <2>3
<1>. QED BY <1>1, <1>7

\* A message that begins behind position i is there in full, if there are enough bytes.
LEMMA WholeMessage ==
    ASSUME NEW i \in Nat, i + 1 \in 1..Len(StreamBytes), StreamBytes[i + 1][2] = 1,
           NEW n, n = SizeOf(StreamBytes[i + 1][1]), i + n <= Len(StreamBytes)
    PROVE  n \in Nat \ {0} /\ EndsAt(i + n)
<1>1. PICK m, k : IsByte(i + 1, m, k)
  BY StreamByte
<1>2. /\ StreamBytes[i + 1] = <<m, 1>> /\ n = SizeOf(m)
      /\ n \in Nat \ {0} /\ Len(StreamBytes) \in Nat
  BY <1>1, StreamFacts DEF IsByte
<1> DEFINE T == {y \in 1..n : StreamBytes[i + y] # <<m, y>>}
<1>3. ASSUME T # {} PROVE FALSE
  <2>1. PICK x \in T : \A z \in T : x <= z
    <3>1. T \in SUBSET Nat
      BY <1>2
    <3>. QED BY <1>3, <3>1, Least, Zenon
  <2>2. x \in 1..n /\ x # 1
    BY <1>2, <2>1
  <2>3. /\ x - 1 \in 1..n /\ x - 1 # n /\ ~(x <= x - 1) /\ (x - 1) + 1 = x
        /\ i + (x - 1) \in 1..(Len(StreamBytes) - 1) /\ (i + (x - 1)) + 1 = i + x
    BY <1>2, <2>2
  <2>4. StreamBytes[i + (x - 1)] = <<m, x - 1>>
    BY <2>1, <2>3
  <2>5. ~EndsAt(i + (x - 1))
    BY <1>2, <2>3, <2>4 DEF EndsAt
  <2>6. StreamBytes[i + x] = <<m, x>>
    BY <2>3, <2>4, <2>5, NextByte
  <2>. QED BY <2>1, <2>6
<1>4. StreamBytes[i + n] = <<m, n>>
  BY <1>2, <1>3
<1>. QED BY <1>2, <1>4 DEF EndsAt

-----------------------------------------------------------------------------
LEMMA SegFacts ==
    ASSUME NEW i \in Nat, NEW j \in Nat, i <= j, j <= Len(StreamBytes)
    PROVE  /\ Seg(i, j) \in Seq(Byte) /\ Len(Seg(i, j)) = j - i
           /\ \A k \in 1..(j - i) : Seg(i, j)[k] = StreamBytes[i + k]
           /\ (Seg(i, j) = <<>>) <=> (i = j)
<1>1. StreamBytes \in Seq(Byte)
  BY StreamFacts
<1>2. Seg(i, j) \in Seq(Byte) /\ Len(Seg(i, j)) = j - i
  BY <1>1, PartOfSeq DEF Seg
<1>3. ASSUME NEW k \in 1..(j - i) PROVE Seg(i, j)[k] = StreamBytes[i + k]
  <2>1. Seg(i, j)[k] = StreamBytes[(i + 1) + k - 1]
    BY <1>1, PartOfSeq DEF Seg
  <2>. QED BY <2>1
<1>4. (Seg(i, j) = <<>>) <=> (i = j)
  BY <1>2, NoElements
<1>. QED BY <1>2, <1>3, <1>4

LEMMA SegJoin ==
    ASSUME NEW i \in Nat, NEW j \in Nat, NEW k \in Nat, i <= j, j <= k, k <= Len(StreamBytes)
    PROVE  Seg(i, j) \o Seg(j, k) = Seg(i, k)
<1>1. PICK S \in Seq(Byte) : S = StreamBytes /\ Len(S) \in Nat
  BY StreamFacts
<1>. QED BY <1>1, PartsJoin, SMT DEF Seg

LEMMA SegCut ==
    ASSUME NEW i \in Nat, NEW j \in Nat, i <= j, j <= Len(StreamBytes), NEW l \in 0..(j - i)
    PROVE  /\ SubSeq(Seg(i, j), 1, l) = Seg(i, i + l)
           /\ After(Seg(i, j), l) = Seg(i + l, j)
<1>1. PICK S \in Seq(Byte) : S = StreamBytes /\ Len(S) \in Nat
  BY StreamFacts
<1>2. PICK a \in Seq(Byte) : a = SubSeq(S, i + 1, j) /\ Len(a) = j - i
  BY <1>1, SegFacts, Zenon DEF Seg
<1>3. SubSeq(a, 1, l) = SubSeq(S, i + 1, i + l)
  BY <1>1, <1>2
<1>4. SubSeq(a, l + 1, Len(a)) = SubSeq(S, (i + l) + 1, j)
  BY <1>1, <1>2
<1>. QED BY <1>1, <1>2, <1>3, <1>4, Zenon DEF Seg, After

LEMMA SegMiddle ==
    ASSUME NEW i \in Nat, NEW j \in Nat, i <= j, j <= Len(StreamBytes),
           NEW k \in 0..(j - i), NEW l \in 0..k
    PROVE  SubSeq(Seg(i, j), l + 1, k) = Seg(i + l, i + k)
<1>1. PICK S \in Seq(Byte) : S = StreamBytes /\ Len(S) \in Nat
  BY StreamFacts
<1>2. PICK a \in Seq(Byte) : a = SubSeq(S, i + 1, j) /\ Len(a) = j - i
  BY <1>1, SegFacts, Zenon DEF Seg
<1>3. SubSeq(a, l + 1, k) = SubSeq(S, (i + l) + 1, i + k)
  BY <1>1, <1>2
<1>. QED BY <1>1, <1>2, <1>3, Zenon DEF Seg

-----------------------------------------------------------------------------
\* Sequence numbers, and the buffer while it is flushed.

LEMMA DivMod ==
    ASSUME NEW M \in Nat \ {0}, NEW a \in Nat
    PROVE  \E q \in Nat, r \in 0..(M - 1) : a = M * q + r /\ a % M = r /\ a \div M = q
<1>1. a \div M \in Nat /\ a % M \in 0..(M - 1) /\ a = M * (a \div M) + (a % M)
  OBVIOUS
<1>. QED BY <1>1

LEMMA SmallMultiple ==
    ASSUME NEW M \in Nat \ {0}, NEW k \in Int, M * k < 2 * M, -(2 * M) < M * k
    PROVE  k \in {-1, 0, 1}
<1>1. CASE k >= 2
  <2>1. M * k >= M * 2
    BY <1>1
  <2>. QED BY <2>1
<1>2. CASE k <= -2
  <2>1. M * k <= M * (-2)
    BY <1>2
  <2>. QED BY <2>1
<1>. QED BY <1>1, <1>2

\* Numbers that are less than M apart, modulo M.
LEMMA ModApart ==
    ASSUME NEW M \in Nat \ {0}, NEW a \in Nat, NEW b \in Nat, a <= b, b - a < M
    PROVE  /\ (b % M) - (a % M) \in {b - a, (b - a) - M}
           /\ a % M \in Nat /\ b % M \in Nat
<1>1. PICK q \in Nat, r \in 0..(M - 1) : a = M * q + r /\ a % M = r
  BY DivMod, Zenon
<1>2. PICK p \in Nat, s \in 0..(M - 1) : b = M * p + s /\ b % M = s
  BY DivMod, Zenon
<1>3. PICK k \in Int : k = p - q
  OBVIOUS
<1>4. M * k = M * p - M * q
  BY <1>3
<1>5. M * k = (b - a) - (s - r)
  BY <1>1, <1>2, <1>4
<1>6. k \in {-1, 0, 1}
  <2>1. M * k < 2 * M /\ -(2 * M) < M * k
    BY <1>5
  <2>. QED BY <2>1, SmallMultiple
<1>7. M * k \in {-M, 0, M}
  BY <1>6
<1>8. s - r \in {(b - a) + M, b - a, (b - a) - M}
  BY <1>5, <1>7
<1>. QED BY <1>1, <1>2, <1>8

\* The sequence numbers tell new chunks from repeated ones.
THEOREM Wraps ==
    ASSUME NEW n \in Nat, NEW e \in Nat, n \in (e - MaxBack)..(e + MaxAhead)
    PROVE  /\ IsRepeated(n % SeqMod, e % SeqMod) <=> n < e
           /\ (n % SeqMod = e % SeqMod) <=> (n = e)
<1>1. PICK M \in Nat \ {0} : M = SeqMod
  BY Constants
<1>2. PICK half \in Nat : half = (M - 1) \div 2 /\ 2 * half <= M - 1
  <2>1. PICK q \in Nat, r \in 0..(2 - 1) : M - 1 = 2 * q + r /\ (M - 1) \div 2 = q
    BY DivMod
  <2>. QED BY <2>1
<1>3. MaxBack \in Nat /\ MaxBack < half /\ MaxAhead \in Nat /\ MaxAhead <= half
  <2>1. /\ MaxBack \in Nat /\ MaxBack < (SeqMod - 1) \div 2
        /\ MaxAhead \in Nat /\ MaxAhead <= (SeqMod - 1) \div 2
    BY ULogAssumption, Zenon
  <2>. QED BY <1>1, <1>2, <2>1, Zenon
<1>4. PICK x \in Nat, y \in Nat : x = n % M /\ y = e % M
  <2>1. n % M \in Nat /\ e % M \in Nat
    BY <1>1
  <2>. QED BY <2>1
<1>5. IsRepeated(n % SeqMod, e % SeqMod)
        <=> (x > y /\ x - y > half) \/ (x < y /\ y - x < half)
  BY <1>1, <1>2, <1>4 DEF IsRepeated
<1>6. CASE n < e
  <2>1. e - n < M /\ n <= e /\ e - n < half
    BY <1>2, <1>3, <1>6
  <2>2. y - x \in {e - n, (e - n) - M}
    BY <1>4, <2>1, ModApart, Zenon
  <2>. QED BY <1>1, <1>2, <1>4, <1>5, <1>6, <2>1, <2>2
<1>7. CASE n >= e
  <2>1. n - e < M /\ e <= n /\ n - e <= half
    BY <1>2, <1>3, <1>7
  <2>2. x - y \in {n - e, (n - e) - M}
    BY <1>4, <2>1, ModApart, Zenon
  <2>. QED BY <1>1, <1>2, <1>4, <1>5, <1>7, <2>1, <2>2
<1>. QED BY <1>6, <1>7

\* The position of the last byte before chunk n.
LEMMA ChunkFacts ==
    ASSUME NEW n \in Chunks
    PROVE  /\ n \in Nat /\ n * ChunkLen \in Nat /\ (n + 1) * ChunkLen \in Nat
           /\ (n + 1) * ChunkLen = n * ChunkLen + ChunkLen
           /\ (n + 1) * ChunkLen <= Len(StreamBytes)
           /\ Chunk(n) = Seg(n * ChunkLen, (n + 1) * ChunkLen)
           /\ \A e \in Nat : e <= n => e * ChunkLen \in Nat /\ e * ChunkLen <= n * ChunkLen
<1>1. PICK C \in Nat \ {0}, L \in Nat : C = ChunkLen /\ L = Len(StreamBytes)
  BY Constants, StreamFacts, Zenon
<1>2. PICK q \in Nat, r \in 0..(C - 1) : L = C * q + r /\ L \div C = q
  BY DivMod
<1>3. n \in Nat /\ n + 1 <= q
  BY <1>1, <1>2 DEF Chunks
<1>4. C * (n + 1) <= C * q /\ (n + 1) * C = n * C + C /\ n * C \in Nat /\ (n + 1) * C = C * (n + 1)
  BY <1>3
<1>5. (n + 1) * C <= L
  BY <1>2, <1>3, <1>4
<1>6. \A e \in Nat : e <= n => e * C \in Nat /\ e * C <= n * C
  BY <1>3
<1>. QED BY <1>1, <1>3, <1>4, <1>5, <1>6 DEF Chunk, Seg

-----------------------------------------------------------------------------
States ==
    [waiting_header : BOOLEAN, waiting_first_msg_offset : BOOLEAN, expected_seq : Nat,
     buf : Seq(Byte), index : Nat, partial : Seq(Byte), corrupt : BOOLEAN]

\* InsideBuffer for a state s.
Inside(s) ==
    /\ s \in States
    /\ s.index + Len(s.buf) <= BufferLen
    /\ Len(s.partial) <= PartialLen

\* A flush leaves these alone; a message that is given up stays so.
SameMode(s, t) ==
    /\ t.waiting_header = s.waiting_header
    /\ t.waiting_first_msg_offset = s.waiting_first_msg_offset
    /\ t.expected_seq = s.expected_seq
    /\ s.corrupt => t.corrupt

\* The first p bytes of the partial message are written.
Continued(s, p) == [s EXCEPT !.partial = After(@, p)]

\* The partial message and the first l bytes of the buffer are written.
Flushed(s, l) == [Consume(s, l) EXCEPT !.partial = <<>>]

\* r bytes of the first message, which has n, are written.
Cut(s, n, r) ==
    IF n - r > PartialLen THEN [s EXCEPT !.corrupt = TRUE]
    ELSE [Consume(s, n) EXCEPT !.partial = SubSeq(s.buf, r + 1, n)]

LEMMA PartsCases ==
    ASSUME NEW s, NEW x \in FlushParts(s)
    PROVE  /\ HasMessage(s.buf)
           /\ \E r \in 1..(SizeOf(s.buf[1][1]) - 1) :
                 x = [st |-> Cut(s, SizeOf(s.buf[1][1]), r), out |-> SubSeq(s.buf, 1, r)]
  BY Zenon DEF FlushParts, Cut

LEMMA FlushCases ==
    ASSUME NEW s, NEW x \in LoggingFlush(s)
    PROVE  \/ \E p \in 0..(Len(s.partial) - 1) :
                 x = [st |-> Continued(s, p), out |-> SubSeq(s.partial, 1, p)]
           \/ \E l \in 0..Len(s.buf) :
                 /\ IsWhole(s.buf, l)
                 /\ \/ x = [st |-> Flushed(s, l), out |-> s.partial \o SubSeq(s.buf, 1, l)]
                    \/ \E y \in FlushParts(Flushed(s, l)) :
                          x = [st  |-> y.st,
                               out |-> (s.partial \o SubSeq(s.buf, 1, l)) \o y.out]
  BY Zenon DEF LoggingFlush, Continued, Flushed

LEMMA SeqCut ==
    ASSUME NEW q \in Seq(Byte), NEW i \in 0..Len(q)
    PROVE  /\ SubSeq(q, 1, i) \in Seq(Byte) /\ Len(SubSeq(q, 1, i)) = i
           /\ After(q, i) \in Seq(Byte) /\ Len(After(q, i)) = Len(q) - i
           /\ \A j \in i..Len(q) : /\ SubSeq(q, i + 1, j) \in Seq(Byte)
                                   /\ Len(SubSeq(q, i + 1, j)) = j - i
  BY DEF After

LEMMA ContinuedInside ==
    ASSUME NEW s, Inside(s), NEW p \in 0..Len(s.partial)
    PROVE  Inside(Continued(s, p)) /\ SameMode(s, Continued(s, p))
<1>1. s \in States /\ s.partial \in Seq(Byte)
  BY DEF Inside, States
<1>2. PICK q \in Seq(Byte) : q = After(s.partial, p) /\ Len(q) <= Len(s.partial)
  BY <1>1, SeqCut
<1>3. PICK t : t = [s EXCEPT !.partial = q] /\ t = Continued(s, p)
  BY <1>2, Zenon DEF Continued
<1>4. t \in States
  BY <1>1, <1>2, <1>3 DEF States
<1>5. /\ t.waiting_header = s.waiting_header /\ t.expected_seq = s.expected_seq
      /\ t.waiting_first_msg_offset = s.waiting_first_msg_offset /\ t.corrupt = s.corrupt
      /\ t.buf = s.buf /\ t.index = s.index /\ t.partial = q
  BY <1>1, <1>3 DEF States
<1>6. Len(q) <= PartialLen
  BY <1>1, <1>2, Constants DEF Inside
<1>. QED BY <1>3, <1>4, <1>5, <1>6, Zenon DEF Inside, SameMode

LEMMA ConsumeInside ==
    ASSUME NEW s, Inside(s), NEW l \in 0..Len(s.buf), NEW q \in Seq(Byte), Len(q) <= PartialLen
    PROVE  /\ Inside([Consume(s, l) EXCEPT !.partial = q])
           /\ SameMode(s, [Consume(s, l) EXCEPT !.partial = q])
           /\ [Consume(s, l) EXCEPT !.partial = q].buf = After(s.buf, l)
<1>1. s \in States /\ s.buf \in Seq(Byte) /\ s.index \in Nat /\ Len(s.buf) \in Nat
  BY DEF Inside, States
<1>2. PICK b \in Seq(Byte), i \in Nat :
         b = After(s.buf, l) /\ Len(b) = Len(s.buf) - l /\ i = s.index + l
  <2>1. After(s.buf, l) \in Seq(Byte) /\ Len(After(s.buf, l)) = Len(s.buf) - l
    BY <1>1, SeqCut, Zenon
  <2>2. s.index + l \in Nat
    BY <1>1
  <2>. QED BY <2>1, <2>2
<1>3. PICK u : u = Consume(s, l) /\ u = [s EXCEPT !.buf = b, !.index = i]
  BY <1>2, Zenon DEF Consume
<1>4. u \in States
  BY <1>1, <1>2, <1>3, Zenon DEF States
<1>5. PICK t : t = [u EXCEPT !.partial = q]
  OBVIOUS
<1>6. t \in States
  BY <1>4, <1>5 DEF States
<1>7. /\ u.waiting_header = s.waiting_header /\ u.expected_seq = s.expected_seq
      /\ u.waiting_first_msg_offset = s.waiting_first_msg_offset /\ u.corrupt = s.corrupt
      /\ u.buf = b /\ u.index = i
  BY <1>1, <1>3 DEF States
<1>8. /\ t.waiting_header = u.waiting_header /\ t.expected_seq = u.expected_seq
      /\ t.waiting_first_msg_offset = u.waiting_first_msg_offset /\ t.corrupt = u.corrupt
      /\ t.buf = u.buf /\ t.index = u.index /\ t.partial = q
  BY <1>4, <1>5 DEF States
<1>9. i + Len(b) <= BufferLen
  <2>1. s.index + Len(s.buf) <= BufferLen
    BY Zenon DEF Inside
  <2>2. l \in Nat /\ Len(b) \in Nat /\ Len(b) = Len(s.buf) - l /\ i = s.index + l
    <3>1. l \in Nat
      BY <1>1
    <3>2. Len(b) \in Nat
      BY LenIsNat, Zenon
    <3>. QED BY <1>2, <3>1, <3>2, Zenon
  <2>3. PICK k \in Nat, h \in Nat, c \in Nat : k = s.index /\ h = Len(s.buf) /\ c = Len(b)
    BY <1>1, <2>2, Zenon
  <2>4. k + h <= BufferLen /\ c = h - l /\ i = k + l
    BY <2>1, <2>2, <2>3, Zenon
  <2>5. i + c <= BufferLen
    BY <2>2, <2>4
  <2>. QED BY <2>3, <2>5, Zenon
<1>10. Inside(t)
  BY <1>6, <1>7, <1>8, <1>9, Zenon DEF Inside
<1>11. SameMode(s, t)
  BY <1>7, <1>8, Zenon DEF SameMode
<1>. QED BY <1>2, <1>3, <1>5, <1>7, <1>8, <1>10, <1>11, Zenon

LEMMA CutInside ==
    ASSUME NEW s, Inside(s), HasMessage(s.buf), NEW n, n = SizeOf(s.buf[1][1]),
           NEW r \in 1..(n - 1)
    PROVE  /\ Inside(Cut(s, n, r)) /\ SameMode(s, Cut(s, n, r))
           /\ n \in Nat \ {0} /\ n <= Len(s.buf)
<1>1. s \in States /\ s.buf \in Seq(Byte) /\ Len(s.buf) \in Nat /\ s.buf # <<>>
  BY DEF Inside, States, HasMessage
<1>2. s.buf[1] \in Byte
  BY <1>1
<1>3. n \in Nat \ {0} /\ n <= Len(s.buf)
  BY <1>2, Sizes DEF Byte, HasMessage
<1>4. CASE n - r > PartialLen
  <2>1. PICK t : t = Cut(s, n, r) /\ t = [s EXCEPT !.corrupt = TRUE]
    BY <1>4, Zenon DEF Cut
  <2>2. /\ t \in States
        /\ t.waiting_header = s.waiting_header /\ t.expected_seq = s.expected_seq
        /\ t.waiting_first_msg_offset = s.waiting_first_msg_offset /\ t.corrupt = TRUE
        /\ t.buf = s.buf /\ t.index = s.index /\ t.partial = s.partial
    BY <1>1, <2>1, Zenon DEF States
  <2>. QED BY <1>3, <2>1, <2>2, Zenon DEF Inside, SameMode
<1>5. CASE ~(n - r > PartialLen)
  <2>1. PICK q \in Seq(Byte) : q = SubSeq(s.buf, r + 1, n) /\ Len(q) = n - r
    <3>1. r \in 0..Len(s.buf) /\ n \in r..Len(s.buf)
      BY <1>1, <1>3
    <3>. QED BY <1>1, <3>1, SeqCut, Zenon
  <2>2. Cut(s, n, r) = [Consume(s, n) EXCEPT !.partial = q] /\ Len(q) <= PartialLen
    BY <1>3, <1>5, <2>1, Constants, SMTT(30) DEF Cut
  <2>. QED BY <1>3, <2>2, ConsumeInside
<1>. QED BY <1>4, <1>5

LEMMA FlushInside ==
    ASSUME NEW file, NEW s, Inside(s), NEW x \in FlushTo(file, s)
    PROVE  Inside(x.st) /\ SameMode(s, x.st) /\ x.out \in Seq(Byte)
<1>0. s \in States /\ s.buf \in Seq(Byte) /\ s.partial \in Seq(Byte)
  BY DEF Inside, States
<1>1. CASE file = NoFile
  <2>1. x = [st |-> s, out |-> <<>>]
    BY <1>1 DEF FlushTo
  <2>. QED BY <2>1 DEF SameMode
<1>2. CASE file # NoFile
  <2>0. x \in LoggingFlush(s)
    BY <1>2 DEF FlushTo
  <2>1. ASSUME NEW p \in 0..(Len(s.partial) - 1),
               x = [st |-> Continued(s, p), out |-> SubSeq(s.partial, 1, p)]
        PROVE  Inside(x.st) /\ SameMode(s, x.st) /\ x.out \in Seq(Byte)
    <3>1. p \in 0..Len(s.partial)
      BY <1>0
    <3>2. Inside(Continued(s, p)) /\ SameMode(s, Continued(s, p))
      BY <3>1, ContinuedInside
    <3>3. SubSeq(s.partial, 1, p) \in Seq(Byte)
      BY <1>0, <3>1, SeqCut
    <3>. QED BY <2>1, <3>2, <3>3
  <2>2. ASSUME NEW l \in 0..Len(s.buf)
        PROVE  /\ Inside(Flushed(s, l)) /\ SameMode(s, Flushed(s, l))
               /\ Flushed(s, l).buf = After(s.buf, l)
               /\ s.partial \o SubSeq(s.buf, 1, l) \in Seq(Byte)
    <3>1. <<>> \in Seq(Byte) /\ Len(<<>>) <= PartialLen
      BY Constants
    <3>2. SubSeq(s.buf, 1, l) \in Seq(Byte)
      BY <1>0, SeqCut
    <3>3. s.partial \o SubSeq(s.buf, 1, l) \in Seq(Byte)
      BY <1>0, <3>2, Concat
    <3>. QED BY <3>1, <3>3, ConsumeInside, Zenon DEF Flushed
  <2>3. ASSUME NEW l \in 0..Len(s.buf), NEW y \in FlushParts(Flushed(s, l)),
               x = [st  |-> y.st, out |-> (s.partial \o SubSeq(s.buf, 1, l)) \o y.out]
        PROVE  Inside(x.st) /\ SameMode(s, x.st) /\ x.out \in Seq(Byte)
    <3>1. PICK t : t = Flushed(s, l)
      OBVIOUS
    <3>2. Inside(t) /\ SameMode(s, t)
      BY <2>2, <3>1
    <3>3. PICK n : n = SizeOf(t.buf[1][1])
      OBVIOUS
    <3>4. PICK r \in 1..(n - 1) : y = [st |-> Cut(t, n, r), out |-> SubSeq(t.buf, 1, r)]
      BY <2>3, <3>1, <3>3, PartsCases, Zenon
    <3>5. HasMessage(t.buf)
      BY <2>3, <3>1, PartsCases
    <3>6. Inside(Cut(t, n, r)) /\ SameMode(t, Cut(t, n, r)) /\ n \in Nat /\ n <= Len(t.buf)
      BY <3>2, <3>3, <3>5, CutInside, Zenon
    <3>7. t.buf \in Seq(Byte) /\ r \in 0..Len(t.buf)
      <4>1. t \in States
        BY <3>2 DEF Inside
      <4>2. t.buf \in Seq(Byte)
        BY <4>1 DEF States
      <4>. QED BY <3>6, <4>2
    <3>8. SubSeq(t.buf, 1, r) \in Seq(Byte)
      BY <3>7, SeqCut
    <3>9. SameMode(s, Cut(t, n, r))
      BY <3>2, <3>6, Zenon DEF SameMode
    <3>10. y.st = Cut(t, n, r) /\ y.out = SubSeq(t.buf, 1, r)
      BY <3>4
    <3>11. x.st = y.st /\ x.out = (s.partial \o SubSeq(s.buf, 1, l)) \o y.out
      BY <2>3, Zenon
    <3>12. x.out \in Seq(Byte)
      <4>1. s.partial \o SubSeq(s.buf, 1, l) \in Seq(Byte) /\ y.out \in Seq(Byte)
        BY <2>2, <3>8, <3>10, Zenon
      <4>2. (s.partial \o SubSeq(s.buf, 1, l)) \o y.out \in Seq(Byte)
        BY <4>1, ConcatTyped, Zenon
      <4>. QED BY <3>11, <4>2, Zenon
    <3>. QED BY <3>6, <3>9, <3>10, <3>11, <3>12
  <2>4. ASSUME NEW l \in 0..Len(s.buf),
               x = [st |-> Flushed(s, l), out |-> s.partial \o SubSeq(s.buf, 1, l)]
        PROVE  Inside(x.st) /\ SameMode(s, x.st) /\ x.out \in Seq(Byte)
    BY <2>2, <2>4
  <2>. QED BY <2>0, <2>1, <2>3, <2>4, FlushCases, Zenon
<1>. QED BY <1>1, <1>2

-----------------------------------------------------------------------------
\* The buffer while a chunk is stored.

\* t is s with room for len more bytes: the buffer is the same, or was dropped.
HasRoom(s, t, len) ==
    /\ t \in States
    /\ t.index + Len(t.buf) + len <= BufferLen
    /\ t.partial = s.partial /\ t.corrupt = s.corrupt
    /\ t.waiting_header = s.waiting_header /\ t.expected_seq = s.expected_seq
    /\ \/ t.buf = s.buf /\ t.waiting_first_msg_offset = s.waiting_first_msg_offset
       \/ t.buf = <<>> /\ t.waiting_first_msg_offset = TRUE

LEMMA MakeRoomMakes ==
    ASSUME NEW s, Inside(s), NEW len \in Nat, len <= BufferLen
    PROVE  HasRoom(s, MakeRoom(s, len), len)
<1>1. /\ s \in States /\ s.index \in Nat /\ Len(s.buf) \in Nat
      /\ s.index + Len(s.buf) <= BufferLen /\ BufferLen \in Nat
  BY Constants DEF Inside, States
<1> DEFINE u == [s EXCEPT !.buf = <<>>, !.waiting_first_msg_offset = TRUE]
<1>2. /\ u \in States /\ u.index = s.index /\ u.buf = <<>>
      /\ u.partial = s.partial /\ u.corrupt = s.corrupt
      /\ u.waiting_header = s.waiting_header /\ u.expected_seq = s.expected_seq
      /\ u.waiting_first_msg_offset = TRUE
  <2>1. <<>> \in Seq(Byte) /\ TRUE \in BOOLEAN
    OBVIOUS
  <2>2. u \in States
    BY <1>1, <2>1, Zenon DEF States
  <2>3. /\ u.index = s.index /\ u.partial = s.partial /\ u.corrupt = s.corrupt
        /\ u.waiting_header = s.waiting_header /\ u.expected_seq = s.expected_seq
    BY <1>1 DEF States
  <2>4. u.buf = <<>> /\ u.waiting_first_msg_offset = TRUE
    BY <1>1 DEF States
  <2>. QED BY <2>2, <2>3, <2>4
<1>. HIDE DEF u
<1>3. PICK t : /\ MakeRoom(s, len) =
                     IF t.index + Len(t.buf) + len > BufferLen THEN [t EXCEPT !.index = 0] ELSE t
               /\ t = IF Len(s.buf) + len > BufferLen THEN u ELSE s
  BY Zenon DEF MakeRoom, u
<1>4. /\ t \in States /\ t.index \in Nat /\ Len(t.buf) \in Nat /\ Len(t.buf) + len <= BufferLen
      /\ t.partial = s.partial /\ t.corrupt = s.corrupt
      /\ t.waiting_header = s.waiting_header /\ t.expected_seq = s.expected_seq
      /\ \/ t.buf = s.buf /\ t.waiting_first_msg_offset = s.waiting_first_msg_offset
         \/ t.buf = <<>> /\ t.waiting_first_msg_offset = TRUE
  <2>1. CASE Len(s.buf) + len > BufferLen
    <3>1. t = u
      BY <1>3, <2>1
    <3>2. Len(t.buf) = 0 /\ t.index \in Nat
      BY <1>1, <1>2, <3>1
    <3>. QED BY <1>2, <3>1, <3>2
  <2>2. CASE ~(Len(s.buf) + len > BufferLen)
    <3>1. t = s
      BY <1>3, <2>2
    <3>. QED BY <1>1, <2>2, <3>1
  <2>. QED BY <2>1, <2>2, Zenon
<1>5. CASE t.index + Len(t.buf) + len > BufferLen
  <2>1. PICK v : v = MakeRoom(s, len) /\ v = [t EXCEPT !.index = 0]
    BY <1>3, <1>5, Zenon
  <2>2. /\ v \in States /\ v.index = 0 /\ v.buf = t.buf
        /\ v.partial = t.partial /\ v.corrupt = t.corrupt
        /\ v.waiting_header = t.waiting_header /\ v.expected_seq = t.expected_seq
        /\ v.waiting_first_msg_offset = t.waiting_first_msg_offset
    <3>1. 0 \in Nat /\ t \in States
      BY <1>4
    <3>2. v \in States
      BY <2>1, <3>1 DEF States
    <3>3. /\ v.index = 0 /\ v.buf = t.buf
          /\ v.partial = t.partial /\ v.corrupt = t.corrupt
          /\ v.waiting_header = t.waiting_header /\ v.expected_seq = t.expected_seq
          /\ v.waiting_first_msg_offset = t.waiting_first_msg_offset
      BY <2>1, <3>1 DEF States
    <3>. QED BY <3>2, <3>3
  <2>3. v.index + Len(v.buf) + len <= BufferLen
    BY <1>4, <2>2
  <2>. QED BY <1>4, <2>1, <2>2, <2>3, Zenon DEF HasRoom
<1>6. CASE ~(t.index + Len(t.buf) + len > BufferLen)
  <2>1. t = MakeRoom(s, len)
    BY <1>3, <1>6, Zenon
  <2>2. t.index + Len(t.buf) + len <= BufferLen
    BY <1>1, <1>4, <1>6
  <2>. QED BY <1>4, <2>1, <2>2, Zenon DEF HasRoom
<1>. QED BY <1>5, <1>6

LEMMA FirstMsgOffsetFinds ==
    ASSUME NEW data \in Seq(Byte), FirstMsgOffset(data) # NoFirstMsgOffset
    PROVE  /\ FirstMsgOffset(data) \in Nat /\ FirstMsgOffset(data) + 1 \in 1..Len(data)
           /\ data[FirstMsgOffset(data) + 1][2] = 1
<1> DEFINE T == {k \in 1..Len(data) : data[k][2] = 1}
<1>1. T # {} /\ Len(data) \in Nat
  BY DEF FirstMsgOffset
<1>2. PICK x \in T : \A z \in T : x <= z
  <2>1. T \in SUBSET Nat
    BY <1>1
  <2>. QED BY <1>1, <2>1, Least, Zenon
<1> DEFINE IsFirst(k) == data[k][2] = 1 /\ \A j \in 1..(k - 1) : data[j][2] # 1
<1>3. x \in 1..Len(data) /\ IsFirst(x)
  <2>1. \A j \in 1..(x - 1) : j \in 1..Len(data) /\ ~(x <= j)
    BY <1>1, <1>2
  <2>. QED BY <1>2, <2>1
<1>4. PICK k : k = CHOOSE y \in 1..Len(data) : IsFirst(y)
  OBVIOUS
<1>5. k \in 1..Len(data) /\ data[k][2] = 1
  BY <1>3, <1>4
<1>6. FirstMsgOffset(data) = k - 1
  BY <1>1, <1>4 DEF FirstMsgOffset
<1>7. k - 1 \in Nat /\ (k - 1) + 1 = k
  BY <1>1, <1>5
<1>. QED BY <1>5, <1>6, <1>7

\* The data behind its first b bytes is appended to the buffer.
Filled(s, data, b) ==
    [[s EXCEPT !.waiting_first_msg_offset = FALSE] EXCEPT !.buf = @ \o After(data, b)]

\* What Store does: the data is dropped, there is none, or it is appended from a
\* message's start on.
Stored(file, s, data, out) ==
    \E room :
       /\ HasRoom(s, room, Len(data))
       /\ \/ ulog' = room /\ written' = out /\ room.waiting_first_msg_offset = TRUE
          \/ /\ data = <<>> /\ room.waiting_first_msg_offset = FALSE
             /\ ulog' = room /\ written' = out
          \/ \E b \in 0..Len(data) :
                /\ \/ room.waiting_first_msg_offset = FALSE /\ b = 0
                   \/ /\ room.waiting_first_msg_offset = TRUE
                      /\ b + 1 \in 1..Len(data) /\ data[b + 1][2] = 1
                /\ \E x \in FlushTo(file, Filled(room, data, b)) :
                      ulog' = x.st /\ written' = out \o x.out

LEMMA StoreCases ==
    ASSUME NEW file, NEW s, Inside(s), NEW data \in Seq(Byte), Len(data) <= BufferLen,
           NEW out, Store(file, s, data, out)
    PROVE  Stored(file, s, data, out)
<1>0. Len(data) \in Nat
  OBVIOUS
<1>1. PICK room : room = MakeRoom(s, Len(data))
  OBVIOUS
<1>2. HasRoom(s, room, Len(data))
  BY <1>0, <1>1, MakeRoomMakes
<1>3. room \in States /\ room.waiting_first_msg_offset \in BOOLEAN
  BY <1>2 DEF HasRoom, States
<1>4. PICK b : b = IF room.waiting_first_msg_offset THEN FirstMsgOffset(data) ELSE 0
  OBVIOUS
<1>5. IF b = NoFirstMsgOffset THEN ulog' = room /\ written' = out
      ELSE IF data = <<>>
      THEN ulog' = [room EXCEPT !.waiting_first_msg_offset = FALSE] /\ written' = out
      ELSE \E x \in FlushTo(file, Filled(room, data, b)) : ulog' = x.st /\ written' = out \o x.out
  BY <1>1, <1>4, Zenon DEF Store, Filled
<1>6. CASE b = NoFirstMsgOffset
  <2>1. room.waiting_first_msg_offset = TRUE
    BY <1>3, <1>4, <1>6 DEF NoFirstMsgOffset
  <2>. QED BY <1>2, <1>5, <1>6, <2>1, Zenon DEF Stored
<1>7. CASE b # NoFirstMsgOffset /\ room.waiting_first_msg_offset = TRUE
  <2>1. b = FirstMsgOffset(data)
    BY <1>4, <1>7
  <2>2. b \in Nat /\ b + 1 \in 1..Len(data) /\ data[b + 1][2] = 1
    BY <1>7, <2>1, FirstMsgOffsetFinds
  <2>3. data # <<>> /\ b \in 0..Len(data)
    BY <1>0, <2>2
  <2>4. PICK x \in FlushTo(file, Filled(room, data, b)) : ulog' = x.st /\ written' = out \o x.out
    BY <1>5, <1>7, <2>3
  <2>. QED BY <1>2, <1>7, <2>2, <2>3, <2>4, Zenon DEF Stored
<1>8. CASE b # NoFirstMsgOffset /\ room.waiting_first_msg_offset = FALSE
  <2>1. b = 0 /\ b \in 0..Len(data)
    BY <1>0, <1>4, <1>8
  <2>2. CASE data = <<>>
    <3>1. [room EXCEPT !.waiting_first_msg_offset = FALSE] = room
      BY <1>3, <1>8 DEF States
    <3>. QED BY <1>2, <1>5, <1>8, <2>2, <3>1, Zenon DEF Stored
  <2>3. CASE data # <<>>
    <3>1. PICK x \in FlushTo(file, Filled(room, data, b)) : ulog' = x.st /\ written' = out \o x.out
      BY <1>5, <1>8, <2>3
    <3>. QED BY <1>2, <1>8, <2>1, <3>1, Zenon DEF Stored
  <2>. QED BY <2>2, <2>3
<1>. QED BY <1>3, <1>6, <1>7, <1>8, Zenon

LEMMA FilledInside ==
    ASSUME NEW s, Inside(s), NEW data \in Seq(Byte), NEW room, HasRoom(s, room, Len(data)),
           NEW b \in 0..Len(data)
    PROVE  /\ Inside(Filled(room, data, b))
           /\ Filled(room, data, b).buf = room.buf \o After(data, b)
           /\ Filled(room, data, b).partial = s.partial
           /\ Filled(room, data, b).waiting_first_msg_offset = FALSE
           /\ Filled(room, data, b).waiting_header = s.waiting_header
           /\ Filled(room, data, b).expected_seq = s.expected_seq
           /\ Filled(room, data, b).corrupt = s.corrupt
<1>1. room \in States /\ room.buf \in Seq(Byte) /\ room.index \in Nat
  BY DEF HasRoom, States
<1>2. PICK d \in Seq(Byte) : d = After(data, b) /\ Len(d) = Len(data) - b
  BY SeqCut
<1>3. PICK c \in Seq(Byte) : c = room.buf \o d /\ Len(c) = Len(room.buf) + Len(d)
  BY <1>1, <1>2, Concat, Zenon
<1>4. PICK u : u = [room EXCEPT !.waiting_first_msg_offset = FALSE]
  OBVIOUS
<1>5. /\ u \in States /\ u.index = room.index /\ u.buf = room.buf
      /\ u.partial = room.partial /\ u.corrupt = room.corrupt
      /\ u.waiting_header = room.waiting_header /\ u.expected_seq = room.expected_seq
      /\ u.waiting_first_msg_offset = FALSE
  BY <1>1, <1>4, Zenon DEF States
<1>6. PICK t : t = Filled(room, data, b) /\ t = [u EXCEPT !.buf = c]
  BY <1>2, <1>3, <1>4, <1>5, Zenon DEF Filled
<1>7. /\ t \in States /\ t.index = u.index /\ t.buf = c
      /\ t.partial = u.partial /\ t.corrupt = u.corrupt
      /\ t.waiting_header = u.waiting_header /\ t.expected_seq = u.expected_seq
      /\ t.waiting_first_msg_offset = FALSE
  BY <1>5, <1>6 DEF States
<1>8. room.index + Len(c) <= BufferLen
  <2>1. Len(data) \in Nat /\ Len(room.buf) \in Nat
    BY <1>1
  <2>2. room.index + Len(room.buf) + Len(data) <= BufferLen
    BY DEF HasRoom
  <2>3. PICK i \in Nat, l \in Nat, m \in Nat :
           i = room.index /\ l = Len(room.buf) /\ m = Len(data)
    BY <1>1, <2>1
  <2>4. b \in 0..m /\ i + l + m <= BufferLen
    BY <2>2, <2>3
  <2>5. i + (l + (m - b)) <= BufferLen
    BY <2>4, Constants
  <2>. QED BY <1>2, <1>3, <2>3, <2>5
<1>9. Inside(t)
  BY <1>5, <1>7, <1>8, Zenon DEF Inside, HasRoom
<1>. QED BY <1>2, <1>3, <1>5, <1>6, <1>7, <1>9, Zenon DEF HasRoom

LEMMA RoomInside ==
    ASSUME NEW s, Inside(s), NEW len \in Nat, NEW room, HasRoom(s, room, len)
    PROVE  Inside(room)
<1>1. room \in States /\ room.buf \in Seq(Byte) /\ room.index \in Nat
  BY DEF HasRoom, States
<1>2. room.index + Len(room.buf) <= BufferLen
  BY <1>1, Constants DEF HasRoom
<1>. QED BY <1>1, <1>2, Zenon DEF Inside, HasRoom

\* What the file holds: bytes of the stream, behind a mark for its beginning.
Units == Byte \cup {<<-1, 0>>}

LEMMA Appended ==
    ASSUME NEW out \in Seq(Units), NEW q \in Seq(Byte)
    PROVE  /\ q \in Seq(Units) /\ out \o q \in Seq(Units)
           /\ Len(out \o q) = Len(out) + Len(q) /\ out \o <<>> = out
<1>1. q \in Seq(Units)
  BY DEF Units
<1>. QED BY <1>1, Concat, ConcatEmpty

LEMMA AppendedTwice ==
    ASSUME NEW w \in Seq(Units), NEW P \in Seq(Byte), NEW B \in Seq(Byte)
    PROVE  w \o (P \o B) = (w \o P) \o B
<1>1. P \in Seq(Units) /\ B \in Seq(Units)
  BY Appended
<1>2. PICK U : U = Units
  OBVIOUS
<1>3. w \in Seq(U) /\ P \in Seq(U) /\ B \in Seq(U)
  BY <1>1, <1>2
<1>4. (w \o P) \o B = w \o (P \o B)
  BY <1>3, ConcatTwice, SMT
<1>. QED BY <1>4

\* t's mode is that of s, and the file, if there is one, grew behind out.
Carried(file, s, t, out, new) ==
    /\ Inside(t)
    /\ t.expected_seq = s.expected_seq /\ t.waiting_header = s.waiting_header
    /\ s.corrupt => t.corrupt
    /\ new \in Seq(Units) /\ Len(out) <= Len(new)
    /\ file = NoFile => new = out

LEMMA StoreInside ==
    ASSUME NEW file, NEW s, Inside(s), NEW data \in Seq(Byte), Len(data) <= BufferLen,
           NEW out \in Seq(Units), Store(file, s, data, out)
    PROVE  Carried(file, s, ulog', out, written')
<1>0. Len(data) \in Nat /\ Len(out) \in Nat
  OBVIOUS
<1>1. PICK room :
         /\ HasRoom(s, room, Len(data))
         /\ \/ ulog' = room /\ written' = out
            \/ \E b \in 0..Len(data) : \E x \in FlushTo(file, Filled(room, data, b)) :
                  ulog' = x.st /\ written' = out \o x.out
  <2>1. Stored(file, s, data, out)
    BY StoreCases
  <2>. QED BY <2>1, Zenon DEF Stored
<1>2. CASE ulog' = room /\ written' = out
  <2>1. Inside(room)
    BY <1>0, <1>1, RoomInside
  <2>2. Len(out) <= Len(out)
    BY <1>0
  <2>. QED BY <1>1, <1>2, <2>1, <2>2, Zenon DEF HasRoom, Carried
<1>3. ASSUME NEW b \in 0..Len(data), NEW x \in FlushTo(file, Filled(room, data, b)),
             ulog' = x.st, written' = out \o x.out
      PROVE  Carried(file, s, ulog', out, written')
  <2>1. PICK t : t = Filled(room, data, b)
    OBVIOUS
  <2>2. /\ Inside(t) /\ t.expected_seq = s.expected_seq /\ t.waiting_header = s.waiting_header
        /\ t.corrupt = s.corrupt
    <3>1. HasRoom(s, room, Len(data))
      BY <1>1
    <3>. QED BY <2>1, <3>1, FilledInside, ZenonT(30)
  <2>3. Inside(x.st) /\ SameMode(t, x.st) /\ x.out \in Seq(Byte)
    BY <1>3, <2>1, <2>2, FlushInside
  <2>4. file = NoFile => x.out = <<>>
    BY <1>3 DEF FlushTo
  <2>5. /\ out \o x.out \in Seq(Units) /\ out \o <<>> = out
        /\ Len(out \o x.out) = Len(out) + Len(x.out)
    BY <2>3, Appended
  <2>6. Len(out) <= Len(out \o x.out)
    BY <1>0, <2>3, <2>5
  <2>. QED BY <1>3, <2>2, <2>3, <2>4, <2>5, <2>6, Zenon DEF SameMode, Carried
<1>. QED BY <1>1, <1>2, <1>3, Zenon

-----------------------------------------------------------------------------
\* The buffer while a chunk is taken.

\* s after it took chunk n's number.
Taken(s, n) == [s EXCEPT !.expected_seq = (n + 1) % SeqMod, !.waiting_header = FALSE]

LEMMA TakenInside ==
    ASSUME NEW s, Inside(s), NEW n \in Nat
    PROVE  /\ Inside(Taken(s, n))
           /\ Taken(s, n).expected_seq = (n + 1) % SeqMod
           /\ Taken(s, n).waiting_header = FALSE
           /\ Taken(s, n).waiting_first_msg_offset = s.waiting_first_msg_offset
           /\ Taken(s, n).buf = s.buf /\ Taken(s, n).partial = s.partial
           /\ Taken(s, n).corrupt = s.corrupt
<1>1. s \in States
  BY DEF Inside
<1>2. PICK e \in Nat : e = (n + 1) % SeqMod
  <2>1. (n + 1) % SeqMod \in Nat
    BY Constants
  <2>. QED BY <2>1
<1>3. PICK t : t = Taken(s, n) /\ t = [s EXCEPT !.expected_seq = e, !.waiting_header = FALSE]
  BY <1>2 DEF Taken
<1>4. t \in States
  BY <1>1, <1>2, <1>3, Zenon DEF States
<1>5. /\ t.waiting_first_msg_offset = s.waiting_first_msg_offset
      /\ t.buf = s.buf /\ t.partial = s.partial /\ t.corrupt = s.corrupt /\ t.index = s.index
  BY <1>1, <1>3 DEF States
<1>6. t.expected_seq = e /\ t.waiting_header = FALSE
  BY <1>1, <1>3 DEF States
<1>. QED BY <1>2, <1>3, <1>4, <1>5, <1>6, Zenon DEF Inside

LEMMA AfterGapInside ==
    ASSUME NEW s, Inside(s)
    PROVE  /\ Inside(AfterGap(s))
           /\ AfterGap(s).expected_seq = s.expected_seq
           /\ AfterGap(s).waiting_header = s.waiting_header
           /\ AfterGap(s).waiting_first_msg_offset = TRUE
           /\ AfterGap(s).buf = <<>> /\ AfterGap(s).partial = s.partial
           /\ AfterGap(s).corrupt = s.corrupt
<1>1. s \in States
  BY DEF Inside
<1>2. PICK t : t = AfterGap(s)
  OBVIOUS
<1>3. t \in States
  <2>1. <<>> \in Seq(Byte) /\ 0 \in Nat /\ TRUE \in BOOLEAN
    OBVIOUS
  <2>. QED BY <1>1, <1>2, <2>1, Zenon DEF States, AfterGap
<1>4. /\ t.expected_seq = s.expected_seq /\ t.waiting_header = s.waiting_header
      /\ t.partial = s.partial /\ t.corrupt = s.corrupt
  BY <1>1, <1>2 DEF States, AfterGap
<1>5. t.buf = <<>> /\ t.index = 0 /\ t.waiting_first_msg_offset = TRUE
  BY <1>1, <1>2 DEF States, AfterGap
<1>6. t.index + Len(t.buf) <= BufferLen
  BY <1>5, Constants
<1>. QED BY <1>2, <1>3, <1>4, <1>5, <1>6, Zenon DEF Inside

\* s with the file header in _buffer_partial.
Headed(s, h) == [s EXCEPT !.partial = h]

LEMMA HeadedInside ==
    ASSUME NEW s, Inside(s), NEW h \in Seq(Byte), Len(h) <= PartialLen
    PROVE  /\ Inside(Headed(s, h))
           /\ Headed(s, h).expected_seq = s.expected_seq
           /\ Headed(s, h).waiting_header = s.waiting_header
           /\ Headed(s, h).waiting_first_msg_offset = s.waiting_first_msg_offset
           /\ Headed(s, h).buf = s.buf /\ Headed(s, h).partial = h
           /\ Headed(s, h).corrupt = s.corrupt
<1>1. s \in States
  BY DEF Inside
<1>2. PICK t : t = Headed(s, h)
  OBVIOUS
<1>3. t \in States
  BY <1>1, <1>2 DEF States, Headed
<1>4. /\ t.expected_seq = s.expected_seq /\ t.waiting_header = s.waiting_header
      /\ t.waiting_first_msg_offset = s.waiting_first_msg_offset
      /\ t.buf = s.buf /\ t.index = s.index /\ t.corrupt = s.corrupt /\ t.partial = h
  BY <1>1, <1>2 DEF States, Headed
<1>. QED BY <1>2, <1>3, <1>4, Zenon DEF Inside

LEMMA ChunkData ==
    ASSUME NEW n \in Chunks
    PROVE  /\ Chunk(n) \in Seq(Byte) /\ Len(Chunk(n)) = ChunkLen
           /\ SubSeq(Chunk(n), 1, HeaderLen) \in Seq(Byte)
           /\ Len(SubSeq(Chunk(n), 1, HeaderLen)) = HeaderLen
           /\ After(Chunk(n), HeaderLen) \in Seq(Byte)
           /\ Len(After(Chunk(n), HeaderLen)) = ChunkLen - HeaderLen
<1>1. PICK c \in Seq(Byte) : c = Chunk(n) /\ Len(c) = ChunkLen
  <2>1. PICK i \in Nat, j \in Nat : /\ i = n * ChunkLen /\ j = (n + 1) * ChunkLen
                                   /\ j = i + ChunkLen /\ j <= Len(StreamBytes)
                                   /\ Chunk(n) = Seg(i, j)
    BY ChunkFacts
  <2>2. i <= j /\ j - i = ChunkLen
    BY <2>1, Constants
  <2>3. Seg(i, j) \in Seq(Byte) /\ Len(Seg(i, j)) = j - i
    BY <2>1, <2>2, SegFacts, Zenon
  <2>. QED BY <2>1, <2>2, <2>3
<1>2. HeaderLen \in 0..Len(c)
  BY <1>1, Constants
<1>. QED BY <1>1, <1>2, SeqCut

\* The three ways to take a chunk.
LEMMA TakeCases ==
    ASSUME NEW file, NEW s, NEW n, NEW out, TakeChunk(file, s, n, out)
    PROVE  \/ /\ s.waiting_header
              /\ Store(file, Headed(Taken(s, n), SubSeq(Chunk(n), 1, HeaderLen)),
                       After(Chunk(n), HeaderLen), out)
           \/ /\ ~s.waiting_header /\ n % SeqMod = s.expected_seq
              /\ Store(file, Taken(s, n), Chunk(n), out)
           \/ /\ ~s.waiting_header /\ n % SeqMod # s.expected_seq
              /\ \E f \in FlushTo(file, Taken(s, n)) :
                    Store(file, AfterGap(f.st), Chunk(n), out \o f.out)
  BY Zenon DEF TakeChunk, Taken, Headed

LEMMA TakeInside ==
    ASSUME NEW file, NEW s, Inside(s), NEW n \in Chunks, NEW out \in Seq(Units),
           TakeChunk(file, s, n, out)
    PROVE  Carried(file, Taken(s, n), ulog', out, written')
<1>0. n \in Nat /\ ChunkLen <= BufferLen /\ ChunkLen - HeaderLen <= BufferLen
      /\ HeaderLen <= PartialLen
  BY ChunkFacts, Constants
<1>1. PICK t : t = Taken(s, n)
  OBVIOUS
<1>2. Inside(t)
  BY <1>0, <1>1, TakenInside, Zenon
<1>3. CASE Store(file, Headed(t, SubSeq(Chunk(n), 1, HeaderLen)),
                 After(Chunk(n), HeaderLen), out)
  <2>1. PICK u : u = Headed(t, SubSeq(Chunk(n), 1, HeaderLen))
    OBVIOUS
  <2>2. /\ Inside(u) /\ u.expected_seq = t.expected_seq /\ u.waiting_header = t.waiting_header
        /\ u.corrupt = t.corrupt
    BY <1>0, <1>2, <2>1, ChunkData, HeadedInside, Zenon
  <2>3. Carried(file, u, ulog', out, written')
    BY <1>0, <1>3, <2>1, <2>2, ChunkData, StoreInside
  <2>. QED BY <1>1, <2>2, <2>3, Zenon DEF Carried
<1>4. CASE Store(file, t, Chunk(n), out)
  BY <1>0, <1>1, <1>2, <1>4, ChunkData, StoreInside
<1>5. ASSUME NEW f \in FlushTo(file, t), Store(file, AfterGap(f.st), Chunk(n), out \o f.out)
      PROVE  Carried(file, Taken(s, n), ulog', out, written')
  <2>1. Inside(f.st) /\ SameMode(t, f.st) /\ f.out \in Seq(Byte)
    BY <1>2, <1>5, FlushInside
  <2>2. PICK u : u = AfterGap(f.st)
    OBVIOUS
  <2>3. /\ Inside(u) /\ u.expected_seq = t.expected_seq /\ u.waiting_header = t.waiting_header
        /\ t.corrupt => u.corrupt
    BY <2>1, <2>2, AfterGapInside, Zenon DEF SameMode
  <2>4. /\ out \o f.out \in Seq(Units) /\ Len(out \o f.out) = Len(out) + Len(f.out)
        /\ out \o <<>> = out
    BY <2>1, Appended
  <2>5. Carried(file, u, ulog', out \o f.out, written')
    BY <1>0, <1>5, <2>2, <2>3, <2>4, ChunkData, StoreInside, Zenon
  <2>6. file = NoFile => f.out = <<>>
    BY <1>5 DEF FlushTo
  <2>7. Len(out) <= Len(written')
    <3>1. Len(out) \in Nat /\ Len(f.out) \in Nat
      BY <2>1
    <3>2. Len(written') \in Nat /\ Len(out \o f.out) <= Len(written')
      BY <2>5 DEF Carried
    <3>. QED BY <2>4, <3>1, <3>2
  <2>. QED BY <1>1, <2>3, <2>4, <2>5, <2>6, <2>7, Zenon DEF Carried
<1>6. \/ Store(file, Headed(t, SubSeq(Chunk(n), 1, HeaderLen)), After(Chunk(n), HeaderLen), out)
      \/ Store(file, t, Chunk(n), out)
      \/ \E f \in FlushTo(file, t) : Store(file, AfterGap(f.st), Chunk(n), out \o f.out)
  BY <1>1, TakeCases
<1>. QED BY <1>1, <1>3, <1>4, <1>5, <1>6

-----------------------------------------------------------------------------
\* What is written continues the file.

\* What is at position p of the stream, with the mark for the file's beginning.
At(p) == IF p = 0 THEN <<-1, 0>> ELSE StreamBytes[p]

Linked(w) == \A i \in 1..(Len(w) - 1) : Follows(w[i], w[i + 1])

\* w is in order and ends with position p.
Chain(w, p) ==
    /\ w \in Seq(Units) /\ Len(w) >= 1
    /\ p \in 0..Len(StreamBytes) /\ w[Len(w)] = At(p)
    /\ Linked(w)

LEMMA AtUnits == \A p \in 0..Len(StreamBytes) : At(p) \in Units
<1>1. ASSUME NEW p \in 0..Len(StreamBytes), p # 0 PROVE StreamBytes[p] \in Byte
  <2>1. p \in 1..Len(StreamBytes)
    BY <1>1, StreamFacts
  <2>. QED BY <2>1, StreamFacts
<1>. QED BY <1>1 DEF At, Units

\* The stream itself is in order.
LEMMA StreamFollows ==
    ASSUME NEW i \in Nat, i < Len(StreamBytes)
    PROVE  Follows(At(i), At(i + 1))
<1>1. Len(StreamBytes) \in Nat
  BY StreamFacts
<1>2. CASE i = 0
  <2>1. 1 \in 1..HeaderLen
    BY Constants
  <2>2. StreamBytes[1] = <<0, 1>>
    BY <2>1, StreamFacts
  <2>. QED BY <1>2, <2>2 DEF At, Follows
<1>3. CASE i # 0
  <2>1. i \in 1..(Len(StreamBytes) - 1) /\ i \in 1..Len(StreamBytes)
    BY <1>1, <1>3
  <2>2. PICK m, k : IsByte(i, m, k)
    BY <2>1, StreamByte
  <2>3. PICK b : b = StreamBytes[i + 1] /\ IF EndsAt(i) THEN b = <<m + 1, 1>> ELSE b = <<m, k + 1>>
    <3>1. StreamBytes[i][1] = m /\ StreamBytes[i][2] = k
      BY <2>2 DEF IsByte
    <3>2. IF EndsAt(i) THEN StreamBytes[i + 1] = <<StreamBytes[i][1] + 1, 1>>
          ELSE StreamBytes[i + 1] = <<StreamBytes[i][1], StreamBytes[i][2] + 1>>
      BY <2>1, NextByte
    <3>. QED BY <3>1, <3>2, Zenon
  <2>4. At(i) = <<m, k>> /\ At(i + 1) = b /\ m \in Nat /\ k \in Nat /\ (EndsAt(i) => k = SizeOf(m))
    BY <1>3, <2>2, <2>3 DEF At, IsByte
  <2>5. CASE EndsAt(i)
    BY <2>3, <2>4, <2>5 DEF Follows
  <2>6. CASE ~EndsAt(i)
    BY <2>3, <2>4, <2>6 DEF Follows
  <2>. QED BY <2>5, <2>6
<1>. QED BY <1>2, <1>3

\* A message may follow the end of any earlier one.
LEMMA LaterFollows ==
    ASSUME NEW q \in Nat, NEW i \in Nat, q >= 1, q <= i, i < Len(StreamBytes),
           EndsAt(q), EndsAt(i)
    PROVE  Follows(At(q), At(i + 1))
<1>1. /\ Len(StreamBytes) \in Nat /\ q \in 1..Len(StreamBytes)
      /\ i \in 1..(Len(StreamBytes) - 1) /\ i \in 1..Len(StreamBytes)
      /\ i + 1 \in 1..Len(StreamBytes) /\ q < i + 1 /\ q # 0 /\ i + 1 # 0
  BY StreamFacts
<1>2. PICK m, k : IsByte(q, m, k)
  BY <1>1, StreamByte
<1>3. PICK m1, k1 : IsByte(i + 1, m1, k1)
  BY <1>1, StreamByte
<1>4. At(q) = <<m, k>> /\ At(i + 1) = <<m1, k1>> /\ k = SizeOf(m)
  BY <1>1, <1>2, <1>3 DEF At, IsByte
<1>5. k1 = 1
  <2>1. StreamBytes[i + 1] = <<StreamBytes[i][1] + 1, 1>>
    BY <1>1, NextByte
  <2>. QED BY <1>3, <2>1 DEF IsByte
<1>6. Behind(q, i + 1)
  BY <1>1, StreamOrder
<1>7. m1 > m \/ (m1 = m /\ k1 > k)
  <2>1. /\ StreamBytes[q][1] = m /\ StreamBytes[q][2] = k
        /\ StreamBytes[i + 1][1] = m1 /\ StreamBytes[i + 1][2] = k1
    BY <1>2, <1>3 DEF IsByte
  <2>. QED BY <1>6, <2>1, Zenon DEF Behind
<1>8. m1 > m
  BY <1>2, <1>5, <1>7 DEF IsByte
<1>. QED BY <1>4, <1>5, <1>8 DEF Follows

\* Writing the bytes behind i up to j.
LEMMA ChainGrows ==
    ASSUME NEW w, NEW q \in Nat, Chain(w, q),
           NEW i \in Nat, NEW j \in Nat, i <= j, j <= Len(StreamBytes),
           q = i \/ (q >= 1 /\ q <= i /\ EndsAt(q) /\ EndsAt(i))
    PROVE  Chain(w \o Seg(i, j), IF i = j THEN q ELSE j)
<1>0. w \in Seq(Units) /\ Len(w) \in Nat /\ Len(w) >= 1 /\ Len(StreamBytes) \in Nat
  BY StreamFacts DEF Chain
<1>1. PICK g \in Seq(Byte) : /\ g = Seg(i, j) /\ Len(g) = j - i
                             /\ \A k \in 1..(j - i) : g[k] = StreamBytes[i + k]
                             /\ (g = <<>>) <=> (i = j)
  BY SegFacts, Zenon
<1>2. CASE i = j
  <2>1. w \o g = w
    BY <1>0, <1>1, <1>2, Appended
  <2>. QED BY <1>1, <1>2, <2>1
<1>3. CASE i < j
  <2>1. PICK v \in Seq(Units) : v = w \o g /\ g \in Seq(Units) /\ Len(v) = Len(w) + (j - i)
    BY <1>0, <1>1, Appended, ZenonT(30)
  <2>2. /\ \A x \in 1..Len(w) : v[x] = w[x]
        /\ \A k \in 1..(j - i) : v[Len(w) + k] = StreamBytes[i + k]
    <3>1. /\ \A x \in 1..Len(w) : (w \o g)[x] = w[x]
          /\ \A k \in 1..Len(g) : (w \o g)[Len(w) + k] = g[k]
      BY <1>0, <2>1, Joined
    <3>. QED BY <1>1, <2>1, <3>1, Zenon
  <2>3. \A k \in 1..(j - i) : v[Len(w) + k] = At(i + k)
    BY <2>2 DEF At
  <2>4. ASSUME NEW x \in 1..(Len(v) - 1) PROVE Follows(v[x], v[x + 1])
    <3>1. CASE x < Len(w)
      <4>1. x \in 1..(Len(w) - 1) /\ x \in 1..Len(w) /\ x + 1 \in 1..Len(w)
        BY <1>0, <3>1
      <4>2. Follows(w[x], w[x + 1])
        BY <4>1 DEF Chain, Linked
      <4>. QED BY <2>2, <4>1, <4>2
    <3>2. CASE x = Len(w)
      <4>1. v[x] = At(q)
        BY <1>0, <2>2, <3>2 DEF Chain
      <4>2. v[x + 1] = At(i + 1)
        <5>1. 1 \in 1..(j - i)
          BY <1>3
        <5>. QED BY <2>3, <3>2, <5>1
      <4>3. Follows(At(q), At(i + 1))
        <5>1. i < Len(StreamBytes)
          BY <1>0, <1>3
        <5>. QED BY <5>1, StreamFollows, LaterFollows
      <4>. QED BY <4>1, <4>2, <4>3
    <3>3. CASE x > Len(w)
      <4>1. PICK k \in 1..(j - i) : /\ x = Len(w) + k /\ x + 1 = Len(w) + (k + 1)
                                    /\ k + 1 \in 1..(j - i)
        <5>1. /\ x - Len(w) \in 1..(j - i) /\ x = Len(w) + (x - Len(w))
              /\ x + 1 = Len(w) + ((x - Len(w)) + 1) /\ (x - Len(w)) + 1 \in 1..(j - i)
          BY <1>0, <2>1, <3>3
        <5>. QED BY <5>1, Zenon
      <4>2. v[x] = At(i + k) /\ v[x + 1] = At(i + (k + 1))
        BY <2>3, <4>1, Zenon
      <4>3. i + k \in Nat /\ i + k < Len(StreamBytes) /\ (i + k) + 1 = i + (k + 1)
        BY <1>0, <4>1
      <4>4. Follows(At(i + k), At((i + k) + 1))
        BY <4>3, StreamFollows
      <4>. QED BY <4>2, <4>3, <4>4
    <3>. QED BY <1>0, <2>1, <3>1, <3>2, <3>3, SMTT(30)
  <2>5. v[Len(v)] = At(j)
    <3>1. j - i \in 1..(j - i) /\ i + (j - i) = j
      BY <1>3
    <3>. QED BY <2>1, <2>3, <3>1, Zenon
  <2>6. Len(v) >= 1 /\ j \in 0..Len(StreamBytes) /\ i # j
    BY <1>0, <1>3, <2>1
  <2>. QED BY <1>1, <2>1, <2>4, <2>5, <2>6, Zenon DEF Chain, Linked
<1>. QED BY <1>2, <1>3

\* Where the bytes of s are in the stream, when e bytes of it have arrived: the
\* rest of a message from p to z, and from a on those that were not yet written.
Placed(s, e, p, z, a) ==
    /\ p \in Nat /\ z \in Nat /\ a \in Nat /\ e \in Nat
    /\ z >= 1 /\ p <= z /\ z <= a /\ a <= e /\ e <= Len(StreamBytes)
    /\ s.partial = Seg(p, z) /\ s.buf = Seg(a, e)
    /\ EndsAt(z)
    /\ IF s.waiting_first_msg_offset THEN a = e ELSE EndsAt(a)

\* The bytes of s continue what was written, w.
Orderly(s, w, e) == \E p, z, a : Chain(w, p) /\ Placed(s, e, p, z, a)


LEMMA FlushedInside ==
    ASSUME NEW s, Inside(s), NEW l \in 0..Len(s.buf)
    PROVE  Inside(Flushed(s, l))
<1>1. <<>> \in Seq(Byte) /\ Len(<<>>) <= PartialLen
  BY Constants
<1>. QED BY <1>1, ConsumeInside, Zenon DEF Flushed

\* Part of the rest of a message is written.
LEMMA FlushRest ==
    ASSUME NEW s, Inside(s), NEW w, NEW e, NEW p, NEW z, NEW a,
           Chain(w, p), Placed(s, e, p, z, a),
           NEW l \in 0..(Len(s.partial) - 1)
    PROVE  Orderly(Continued(s, l), w \o SubSeq(s.partial, 1, l), e)
<1>a. /\ p \in Nat /\ z \in Nat /\ a \in Nat /\ e \in Nat /\ Len(StreamBytes) \in Nat
      /\ z >= 1 /\ p <= z /\ z <= a /\ a <= e /\ e <= Len(StreamBytes)
      /\ s.partial = Seg(p, z) /\ s.buf = Seg(a, e) /\ EndsAt(z)
  BY StreamFacts, Zenon DEF Placed
<1>b. /\ Seg(p, z) \in Seq(Byte) /\ Len(Seg(p, z)) = z - p
      /\ Seg(a, e) \in Seq(Byte) /\ Len(Seg(a, e)) = e - a
      /\ \A k \in 1..(e - a) : Seg(a, e)[k] = StreamBytes[a + k]
  <2>1. z <= e
    BY <1>a, AtMostTrans, Zenon
  <2>2. z <= Len(StreamBytes)
    BY <1>a, <2>1, AtMostTrans, Zenon
  <2>3. Seg(p, z) \in Seq(Byte) /\ Len(Seg(p, z)) = z - p
    BY <1>a, <2>2, SegFacts, ZenonT(30)
  <2>4. /\ Seg(a, e) \in Seq(Byte) /\ Len(Seg(a, e)) = e - a
        /\ \A k \in 1..(e - a) : Seg(a, e)[k] = StreamBytes[a + k]
    BY <1>a, SegFacts, ZenonT(30)
  <2>. QED BY <2>3, <2>4, Zenon
<1>c. s \in States /\ s.waiting_first_msg_offset \in BOOLEAN
  BY DEF Inside, States
<1>1. l \in 0..(z - p) /\ p + l \in Nat /\ p + l <= z /\ p + l <= Len(StreamBytes) /\ p <= p + l
  BY <1>a, <1>b
<1>2. SubSeq(s.partial, 1, l) = Seg(p, p + l) /\ After(s.partial, l) = Seg(p + l, z)
  <2>1. z <= Len(StreamBytes)
    BY <1>a
  <2>2. SubSeq(Seg(p, z), 1, l) = Seg(p, p + l) /\ After(Seg(p, z), l) = Seg(p + l, z)
    BY <1>a, <1>1, <2>1, SegCut
  <2>. QED BY <1>a, <2>2
<1>3. Chain(w \o Seg(p, p + l), p + l)
  <2>1. Chain(w \o Seg(p, p + l), IF p = p + l THEN p ELSE p + l)
    BY <1>a, <1>1, ChainGrows
  <2>. QED BY <2>1
<1>4. PICK t : t = Continued(s, l)
  OBVIOUS
<1>5. /\ t.partial = Seg(p + l, z) /\ t.buf = s.buf
      /\ t.waiting_first_msg_offset = s.waiting_first_msg_offset
  BY <1>c, <1>2, <1>4 DEF Continued, States
<1>6. Placed(t, e, p + l, z, a)
  BY <1>a, <1>1, <1>5 DEF Placed
<1>. QED BY <1>2, <1>3, <1>4, <1>6, Zenon DEF Orderly

\* The rest of a message and whole messages behind it are written.
LEMMA FlushWhole ==
    ASSUME NEW s, Inside(s), NEW w, NEW e, NEW p, NEW z, NEW a,
           Chain(w, p), Placed(s, e, p, z, a),
           NEW l \in 0..Len(s.buf), IsWhole(s.buf, l)
    PROVE  \E q \in Nat :
              /\ Chain(w \o (s.partial \o SubSeq(s.buf, 1, l)), q)
              /\ Placed(Flushed(s, l), e, q, q, a + l)
              /\ ~s.waiting_first_msg_offset => EndsAt(a + l)
<1>a. /\ p \in Nat /\ z \in Nat /\ a \in Nat /\ e \in Nat /\ Len(StreamBytes) \in Nat
      /\ z >= 1 /\ p <= z /\ z <= a /\ a <= e /\ e <= Len(StreamBytes)
      /\ s.partial = Seg(p, z) /\ s.buf = Seg(a, e) /\ EndsAt(z)
  BY StreamFacts, Zenon DEF Placed
<1>b. /\ Seg(p, z) \in Seq(Byte) /\ Len(Seg(p, z)) = z - p
      /\ Seg(a, e) \in Seq(Byte) /\ Len(Seg(a, e)) = e - a
      /\ \A k \in 1..(e - a) : Seg(a, e)[k] = StreamBytes[a + k]
  <2>1. z <= e
    BY <1>a, AtMostTrans, Zenon
  <2>2. z <= Len(StreamBytes)
    BY <1>a, <2>1, AtMostTrans, Zenon
  <2>3. Seg(p, z) \in Seq(Byte) /\ Len(Seg(p, z)) = z - p
    BY <1>a, <2>2, SegFacts, ZenonT(30)
  <2>4. /\ Seg(a, e) \in Seq(Byte) /\ Len(Seg(a, e)) = e - a
        /\ \A k \in 1..(e - a) : Seg(a, e)[k] = StreamBytes[a + k]
    BY <1>a, SegFacts, ZenonT(30)
  <2>. QED BY <2>3, <2>4, Zenon
<1>c. s \in States /\ s.waiting_first_msg_offset \in BOOLEAN
  BY DEF Inside, States
<1>1. l \in 0..(e - a) /\ a + l \in Nat /\ a + l <= e /\ a + l <= Len(StreamBytes) /\ a <= a + l
  <2>1. l \in 0..(e - a)
    BY <1>a, <1>b, Zenon
  <2>. QED BY <1>a, <2>1, StepsInto, Zenon
<1>2. SubSeq(s.buf, 1, l) = Seg(a, a + l) /\ After(s.buf, l) = Seg(a + l, e)
  <2>1. SubSeq(Seg(a, e), 1, l) = Seg(a, a + l) /\ After(Seg(a, e), l) = Seg(a + l, e)
    BY <1>a, <1>1, SegCut
  <2>. QED BY <1>a, <2>1
<1>3. PICK P \in Seq(Byte), B \in Seq(Byte) : P = Seg(p, z) /\ B = Seg(a, a + l)
  BY <1>a, <1>b, <1>1, SegFacts
<1>4. Chain(w \o P, z)
  <2>1. z <= Len(StreamBytes)
    BY <1>a
  <2>2. Chain(w \o P, IF p = z THEN p ELSE z)
    BY <1>a, <1>3, <2>1, ChainGrows
  <2>. QED BY <2>2
<1>5. w \o (P \o B) = (w \o P) \o B
  <2>1. w \in Seq(Units)
    BY DEF Chain
  <2>. QED BY <1>3, <2>1, AppendedTwice
<1>6. ~s.waiting_first_msg_offset => EndsAt(a) /\ EndsAt(a + l)
  <2>1. ~s.waiting_first_msg_offset => EndsAt(a)
    BY DEF Placed
  <2>2. l # 0 => EndsAt(a + l)
    <3>1. l # 0 => l \in 1..(e - a)
      BY <1>1
    <3>2. l # 0 => s.buf[l][2] = SizeOf(s.buf[l][1])
      BY DEF IsWhole
    <3>. QED BY <1>a, <1>b, <3>1, <3>2 DEF EndsAt
  <2>3. l = 0 => a + l = a
    BY <1>a
  <2>. QED BY <2>1, <2>2, <2>3
<1>7. s.waiting_first_msg_offset => a = e /\ l = 0 /\ a + l = a
  <2>1. s.waiting_first_msg_offset => a = e
    BY DEF Placed
  <2>. QED BY <1>a, <1>1, <2>1
<1>8. PICK q \in Nat : /\ Chain((w \o P) \o B, q) /\ EndsAt(q) /\ q >= 1 /\ q <= a + l
  <2>1. CASE l = 0
    <3>1. a + l = a /\ B = <<>>
      <4>1. a + l = a
        BY <1>a, <2>1
      <4>. QED BY <1>a, <1>3, <4>1, SegFacts
    <3>2. (w \o P) \o B = w \o P
      BY <1>4, <3>1, Appended DEF Chain
    <3>. QED BY <1>a, <1>4, <3>1, <3>2
  <2>2. CASE l # 0
    <3>1. ~s.waiting_first_msg_offset /\ a # a + l /\ EndsAt(a) /\ EndsAt(a + l)
      <4>1. a # a + l
        <5>1. l \in Nat
          BY <1>1
        <5>. QED BY <1>a, <2>2, <5>1, MovesOn, Zenon
      <4>2. ~s.waiting_first_msg_offset
        BY <1>7, <2>2, Zenon
      <4>. QED BY <1>6, <4>1, <4>2, Zenon
    <3>2. Chain((w \o P) \o B, IF a = a + l THEN z ELSE a + l)
      BY <1>a, <1>1, <1>3, <1>4, <3>1, ChainGrows
    <3>3. Chain((w \o P) \o B, a + l)
      BY <3>1, <3>2, Zenon
    <3>4. 1 <= a /\ a + l >= 1 /\ a + l <= a + l
      BY <1>a, <1>1
    <3>. QED BY <1>1, <3>1, <3>3, <3>4, Zenon
  <2>. QED BY <2>1, <2>2
<1>9. PICK t : t = Flushed(s, l)
  OBVIOUS
<1>10. /\ t.partial = <<>> /\ t.buf = Seg(a + l, e)
       /\ t.waiting_first_msg_offset = s.waiting_first_msg_offset
  BY <1>c, <1>2, <1>9 DEF Flushed, Consume, States
<1>11. Seg(q, q) = <<>>
  <2>1. q <= Len(StreamBytes) /\ q <= q
    BY <1>a, <1>1, <1>8
  <2>. QED BY <2>1, SegFacts
<1>12. IF s.waiting_first_msg_offset THEN a + l = e ELSE EndsAt(a + l)
  BY <1>6, <1>7
<1>13. Placed(t, e, q, q, a + l)
  <2>1. q <= q
    BY <1>8, AtMostSelf, Zenon
  <2>2. IF t.waiting_first_msg_offset THEN a + l = e ELSE EndsAt(a + l)
    BY <1>10, <1>12, Zenon
  <2>. QED BY <1>a, <1>1, <1>8, <1>10, <1>11, <2>1, <2>2, Zenon DEF Placed
<1>14. w \o (s.partial \o SubSeq(s.buf, 1, l)) = (w \o P) \o B
  BY <1>a, <1>2, <1>3, <1>5, Zenon
<1>. QED BY <1>6, <1>8, <1>9, <1>13, <1>14, Zenon

\* ... and then part of a message.
LEMMA FlushPart ==
    ASSUME NEW s, Inside(s), NEW w, NEW e, NEW p, NEW z, NEW a,
           Chain(w, p), Placed(s, e, p, z, a),
           NEW l \in 0..Len(s.buf), IsWhole(s.buf, l), NEW y \in FlushParts(Flushed(s, l))
    PROVE  y.st.corrupt \/ Orderly(y.st, w \o ((s.partial \o SubSeq(s.buf, 1, l)) \o y.out), e)
<1>a. /\ p \in Nat /\ z \in Nat /\ a \in Nat /\ e \in Nat /\ Len(StreamBytes) \in Nat
      /\ z >= 1 /\ p <= z /\ z <= a /\ a <= e /\ e <= Len(StreamBytes)
      /\ s.partial = Seg(p, z) /\ s.buf = Seg(a, e) /\ EndsAt(z)
  BY StreamFacts, Zenon DEF Placed
<1>b. /\ Seg(p, z) \in Seq(Byte) /\ Len(Seg(p, z)) = z - p
      /\ Seg(a, e) \in Seq(Byte) /\ Len(Seg(a, e)) = e - a
      /\ \A k \in 1..(e - a) : Seg(a, e)[k] = StreamBytes[a + k]
  <2>1. z <= e
    BY <1>a, AtMostTrans, Zenon
  <2>2. z <= Len(StreamBytes)
    BY <1>a, <2>1, AtMostTrans, Zenon
  <2>3. Seg(p, z) \in Seq(Byte) /\ Len(Seg(p, z)) = z - p
    BY <1>a, <2>2, SegFacts, ZenonT(30)
  <2>4. /\ Seg(a, e) \in Seq(Byte) /\ Len(Seg(a, e)) = e - a
        /\ \A k \in 1..(e - a) : Seg(a, e)[k] = StreamBytes[a + k]
    BY <1>a, SegFacts, ZenonT(30)
  <2>. QED BY <2>3, <2>4, Zenon
<1>c. s \in States /\ s.waiting_first_msg_offset \in BOOLEAN
  BY DEF Inside, States
<1>1. PICK t, pre : t = Flushed(s, l) /\ pre = s.partial \o SubSeq(s.buf, 1, l)
  OBVIOUS
<1>2. PICK q \in Nat, b \in Nat :
         /\ Chain(w \o pre, q) /\ Placed(t, e, q, q, b)
         /\ b = a + l /\ (~s.waiting_first_msg_offset => EndsAt(b))
  <2>1. l \in 0..(e - a)
    BY <1>a, <1>b, Zenon
  <2>2. a + l \in Nat
    BY <1>a, <2>1, StepsInto, Zenon
  <2>3. PICK q \in Nat :
           /\ Chain(w \o pre, q) /\ Placed(t, e, q, q, a + l)
           /\ ~s.waiting_first_msg_offset => EndsAt(a + l)
    BY FlushWhole, <1>1, Zenon
  <2>. QED BY <2>2, <2>3, Zenon
<1>3. /\ t.buf = Seg(b, e) /\ b <= e /\ q >= 1 /\ q <= b /\ EndsAt(q)
      /\ IF t.waiting_first_msg_offset THEN b = e ELSE EndsAt(b)
  BY <1>2 DEF Placed
<1>4. /\ Seg(b, e) \in Seq(Byte) /\ Len(Seg(b, e)) = e - b
      /\ \A k \in 1..(e - b) : Seg(b, e)[k] = StreamBytes[b + k]
  BY <1>a, <1>3, SegFacts, ZenonT(30)
<1>5. PICK n : n = SizeOf(t.buf[1][1])
  OBVIOUS
<1>6. /\ HasMessage(t.buf)
      /\ \E r \in 1..(n - 1) : y = [st |-> Cut(t, n, r), out |-> SubSeq(t.buf, 1, r)]
  BY <1>1, <1>5, PartsCases, Zenon
<1>7. PICK r \in 1..(n - 1) : y = [st |-> Cut(t, n, r), out |-> SubSeq(t.buf, 1, r)]
  BY <1>6, Zenon
<1>8. b < e /\ b # e /\ EndsAt(b) /\ 1 \in 1..(e - b)
  <2>1. t.buf # <<>>
    BY <1>6 DEF HasMessage
  <2>2. b # e
    <3>1. Seg(b, e) = <<>> <=> b = e
      BY <1>a, <1>3, SegFacts, Zenon
    <3>. QED BY <1>3, <2>1, <3>1, Zenon
  <2>3. b <= e /\ e \in Nat
    BY <1>a, <1>3, Zenon
  <2>4. b < e /\ 1 \in 1..(e - b)
    BY <2>2, <2>3, NotYetAt, Zenon
  <2>. QED BY <1>3, <2>2, <2>4, Zenon
<1>9. StreamBytes[b + 1][2] = 1 /\ n = SizeOf(StreamBytes[b + 1][1]) /\ b + 1 \in 1..Len(StreamBytes)
  <2>1. b \in 1..(Len(StreamBytes) - 1) /\ b + 1 \in 1..Len(StreamBytes)
    <3>1. 1 <= b
      BY <1>3, PositiveUp, Zenon
    <3>. QED BY <1>a, <1>8, <3>1, NextIsThere, Zenon
  <2>2. StreamBytes[b + 1] = <<StreamBytes[b][1] + 1, 1>>
    BY <1>8, <2>1, NextByte
  <2>3. t.buf[1] = StreamBytes[b + 1]
    BY <1>3, <1>4, <1>8
  <2>. QED BY <1>5, <2>1, <2>2, <2>3
<1>10. n \in Nat \ {0} /\ n <= e - b /\ b + n <= e /\ b + n <= Len(StreamBytes)
  <2>1. n \in Nat \ {0}
    <3>1. PICK m, k : IsByte(b + 1, m, k)
      BY <1>9, StreamByte
    <3>. QED BY <1>9, <3>1 DEF IsByte
  <2>2. n <= e - b
    <3>1. Len(t.buf) >= n /\ Len(t.buf) = e - b
      BY <1>3, <1>4, <1>5, <1>6, Zenon DEF HasMessage
    <3>2. Len(t.buf) >= n => n <= Len(t.buf)
      <4>1. Len(t.buf) \in Nat /\ n \in Nat
        BY <1>a, <1>8, <2>1, <3>1
      <4>. QED BY <4>1
    <3>. QED BY <3>1, <3>2, Zenon
  <2>3. n \in Nat
    BY <2>1, Zenon
  <2>4. b + n <= e /\ b + n <= Len(StreamBytes)
    BY <1>a, <2>2, <2>3, FitsBefore, Zenon
  <2>. QED BY <2>1, <2>2, <2>4, Zenon
<1>11. EndsAt(b + n)
  BY <1>9, <1>10, WholeMessage
<1>12. /\ r \in 0..(e - b) /\ n \in r..(e - b) /\ n \in 0..(e - b) /\ b # b + r
       /\ b + r \in Nat /\ b + n \in Nat /\ b + r <= b + n /\ b <= b + r
       /\ b + r <= Len(StreamBytes) /\ b + n >= 1
  BY <1>a, <1>10
<1>13. /\ SubSeq(t.buf, 1, r) = Seg(b, b + r)
       /\ SubSeq(t.buf, r + 1, n) = Seg(b + r, b + n)
       /\ After(t.buf, n) = Seg(b + n, e)
  <2>1. /\ SubSeq(Seg(b, e), 1, r) = Seg(b, b + r)
        /\ After(Seg(b, e), n) = Seg(b + n, e)
    BY <1>a, <1>3, <1>12, SegCut, ZenonT(30)
  <2>2. SubSeq(Seg(b, e), r + 1, n) = Seg(b + r, b + n)
    <3>1. r \in 0..n
      BY <1>10
    <3>2. b <= e /\ e \in Nat /\ e <= Len(StreamBytes) /\ n \in 0..(e - b)
      BY <1>a, <1>3, <1>12, Zenon
    <3>. QED BY <3>1, <3>2, SegMiddle, ZenonT(60)
  <2>. QED BY <1>3, <2>1, <2>2
<1>14. Chain((w \o pre) \o Seg(b, b + r), b + r)
  <2>1. Chain((w \o pre) \o Seg(b, b + r), IF b = b + r THEN q ELSE b + r)
    BY <1>2, <1>3, <1>8, <1>12, ChainGrows
  <2>. QED BY <1>12, <2>1
<1>15. w \o (pre \o Seg(b, b + r)) = (w \o pre) \o Seg(b, b + r)
  <2>1. PICK P \in Seq(Byte), B \in Seq(Byte) : P = pre /\ B = Seg(b, b + r)
    <3>1. SubSeq(s.buf, 1, l) \in Seq(Byte)
      BY <1>a, <1>b, SeqCut
    <3>2. pre \in Seq(Byte)
      BY <1>a, <1>b, <1>1, <3>1, Concat
    <3>3. Seg(b, b + r) \in Seq(Byte)
      BY <1>12, SegFacts
    <3>. QED BY <3>2, <3>3
  <2>2. w \in Seq(Units)
    BY DEF Chain
  <2>3. w \o (P \o B) = (w \o P) \o B
    BY <2>1, <2>2, AppendedTwice
  <2>. QED BY <2>1, <2>3
<1>16. y.st = Cut(t, n, r) /\ pre \o y.out = pre \o Seg(b, b + r)
  BY <1>1, <1>7, <1>13, Zenon
<1>17. t \in States
  <2>1. Inside(t) 
    BY <1>1, FlushedInside
  <2>. QED BY <2>1 DEF Inside
<1>18. CASE n - r > PartialLen
  <2>1. y.st = [t EXCEPT !.corrupt = TRUE]
    BY <1>16, <1>18 DEF Cut
  <2>. QED BY <1>17, <2>1 DEF States
<1>19. CASE ~(n - r > PartialLen)
  <2>1. PICK u : u = y.st /\ u = [Consume(t, n) EXCEPT !.partial = Seg(b + r, b + n)]
    BY <1>13, <1>16, <1>19, Zenon DEF Cut
  <2>2. /\ u.partial = Seg(b + r, b + n) /\ u.buf = Seg(b + n, e)
        /\ u.waiting_first_msg_offset = t.waiting_first_msg_offset
    BY <1>13, <1>17, <2>1 DEF Consume, States
  <2>3. ~t.waiting_first_msg_offset
    BY <1>3, <1>8
  <2>4. Placed(u, e, b + r, b + n, b + n)
    <3>1. b + n <= b + n
      BY <1>12, AtMostSelf, Zenon
    <3>. QED BY <1>a, <1>10, <1>11, <1>12, <2>2, <2>3, <3>1, Zenon DEF Placed
  <2>5. Chain(w \o (pre \o y.out), b + r)
    BY <1>14, <1>15, <1>16, Zenon
  <2>6. Placed(y.st, e, b + r, b + n, b + n)
    BY <2>1, <2>4
  <2>. QED BY <1>1, <2>5, <2>6, Zenon DEF Orderly
<1>. QED BY <1>18, <1>19

LEMMA FlushOrderly ==
    ASSUME NEW s, Inside(s), NEW w, NEW e, Orderly(s, w, e), NEW x \in LoggingFlush(s)
    PROVE  x.st.corrupt \/ Orderly(x.st, w \o x.out, e)
<1>1. PICK p, z, a : Chain(w, p) /\ Placed(s, e, p, z, a)
  BY DEF Orderly
<1>2. ASSUME NEW l \in 0..(Len(s.partial) - 1),
             x = [st |-> Continued(s, l), out |-> SubSeq(s.partial, 1, l)]
      PROVE  Orderly(x.st, w \o x.out, e)
  <2>1. x.st = Continued(s, l) /\ x.out = SubSeq(s.partial, 1, l)
    BY <1>2, Zenon
  <2>. QED BY <1>1, <2>1, FlushRest, Zenon
<1>3. ASSUME NEW l \in 0..Len(s.buf), IsWhole(s.buf, l),
             x = [st |-> Flushed(s, l), out |-> s.partial \o SubSeq(s.buf, 1, l)]
      PROVE  Orderly(x.st, w \o x.out, e)
  <2>1. x.st = Flushed(s, l) /\ x.out = s.partial \o SubSeq(s.buf, 1, l)
    BY <1>3, Zenon
  <2>2. PICK q \in Nat : /\ Chain(w \o (s.partial \o SubSeq(s.buf, 1, l)), q)
                         /\ Placed(Flushed(s, l), e, q, q, a + l)
    BY <1>1, <1>3, FlushWhole, Zenon
  <2>. QED BY <2>1, <2>2, Zenon DEF Orderly
<1>4. ASSUME NEW l \in 0..Len(s.buf), IsWhole(s.buf, l), NEW y \in FlushParts(Flushed(s, l)),
             x = [st |-> y.st, out |-> (s.partial \o SubSeq(s.buf, 1, l)) \o y.out]
      PROVE  x.st.corrupt \/ Orderly(x.st, w \o x.out, e)
  <2>1. x.st = y.st /\ x.out = (s.partial \o SubSeq(s.buf, 1, l)) \o y.out
    BY <1>4, Zenon
  <2>. QED BY <1>1, <1>4, <2>1, FlushPart, Zenon
<1>. QED BY <1>2, <1>3, <1>4, FlushCases, Zenon

LEMMA StoreOrderly ==
    ASSUME NEW file, file # NoFile, NEW s, Inside(s), NEW out, NEW e, Orderly(s, out, e),
           NEW d \in Nat, NEW f \in Nat, e <= d, d <= f, f <= Len(StreamBytes),
           ~s.waiting_first_msg_offset => d = e,
           f - d <= BufferLen, Store(file, s, Seg(d, f), out)
    PROVE  ulog'.corrupt \/ Orderly(ulog', written', f)
<1>1. PICK p, z, a : Chain(out, p) /\ Placed(s, e, p, z, a)
  BY DEF Orderly
<1>2. /\ p \in Nat /\ z \in Nat /\ a \in Nat /\ e \in Nat /\ Len(StreamBytes) \in Nat
      /\ z >= 1 /\ p <= z /\ z <= a /\ a <= e /\ e <= Len(StreamBytes)
      /\ s.partial = Seg(p, z) /\ s.buf = Seg(a, e) /\ EndsAt(z)
      /\ IF s.waiting_first_msg_offset THEN a = e ELSE EndsAt(a)
  BY <1>1, StreamFacts, Zenon DEF Placed
<1>3. PICK data \in Seq(Byte) :
         /\ data = Seg(d, f) /\ Len(data) = f - d
         /\ \A k \in 1..(f - d) : data[k] = StreamBytes[d + k]
         /\ (data = <<>>) <=> (d = f)
  BY SegFacts
<1>4. Stored(file, s, data, out)
  <2>1. Len(data) <= BufferLen /\ Store(file, s, data, out)
    BY <1>3
  <2>. QED BY <2>1, StoreCases
<1>5. PICK room :
         /\ HasRoom(s, room, Len(data))
         /\ \/ ulog' = room /\ written' = out /\ room.waiting_first_msg_offset = TRUE
            \/ /\ data = <<>> /\ room.waiting_first_msg_offset = FALSE
               /\ ulog' = room /\ written' = out
            \/ \E b \in 0..Len(data) :
                  /\ \/ room.waiting_first_msg_offset = FALSE /\ b = 0
                     \/ /\ room.waiting_first_msg_offset = TRUE
                        /\ b + 1 \in 1..Len(data) /\ data[b + 1][2] = 1
                  /\ \E x \in FlushTo(file, Filled(room, data, b)) :
                        ulog' = x.st /\ written' = out \o x.out
  BY <1>4, Zenon DEF Stored
<1>6. /\ HasRoom(s, room, Len(data)) /\ room.partial = Seg(p, z)
      /\ room.waiting_first_msg_offset \in BOOLEAN
  BY <1>2, <1>5 DEF HasRoom, States
<1>7. ASSUME room.waiting_first_msg_offset = TRUE PROVE room.buf = <<>>
  <2>1. CASE room.buf = s.buf /\ s.waiting_first_msg_offset
    <3>1. a = e /\ a <= e
      BY <1>2, <2>1
    <3>. QED BY <1>2, <2>1, <3>1, SegFacts
  <2>. QED BY <1>6, <1>7, <2>1 DEF HasRoom
<1>8. ASSUME room.waiting_first_msg_offset = FALSE
      PROVE  room.buf = Seg(a, e) /\ d = e /\ EndsAt(a)
  BY <1>2, <1>6, <1>8 DEF HasRoom
<1>9. CASE ulog' = room /\ written' = out /\ room.waiting_first_msg_offset = TRUE
  <2>1. room.buf = Seg(f, f)
    <3>1. f <= f
      OBVIOUS
    <3>. QED BY <1>7, <1>9, <3>1, SegFacts, Zenon
  <2>2. Placed(room, f, p, z, f)
    <3>1. z <= e
      BY <1>2, AtMostTrans, Zenon
    <3>2. z <= f /\ f <= f
      BY <1>2, <3>1, AtMostTrans, AtMostSelf, Zenon
    <3>. QED BY <1>2, <1>6, <1>9, <2>1, <3>2, Zenon DEF Placed
  <2>. QED BY <1>1, <1>9, <2>2, Zenon DEF Orderly
<1>10. CASE /\ data = <<>> /\ room.waiting_first_msg_offset = FALSE
            /\ ulog' = room /\ written' = out
  <2>1. f = e
    BY <1>3, <1>8, <1>10, Zenon
  <2>2. Placed(room, f, p, z, a)
    BY <1>2, <1>6, <1>8, <1>10, <2>1, Zenon DEF Placed
  <2>. QED BY <1>1, <1>10, <2>2, Zenon DEF Orderly
<1>11. ASSUME NEW b \in 0..Len(data),
              \/ room.waiting_first_msg_offset = FALSE /\ b = 0
              \/ /\ room.waiting_first_msg_offset = TRUE
                 /\ b + 1 \in 1..Len(data) /\ data[b + 1][2] = 1,
              NEW x \in FlushTo(file, Filled(room, data, b)),
              ulog' = x.st, written' = out \o x.out
       PROVE  ulog'.corrupt \/ Orderly(ulog', written', f)
  <2>1. PICK t : t = Filled(room, data, b)
    OBVIOUS
  <2>2. /\ Inside(t) /\ t.buf = room.buf \o After(data, b) /\ t.partial = Seg(p, z)
        /\ t.waiting_first_msg_offset = FALSE
    BY <1>2, <1>6, <2>1, FilledInside, ZenonT(30)
  <2>3. b \in 0..(f - d) /\ d + b \in Nat /\ d + b <= f
    BY <1>3
  <2>4. After(data, b) = Seg(d + b, f)
    BY <1>3, <2>3, SegCut
  <2>5. Orderly(t, out, f)
    <3>1. CASE room.waiting_first_msg_offset = FALSE /\ b = 0
      <4>1. d + b = e /\ d + b \in Nat /\ room.buf = Seg(a, e) /\ EndsAt(a)
        <5>1. d = e /\ room.buf = Seg(a, e) /\ EndsAt(a)
          BY <1>8, <3>1, Zenon
        <5>2. d + b = d
          BY <3>1
        <5>. QED BY <2>3, <5>1, <5>2
      <4>2. t.buf = Seg(a, e) \o Seg(e, f)
        BY <2>2, <2>4, <4>1, Zenon
      <4>3. t.buf = Seg(a, f)
        BY <1>2, <1>8, <3>1, <4>2, SegJoin, ZenonT(30)
      <4>4. Placed(t, f, p, z, a)
        <5>0. d = e
          BY <1>8, <3>1, Zenon
        <5>1. a <= f
          BY <1>2, <5>0, AtMostTrans, Zenon
        <5>. QED BY <1>2, <2>2, <4>1, <4>3, <5>1, Zenon DEF Placed
      <4>. QED BY <1>1, <4>4, Zenon DEF Orderly
    <3>2. CASE /\ room.waiting_first_msg_offset = TRUE
               /\ b + 1 \in 1..Len(data) /\ data[b + 1][2] = 1
      <4>1. room.buf = <<>>
        BY <1>7, <3>2, Zenon
      <4>2. Seg(d + b, f) \in Seq(Byte)
        BY <2>3, SegFacts
      <4>3. t.buf = Seg(d + b, f)
        BY <2>2, <2>4, <4>1, <4>2, ConcatEmpty
      <4>4. b + 1 \in 1..(f - d) /\ d + (b + 1) = (d + b) + 1
            /\ d + b \in 1..(Len(StreamBytes) - 1)
        <5>1. b + 1 \in 1..(f - d)
          BY <1>3, <3>2, Zenon
        <5>2. 1 <= d
          <6>1. z <= e
            BY <1>2, AtMostTrans, Zenon
          <6>2. z \in Nat /\ z >= 1 /\ z <= d
            BY <1>2, <6>1, AtMostTrans, Zenon
          <6>. QED BY <6>2, PositiveUp, Zenon
        <5>3. PICK n \in Nat : n = Len(StreamBytes)
          BY <1>2, Zenon
        <5>4. b \in 0..(f - d) /\ f <= n
          BY <2>3, <5>3, Zenon
        <5>5. d + (b + 1) = (d + b) + 1 /\ d + b \in 1..(n - 1)
          BY <5>1, <5>2, <5>4, NextWithin, Zenon
        <5>. QED BY <5>1, <5>3, <5>5, Zenon
      <4>5. StreamBytes[(d + b) + 1][2] = 1
        BY <1>3, <3>2, <4>4
      <4>6. EndsAt(d + b)
        BY <4>4, <4>5, NextByte
      <4>7. Placed(t, f, p, z, d + b)
        <5>1. z <= e /\ e <= d /\ d <= d + b
          <6>1. b \in Nat
            BY <2>3
          <6>. QED BY <1>2, <6>1, AtMostTrans, AtMostPlus, Zenon
        <5>2. z <= d
          BY <1>2, <5>1, AtMostTrans, Zenon
        <5>3. z <= d + b
          BY <1>2, <2>3, <5>1, <5>2, AtMostTrans, Zenon
        <5>. QED BY <1>2, <2>2, <2>3, <4>3, <4>6, <5>3, Zenon DEF Placed
      <4>. QED BY <1>1, <4>7, Zenon DEF Orderly
    <3>. QED BY <1>11, <3>1, <3>2, Zenon
  <2>6. x \in LoggingFlush(t)
    BY <1>11, <2>1 DEF FlushTo
  <2>7. x.st.corrupt \/ Orderly(x.st, out \o x.out, f)
    BY <2>2, <2>5, <2>6, FlushOrderly
  <2>. QED BY <1>11, <2>7, Zenon
<1>. QED BY <1>5, <1>9, <1>10, <1>11, Zenon

\* Taking the first chunk, with the file header.
LEMMA TakeHeader ==
    ASSUME NEW file, file # NoFile, NEW s, Inside(s), NEW n \in Chunks,
           NEW out \in Seq(Units), TakeChunk(file, s, n, out),
           s.waiting_header, n = 0, s.buf = <<>>, s.partial = <<>>,
           ~s.waiting_first_msg_offset, Chain(out, 0)
    PROVE  ulog'.corrupt \/ Orderly(ulog', written', (n + 1) * ChunkLen)
<1>a. PICK i \in Nat, j \in Nat :
         /\ n \in Nat /\ i = n * ChunkLen /\ j = (n + 1) * ChunkLen /\ j = i + ChunkLen
         /\ j <= Len(StreamBytes) /\ Chunk(n) = Seg(i, j)
  BY ChunkFacts
<1>b. i <= j /\ j - i <= BufferLen /\ Len(StreamBytes) \in Nat
  <2>1. ChunkLen \in Nat /\ BufferLen \in Nat /\ ChunkLen <= BufferLen /\ Len(StreamBytes) \in Nat
    BY Constants, StreamFacts, Zenon
  <2>2. i \in Nat /\ j = i + ChunkLen
    BY <1>a
  <2>. QED BY <2>1, <2>2
<1>c. PICK t : t = Taken(s, n)
  OBVIOUS
<1>d. /\ Inside(t) /\ t.buf = s.buf /\ t.partial = s.partial /\ t.corrupt = s.corrupt
      /\ t.waiting_first_msg_offset = s.waiting_first_msg_offset
  BY <1>a, <1>c, TakenInside, Zenon
<1>1. i = 0 /\ j = ChunkLen
  BY <1>a, Constants
<1>2. /\ HeaderLen \in Nat /\ HeaderLen \in 0..(j - i) /\ HeaderLen <= Len(StreamBytes)
      /\ i + HeaderLen = HeaderLen /\ HeaderLen >= 1 /\ HeaderLen <= j
      /\ j - HeaderLen <= BufferLen
  <2>1. HeaderLen <= Len(StreamBytes)
    BY StreamFacts
  <2>. QED BY <1>a, <1>b, <1>1, <2>1, Constants
<1>3. /\ SubSeq(Chunk(n), 1, HeaderLen) = Seg(0, HeaderLen)
      /\ After(Chunk(n), HeaderLen) = Seg(HeaderLen, j)
  <2>1. /\ SubSeq(Seg(i, j), 1, HeaderLen) = Seg(i, i + HeaderLen)
        /\ After(Seg(i, j), HeaderLen) = Seg(i + HeaderLen, j)
    BY <1>a, <1>b, <1>2, SegCut, ZenonT(30)
  <2>. QED BY <1>a, <1>1, <1>2, <2>1, Zenon
<1>4. PICK u : u = Headed(t, Seg(0, HeaderLen))
  OBVIOUS
<1>5. Store(file, u, Seg(HeaderLen, j), out)
  BY <1>c, <1>3, <1>4, TakeCases, Zenon
<1>6. /\ Inside(u) /\ u.buf = t.buf /\ u.partial = Seg(0, HeaderLen)
      /\ u.waiting_first_msg_offset = t.waiting_first_msg_offset
  <2>1. Seg(0, HeaderLen) \in Seq(Byte) /\ Len(Seg(0, HeaderLen)) <= PartialLen
    BY <1>3, ChunkData, Constants, Zenon
  <2>. QED BY <1>d, <1>4, <2>1, HeadedInside, ZenonT(30)
<1>7. u.buf = Seg(HeaderLen, HeaderLen)
  <2>1. HeaderLen <= HeaderLen
    BY <1>2
  <2>. QED BY <1>d, <1>2, <1>6, <2>1, SegFacts, Zenon
<1>8. Placed(u, HeaderLen, 0, HeaderLen, HeaderLen)
  <2>1. HeaderLen \in Nat /\ 0 \in Nat /\ HeaderLen <= HeaderLen /\ 0 <= HeaderLen
    BY Constants
  <2>2. HeaderLen <= Len(StreamBytes) /\ EndsAt(HeaderLen)
    BY StreamFacts, HeaderEnds, Zenon
  <2>. QED BY <1>d, <1>2, <1>6, <1>7, <2>1, <2>2, Zenon DEF Placed
<1>9. Orderly(u, out, HeaderLen)
  BY <1>8, Zenon DEF Orderly
<1>10. HeaderLen <= HeaderLen
  BY <1>2
<1>11. ulog'.corrupt \/ Orderly(ulog', written', j)
  BY <1>a, <1>2, <1>5, <1>6, <1>9, <1>10, StoreOrderly, Zenon
<1>. QED BY <1>a, <1>11, Zenon

LEMMA TakenOrderly ==
    ASSUME NEW s, Inside(s), NEW n \in Nat, NEW out, NEW e, Orderly(s, out, e)
    PROVE  Orderly(Taken(s, n), out, e)
<1>1. PICK p, z, a : Chain(out, p) /\ Placed(s, e, p, z, a)
  BY DEF Orderly
<1>2. PICK t : t = Taken(s, n)
  OBVIOUS
<1>3. /\ t.buf = s.buf /\ t.partial = s.partial
      /\ t.waiting_first_msg_offset = s.waiting_first_msg_offset
  BY <1>2, TakenInside, Zenon
<1>4. Placed(t, e, p, z, a)
  BY <1>1, <1>3, Zenon DEF Placed
<1>. QED BY <1>1, <1>2, <1>4, Zenon DEF Orderly

\* Taking a chunk behind a gap: what is buffered is written or dropped.
LEMMA TakeAfterGap ==
    ASSUME NEW file, file # NoFile, NEW s, Inside(s), NEW n \in Chunks,
           NEW out \in Seq(Units), TakeChunk(file, s, n, out),
           ~s.waiting_header, n % SeqMod # s.expected_seq,
           NEW e \in Nat, e <= n * ChunkLen, Orderly(s, out, e)
    PROVE  ulog'.corrupt \/ Orderly(ulog', written', (n + 1) * ChunkLen)
<1>a. PICK i \in Nat, j \in Nat :
         /\ n \in Nat /\ i = n * ChunkLen /\ j = (n + 1) * ChunkLen /\ j = i + ChunkLen
         /\ j <= Len(StreamBytes) /\ Chunk(n) = Seg(i, j)
  BY ChunkFacts
<1>b. i <= j /\ j - i <= BufferLen /\ Len(StreamBytes) \in Nat
  <2>1. ChunkLen \in Nat /\ BufferLen \in Nat /\ ChunkLen <= BufferLen /\ Len(StreamBytes) \in Nat
    BY Constants, StreamFacts, Zenon
  <2>2. i \in Nat /\ j = i + ChunkLen
    BY <1>a
  <2>. QED BY <2>1, <2>2
<1>c. PICK t : t = Taken(s, n)
  OBVIOUS
<1>d. /\ Inside(t) /\ t.buf = s.buf /\ t.partial = s.partial /\ t.corrupt = s.corrupt
      /\ t.waiting_first_msg_offset = s.waiting_first_msg_offset
  BY <1>a, <1>c, TakenInside, Zenon
<1>e. Orderly(t, out, e) /\ e <= i
  BY <1>a, <1>c, TakenOrderly
<1>1. PICK x \in FlushTo(file, t) : Store(file, AfterGap(x.st), Seg(i, j), out \o x.out)
  BY <1>a, <1>c, TakeCases, Zenon
<1>2. Inside(x.st) /\ x.out \in Seq(Byte) /\ x \in LoggingFlush(t)
  <2>1. x \in LoggingFlush(t)
    BY <1>1, Zenon DEF FlushTo
  <2>2. Inside(x.st) /\ x.out \in Seq(Byte)
    BY <1>d, <1>1, FlushInside, Zenon
  <2>. QED BY <2>1, <2>2, Zenon
<1>3. x.st.corrupt \/ Orderly(x.st, out \o x.out, e)
  BY <1>d, <1>e, <1>2, FlushOrderly
<1>4. PICK u : u = AfterGap(x.st)
  OBVIOUS
<1>5. /\ Inside(u) /\ u.buf = <<>> /\ u.partial = x.st.partial /\ u.corrupt = x.st.corrupt
      /\ u.waiting_first_msg_offset = TRUE
  BY <1>2, <1>4, AfterGapInside, Zenon
<1>6. CASE x.st.corrupt
  <2>1. out \o x.out \in Seq(Units)
    BY <1>2, Appended
  <2>2. Carried(file, u, ulog', out \o x.out, written')
    <3>1. Seg(i, j) \in Seq(Byte) /\ Len(Seg(i, j)) <= BufferLen
      BY <1>a, ChunkData, Constants
    <3>. QED BY <1>1, <1>4, <1>5, <2>1, <3>1, StoreInside, Zenon
  <2>. QED BY <1>5, <1>6, <2>2, Zenon DEF Carried
<1>7. CASE Orderly(x.st, out \o x.out, e)
  <2>1. PICK p, z, a : Chain(out \o x.out, p) /\ Placed(x.st, e, p, z, a)
    BY <1>7 DEF Orderly
  <2>2. Seg(e, e) = <<>>
    <3>1. e <= e /\ e <= Len(StreamBytes)
      BY <1>a, <1>b, <1>e
    <3>. QED BY <3>1, SegFacts
  <2>3. Placed(u, e, p, z, e)
    <3>1. /\ p \in Nat /\ z \in Nat /\ a \in Nat /\ z >= 1 /\ p <= z /\ z <= a /\ a <= e
          /\ e <= Len(StreamBytes) /\ x.st.partial = Seg(p, z) /\ EndsAt(z)
      BY <2>1, Zenon DEF Placed
    <3>2. z <= e /\ e <= e
      BY <3>1
    <3>. QED BY <1>5, <2>2, <3>1, <3>2, Zenon DEF Placed
  <2>4. Orderly(u, out \o x.out, e)
    BY <2>1, <2>3, Zenon DEF Orderly
  <2>5. ulog'.corrupt \/ Orderly(ulog', written', j)
    BY <1>a, <1>b, <1>e, <1>1, <1>4, <1>5, <2>4, StoreOrderly, Zenon
  <2>. QED BY <1>a, <2>5, Zenon
<1>. QED BY <1>3, <1>6, <1>7

\* Taking chunk n when the chunks before k have arrived.
LEMMA TakeOrderly ==
    ASSUME NEW file, file # NoFile, NEW s, Inside(s), NEW n \in Chunks, NEW k \in Nat,
           NEW out \in Seq(Units),
           s.waiting_header /\ ~s.corrupt =>
              /\ n = 0 /\ s.buf = <<>> /\ s.partial = <<>> /\ ~s.waiting_first_msg_offset
              /\ Chain(out, 0),
           ~s.waiting_header /\ ~s.corrupt =>
              /\ k <= n /\ (n % SeqMod = s.expected_seq => n = k)
              /\ Orderly(s, out, k * ChunkLen),
           TakeChunk(file, s, n, out)
    PROVE  ulog'.corrupt \/ Orderly(ulog', written', (n + 1) * ChunkLen)
<1>1. n \in Nat
  BY ChunkFacts
<1>2. CASE s.waiting_header /\ ~s.corrupt
  BY <1>2, TakeHeader, Zenon
<1>3. CASE s.corrupt
  <2>1. Carried(file, Taken(s, n), ulog', out, written') /\ Taken(s, n).corrupt = s.corrupt
    BY <1>1, TakeInside, TakenInside, Zenon
  <2>. QED BY <1>3, <2>1, Zenon DEF Carried
<1>4. CASE ~s.waiting_header /\ ~s.corrupt
  <2>1. PICK i \in Nat, j \in Nat :
           /\ i = n * ChunkLen /\ j = (n + 1) * ChunkLen /\ j = i + ChunkLen
           /\ j <= Len(StreamBytes) /\ Chunk(n) = Seg(i, j)
    BY ChunkFacts
  <2>2. PICK e \in Nat : e = k * ChunkLen /\ e <= i /\ (k = n => e = i)
    BY <1>1, <1>4, <2>1, ChunkFacts
  <2>3. CASE n % SeqMod = s.expected_seq
    <3>1. PICK t : t = Taken(s, n) /\ Inside(t)
      BY <1>1, TakenInside, Zenon
    <3>2. Orderly(t, out, i)
      <4>1. Orderly(s, out, i)
        BY <1>4, <2>2, <2>3, Zenon
      <4>. QED BY <1>1, <3>1, <4>1, TakenOrderly, Zenon
    <3>3. Store(file, t, Seg(i, j), out)
      BY <1>4, <2>1, <2>3, <3>1, TakeCases, Zenon
    <3>4. i <= i /\ i <= j /\ j - i <= BufferLen
      <4>1. j = i + ChunkLen /\ ChunkLen \in Nat /\ BufferLen \in Nat /\ ChunkLen <= BufferLen
        BY <2>1, Constants, Zenon
      <4>. QED BY <4>1, ChunkFits, Zenon
    <3>5. ulog'.corrupt \/ Orderly(ulog', written', j)
      BY <2>1, <3>1, <3>2, <3>3, <3>4, StoreOrderly, Zenon
    <3>. QED BY <2>1, <3>5, Zenon
  <2>4. CASE n % SeqMod # s.expected_seq
    <3>1. e <= n * ChunkLen /\ Orderly(s, out, e)
      BY <1>4, <2>1, <2>2, Zenon
    <3>. QED BY <1>4, <2>4, <3>1, TakeAfterGap, Zenon
  <2>. QED BY <2>3, <2>4
<1>. QED BY <1>2, <1>3, <1>4

-----------------------------------------------------------------------------
\* The log along a behaviour.

\* What an open file's log can rely on, when the chunks before k have arrived.
Ready(file, s, w, k) ==
    file # NoFile /\ ~s.corrupt =>
       IF s.waiting_header
       THEN s.buf = <<>> /\ s.partial = <<>> /\ ~s.waiting_first_msg_offset /\ Chain(w, 0)
       ELSE Orderly(s, w, k * ChunkLen)

\* The log s, of which k chunks have arrived, and what is written to file.
Kept(file, s, w, k) ==
    /\ Inside(s)
    /\ k \in Nat /\ s.expected_seq = k % SeqMod
    /\ w \in Seq(Units) /\ Len(w) >= 1
    /\ ~s.corrupt => Linked(w)
    /\ Ready(file, s, w, k)

LEMMA Single ==
    ASSUME NEW x \in Units
    PROVE  /\ <<x>> \in Seq(Units) /\ Len(<<x>>) = 1 /\ <<x>>[1] = x
           /\ Len(<<x>>) >= 1 /\ <<x>>[Len(<<x>>)] = x
           /\ Linked(<<x>>) /\ <<x>> \o <<>> = <<x>>
<1>1. PICK U : U = Units
  OBVIOUS
<1>2. <<x>> \in Seq(U)
  BY <1>1
<1>3. Len(<<x>>) = 1 /\ <<x>>[1] = x /\ 1 >= 1
  OBVIOUS
<1>4. Linked(<<x>>)
  BY <1>3 DEF Linked
<1>5. <<x>> \o <<>> = <<x>>
  BY <1>2, ConcatEmpty
<1>. QED BY <1>1, <1>2, <1>3, <1>4, <1>5, Zenon

LEMMA ChainLast ==
    ASSUME NEW w, NEW p, Chain(w, p)
    PROVE  Chain(<<w[Len(w)]>>, p)
<1>1. w \in Seq(Units) /\ Len(w) \in Nat /\ Len(w) >= 1
  BY DEF Chain
<1>2. w[Len(w)] \in Units
  BY <1>1
<1>3. PICK v : v = <<w[Len(w)]>>
  OBVIOUS
<1>4. v \in Seq(Units) /\ Len(v) >= 1 /\ v[Len(v)] = w[Len(w)] /\ Linked(v)
  BY <1>2, <1>3, Single, Zenon
<1>. QED BY <1>3, <1>4, Zenon DEF Chain

LEMMA FreshKept == \A file : Kept(file, Fresh, NothingWritten, 0)
<1>1. Fresh \in States /\ Fresh.expected_seq = 0 /\ Fresh.corrupt = FALSE /\ Fresh.buf = <<>>
      /\ Fresh.partial = <<>> /\ Fresh.index = 0 /\ Fresh.waiting_header = TRUE
      /\ Fresh.waiting_first_msg_offset = FALSE
  <2>1. <<>> \in Seq(Byte) /\ 0 \in Nat
    OBVIOUS
  <2>2. Fresh \in States
    BY <2>1, Zenon DEF Fresh, States
  <2>. QED BY <2>2, Zenon DEF Fresh
<1>2. Inside(Fresh)
  BY <1>1, Constants DEF Inside
<1>3. 0 = 0 % SeqMod
  BY Constants
<1>4. PICK w : w = NothingWritten
  OBVIOUS
<1>5. w \in Seq(Units) /\ Len(w) >= 1 /\ w[Len(w)] = <<-1, 0>> /\ Linked(w)
  <2>1. <<-1, 0>> \in Units
    BY DEF Units
  <2>. QED BY <1>4, <2>1, Single, Zenon DEF NothingWritten
<1>6. Chain(w, 0)
  <2>1. 0 \in 0..Len(StreamBytes)
    BY StreamFacts
  <2>. QED BY <1>5, <2>1, Zenon DEF Chain, At
<1>7. \A file : Ready(file, Fresh, w, 0)
  BY <1>1, <1>6 DEF Ready
<1>8. 0 \in Nat
  OBVIOUS
<1>. QED BY <1>1, <1>2, <1>3, <1>4, <1>5, <1>7, <1>8, Zenon DEF Kept

\* Nothing is written.
LEMMA IdleKept ==
    ASSUME NEW file, NEW s, NEW w, NEW k, Kept(file, s, w, k)
    PROVE  /\ Kept(file, s, <<w[Len(w)]>>, k)
           /\ <<w[Len(w)]>> \o <<>> = <<w[Len(w)]>>
           /\ <<w[Len(w)]>> \in Seq(Units)
<1>1. w \in Seq(Units) /\ Len(w) \in Nat /\ Len(w) >= 1
  BY DEF Kept
<1>2. w[Len(w)] \in Units
  BY <1>1
<1>3. PICK v : v = <<w[Len(w)]>>
  OBVIOUS
<1>4. v \in Seq(Units) /\ Linked(v) /\ Len(v) >= 1 /\ v \o <<>> = v
  BY <1>2, <1>3, Single, Zenon
<1>5. Ready(file, s, v, k)
  <2>1. SUFFICES ASSUME file # NoFile, ~s.corrupt
                 PROVE  IF s.waiting_header
                        THEN /\ s.buf = <<>> /\ s.partial = <<>>
                             /\ ~s.waiting_first_msg_offset /\ Chain(v, 0)
                        ELSE Orderly(s, v, k * ChunkLen)
    BY Zenon DEF Ready
  <2>2. IF s.waiting_header
        THEN s.buf = <<>> /\ s.partial = <<>> /\ ~s.waiting_first_msg_offset /\ Chain(w, 0)
        ELSE Orderly(s, w, k * ChunkLen)
    BY <2>1, Zenon DEF Kept, Ready
  <2>3. \A p : Chain(w, p) => Chain(v, p)
    BY <1>3, ChainLast
  <2>. QED BY <2>2, <2>3, Zenon DEF Orderly
<1>. QED BY <1>3, <1>4, <1>5, Zenon DEF Kept

\* ULog::stop.
LEMMA StopKept ==
    ASSUME Kept(log.file, ulog, written, next), log.file # NoFile, StopULog
    PROVE  Kept(NoFile, ulog', written', next')
<1>1. PICK p \in 0..Len(ulog.partial) :
         /\ ulog' = [ulog EXCEPT !.buf = <<>>, !.partial = After(@, p)]
         /\ written' = <<written[Len(written)]>> \o SubSeq(ulog.partial, 1, p)
         /\ next' = next
  BY Zenon DEF StopULog, Wrote
<1>2. PICK s : s = ulog /\ Inside(s) /\ s \in States
  BY DEF Kept, Inside
<1>3. s.partial \in Seq(Byte) /\ s.index \in Nat /\ Len(s.buf) \in Nat
  BY <1>2 DEF States
<1>4. PICK q \in Seq(Byte), r \in Seq(Byte) :
         /\ q = After(s.partial, p) /\ Len(q) = Len(s.partial) - p
         /\ r = SubSeq(s.partial, 1, p) /\ Len(r) = p
  BY <1>1, <1>2, <1>3, SeqCut, Zenon
<1>0. PICK b \in Seq(Byte) : b = <<>> /\ Len(b) = 0
  <2>1. <<>> \in Seq(Byte) /\ Len(<<>>) = 0
    OBVIOUS
  <2>. QED BY <2>1, Zenon
<1>5. PICK t : t = ulog' /\ t = [s EXCEPT !.buf = b, !.partial = q]
  BY <1>0, <1>1, <1>2, <1>4
<1>6. t \in States
  BY <1>2, <1>4, <1>5, Zenon DEF States
<1>7. /\ t.buf = b /\ t.partial = q /\ t.index = s.index
      /\ t.expected_seq = s.expected_seq /\ t.corrupt = s.corrupt
  BY <1>2, <1>5 DEF States
<1>8. Inside(t)
  <2>1. s.index + Len(s.buf) <= BufferLen /\ Len(s.partial) <= PartialLen
    BY <1>2 DEF Inside
  <2>2. t.index + Len(t.buf) <= BufferLen /\ Len(t.partial) <= PartialLen
    <3>1. Len(t.buf) = 0 /\ t.index = s.index /\ Len(t.partial) = Len(s.partial) - p
      BY <1>0, <1>4, <1>7
    <3>2. p \in Nat /\ Len(s.partial) \in Nat
      BY <1>1, <1>2, <1>3
    <3>3. BufferLen \in Nat /\ PartialLen \in Nat
      BY Constants
    <3>4. s.index + 0 <= BufferLen
      BY <1>3, <2>1, <3>3
    <3>5. Len(s.partial) - p <= PartialLen
      BY <2>1, <3>2, <3>3
    <3>. QED BY <3>1, <3>4, <3>5
  <2>. QED BY <1>6, <2>2 DEF Inside
<1>9. PICK v \in Seq(Units) : v = <<written[Len(written)]>>
  BY IdleKept, Zenon
<1>10. written' = v \o r /\ v \o r \in Seq(Units) /\ Len(v \o r) >= 1
  <2>1. written' = v \o r
    BY <1>1, <1>2, <1>4, <1>9
  <2>2. v \o r \in Seq(Units) /\ Len(v \o r) = Len(v) + Len(r)
    BY <1>4, Appended, Zenon
  <2>. QED BY <1>4, <1>9, <2>1, <2>2
<1>11. ~s.corrupt => Linked(v \o r)
  <2> SUFFICES ASSUME ~s.corrupt PROVE Linked(v \o r)
    OBVIOUS
  <2>1. IF s.waiting_header
        THEN s.buf = <<>> /\ s.partial = <<>> /\ ~s.waiting_first_msg_offset /\ Chain(v, 0)
        ELSE Orderly(s, v, next * ChunkLen)
    <3>1. Kept(log.file, s, v, next)
      BY <1>2, <1>9, IdleKept
    <3>. QED BY <3>1, Zenon DEF Kept, Ready
  <2>2. CASE s.waiting_header
    <3>1. r = <<>>
      BY <1>1, <1>2, <1>4, <2>1, <2>2
    <3>2. v \o r = v
      BY <1>9, <3>1
    <3>. QED BY <2>1, <2>2, <3>2 DEF Chain
  <2>3. CASE ~s.waiting_header
    <3>1. PICK i, z, a : Chain(v, i) /\ Placed(s, next * ChunkLen, i, z, a)
      BY <2>1, <2>3 DEF Orderly
    <3>2. /\ i \in Nat /\ z \in Nat /\ i <= z /\ z <= Len(StreamBytes) /\ s.partial = Seg(i, z)
      <4>1. PICK e : e = next * ChunkLen
        BY Zenon
      <4>2. /\ i \in Nat /\ z \in Nat /\ a \in Nat /\ e \in Nat
            /\ i <= z /\ z <= a /\ a <= e /\ e <= Len(StreamBytes) /\ s.partial = Seg(i, z)
        BY <3>1, <4>1, Zenon DEF Placed
      <4>3. Len(StreamBytes) \in Nat
        BY StreamFacts, Zenon
      <4>4. z <= e
        BY <4>2, AtMostTrans, Zenon
      <4>5. z <= Len(StreamBytes)
        BY <4>2, <4>3, <4>4, AtMostTrans, Zenon
      <4>. QED BY <4>2, <4>5, Zenon
    <3>3. Len(s.partial) = z - i
      BY <3>2, SegFacts, Zenon
    <3>4. /\ p \in 0..(z - i) /\ i + p \in Nat /\ i <= i + p /\ i + p <= Len(StreamBytes)
      <4>1. p \in 0..(z - i)
        BY <1>1, <1>2, <3>3, Zenon
      <4>2. Len(StreamBytes) \in Nat /\ i \in Nat /\ z \in Nat /\ i <= z /\ z <= Len(StreamBytes)
        BY <3>2, StreamFacts, Zenon
      <4>. QED BY <4>1, <4>2
    <3>5. r = Seg(i, i + p)
      BY <1>4, <3>2, <3>4, SegCut
    <3>6. Chain(v \o Seg(i, i + p), IF i = i + p THEN i ELSE i + p)
      BY <3>1, <3>2, <3>4, ChainGrows
    <3>. QED BY <3>5, <3>6 DEF Chain
  <2>. QED BY <2>2, <2>3
<1>12. next \in Nat /\ s.expected_seq = next % SeqMod
  BY <1>2 DEF Kept
<1>. QED BY <1>1, <1>5, <1>7, <1>8, <1>10, <1>11, <1>12, Zenon DEF Kept, Ready

\* A step without log data.
LEMMA FollowsKept ==
    ASSUME Kept(log.file, ulog, written, next), ULogFollows
    PROVE  Kept(log'.file, ulog', written', next')
<1>1. CASE Opens(log')
  <2>1. ulog' = Fresh /\ next' = 0 /\ written' = NothingWritten
    BY <1>1 DEF ULogFollows, StartULog, Opens, Closes
  <2>. QED BY <2>1, FreshKept, Zenon
<1>2. CASE Closes(log')
  <2>1. StopULog
    BY <1>2 DEF ULogFollows, Opens, Closes
  <2>. QED BY <1>2, <2>1, StopKept DEF Closes
<1>3. CASE ~Opens(log') /\ ~Closes(log')
  <2>1. Wrote(<<>>) /\ ulog' = ulog /\ next' = next
    BY <1>3, Zenon DEF ULogFollows
  <2>2. PICK v : v = <<written[Len(written)]>>
    OBVIOUS
  <2>3. Kept(log.file, ulog, v, next) /\ v \o <<>> = v
    BY <2>2, IdleKept
  <2>4. log'.file = log.file \/ log'.file = NoFile
    BY <1>3 DEF Opens, Closes
  <2>5. Kept(log'.file, ulog, v, next)
    BY <2>3, <2>4, Zenon DEF Kept, Ready
  <2>. QED BY <2>1, <2>2, <2>3, <2>5, Zenon DEF Wrote
<1>. QED BY <1>1, <1>2, <1>3

\* The log of a new file has taken no chunk.
LEMMA DataKept ==
    ASSUME Kept(log.file, ulog, written, next),
           NEW n \in Chunks, NEW first \in FirstResults, DataChunk(n, first)
    PROVE  Kept(log'.file, ulog', written', next')
<1>1. PICK s : s = HandleAutoStartStop(log, "other", first)
  OBVIOUS
<1>3. PICK u, prev, k : /\ u = IF Opens(s) THEN Fresh ELSE ulog
                        /\ prev = IF Opens(s) THEN NothingWritten ELSE <<written[Len(written)]>>
                        /\ k = IF Opens(s) THEN 0 ELSE next
  OBVIOUS
<1>4. /\ n \in (next - MaxBack)..(next + MaxAhead)
      /\ \/ /\ IsRepeated(n % SeqMod, u.expected_seq)
            /\ log' = s /\ ulog' = u /\ written' = prev
            /\ next' = IF Opens(s) THEN 0 ELSE Newest(n, next)
         \/ /\ ~IsRepeated(n % SeqMod, u.expected_seq) /\ u.waiting_header /\ n # 0
            /\ IF log'.file # NoFile THEN StartULog
               ELSE /\ ulog' = [u EXCEPT !.expected_seq = (n + 1) % SeqMod]
                    /\ next' = n + 1
                    /\ written' = prev
         \/ /\ ~IsRepeated(n % SeqMod, u.expected_seq) /\ ~(u.waiting_header /\ n # 0)
            /\ log' = s /\ next' = Newest(n, k) /\ TakeChunk(s.file, u, n, prev)
  BY <1>1, <1>3 DEF DataChunk
<1>5. Kept(s.file, u, prev, k)
  <2>1. CASE Opens(s)
    BY <1>3, <2>1, FreshKept
  <2>2. CASE ~Opens(s)
    <3>1. Kept(log.file, ulog, <<written[Len(written)]>>, next)
      BY IdleKept
    <3>2. s.file = log.file \/ s.file = NoFile
      BY <2>2 DEF Opens
    <3>3. Kept(s.file, ulog, <<written[Len(written)]>>, next)
      BY <3>1, <3>2, Zenon DEF Kept, Ready
    <3>. QED BY <1>3, <2>2, <3>3
  <2>. QED BY <2>1, <2>2
<1>6. /\ Inside(u) /\ k \in Nat /\ u.expected_seq = k % SeqMod /\ prev \in Seq(Units)
      /\ Len(prev) = 1 /\ n \in Nat /\ next \in Nat
  <2>1. Len(prev) = 1
    BY <1>3 DEF NothingWritten
  <2>. QED BY <1>5, <2>1, ChunkFacts DEF Kept
<1>7. ~Opens(s) => /\ IsRepeated(n % SeqMod, u.expected_seq) <=> n < k
                   /\ (n % SeqMod = u.expected_seq) <=> (n = k)
  <2> SUFFICES ASSUME ~Opens(s)
               PROVE  /\ IsRepeated(n % SeqMod, u.expected_seq) <=> n < k
                      /\ (n % SeqMod = u.expected_seq) <=> (n = k)
    OBVIOUS
  <2>1. k = next
    BY <1>3
  <2>2. /\ IsRepeated(n % SeqMod, k % SeqMod) <=> n < k
        /\ (n % SeqMod = k % SeqMod) <=> (n = k)
    BY <1>4, <1>6, <2>1, Wraps
  <2>. QED BY <1>6, <2>2, Zenon
<1>8. CASE /\ IsRepeated(n % SeqMod, u.expected_seq)
           /\ log' = s /\ ulog' = u /\ written' = prev
           /\ next' = IF Opens(s) THEN 0 ELSE Newest(n, next)
  <2>1. next' = k
    <3>1. CASE Opens(s)
      BY <1>3, <1>8, <3>1
    <3>2. CASE ~Opens(s)
      <4>1. n < next /\ k = next
        BY <1>3, <1>7, <1>8, <3>2
      <4>2. Newest(n, next) = next
        BY <1>6, <4>1 DEF Newest
      <4>. QED BY <1>8, <3>2, <4>1, <4>2
    <3>. QED BY <3>1, <3>2
  <2>. QED BY <1>5, <1>8, <2>1
<1>9. CASE /\ u.waiting_header /\ n # 0
           /\ IF log'.file # NoFile THEN StartULog
              ELSE /\ ulog' = [u EXCEPT !.expected_seq = (n + 1) % SeqMod]
                   /\ next' = n + 1
                   /\ written' = prev
  <2>1. CASE log'.file # NoFile
    BY <1>9, <2>1, FreshKept DEF StartULog
  <2>2. CASE log'.file = NoFile
    <3>1. PICK e \in Nat : e = (n + 1) % SeqMod
      <4>1. (n + 1) % SeqMod \in Nat
        BY <1>6, Constants
      <4>. QED BY <4>1
    <3>2. PICK t : t = ulog' /\ t = [u EXCEPT !.expected_seq = e]
      BY <1>9, <2>2, <3>1
    <3>3. u \in States
      BY <1>6 DEF Inside
    <3>4. t \in States /\ t.buf = u.buf /\ t.index = u.index /\ t.partial = u.partial
          /\ t.expected_seq = e
      BY <3>1, <3>2, <3>3 DEF States
    <3>5. Inside(t)
      BY <1>6, <3>4, Zenon DEF Inside
    <3>6. next' \in Nat /\ t.expected_seq = next' % SeqMod /\ written' = prev
      BY <1>6, <1>9, <2>2, <3>1, <3>4
    <3>7. Linked(prev) /\ Len(prev) >= 1
      BY <1>6 DEF Linked
    <3>. QED BY <1>6, <2>2, <3>2, <3>5, <3>6, <3>7, Zenon DEF Kept, Ready
  <2>. QED BY <2>1, <2>2
<1>10. CASE /\ ~IsRepeated(n % SeqMod, u.expected_seq) /\ ~(u.waiting_header /\ n # 0)
            /\ log' = s /\ next' = Newest(n, k) /\ TakeChunk(s.file, u, n, prev)
  <2>1. Carried(s.file, Taken(u, n), ulog', prev, written')
    BY <1>6, <1>10, TakeInside
  <2>2. /\ Taken(u, n).expected_seq = (n + 1) % SeqMod /\ Taken(u, n).waiting_header = FALSE
    BY <1>6, TakenInside, Zenon
  <2>3. (k <= n /\ (n % SeqMod = u.expected_seq => n = k)) \/ Opens(s)
    <3>1. ~Opens(s) => ~(n < k)
      BY <1>7, <1>10
    <3>. QED BY <1>6, <1>7, <3>1
  <2>4. next' = n + 1
    <3>1. CASE Opens(s)
      <4>1. k = 0
        BY <1>3, <3>1
      <4>. QED BY <1>6, <1>10, <4>1 DEF Newest
    <3>2. CASE ~Opens(s)
      BY <1>6, <1>10, <2>3, <3>2 DEF Newest
    <3>. QED BY <3>1, <3>2
  <2>5. ASSUME s.file # NoFile
        PROVE  ulog'.corrupt \/ Orderly(ulog', written', (n + 1) * ChunkLen)
    <3>1. ASSUME u.waiting_header, ~u.corrupt
          PROVE  /\ n = 0 /\ u.buf = <<>> /\ u.partial = <<>> /\ ~u.waiting_first_msg_offset
                 /\ Chain(prev, 0)
      BY <1>5, <1>10, <2>5, <3>1, Zenon DEF Kept, Ready
    <3>2. ASSUME ~u.waiting_header, ~u.corrupt
          PROVE  /\ k <= n /\ (n % SeqMod = u.expected_seq => n = k)
                 /\ Orderly(u, prev, k * ChunkLen)
      <4>1. ~Opens(s)
        BY <1>3, <3>2 DEF Fresh
      <4>2. Orderly(u, prev, k * ChunkLen)
        BY <1>5, <2>5, <3>2, Zenon DEF Kept, Ready
      <4>. QED BY <2>3, <4>1, <4>2
    <3>. QED BY <1>6, <1>10, <2>5, <3>1, <3>2, TakeOrderly, Zenon
  <2>6. ~ulog'.corrupt => Linked(written')
    <3>1. CASE s.file = NoFile
      <4>1. written' = prev
        BY <2>1, <3>1 DEF Carried
      <4>2. Linked(prev)
        BY <1>6 DEF Linked
      <4>. QED BY <4>1, <4>2
    <3>2. CASE s.file # NoFile
      BY <2>5, <3>2, Zenon DEF Orderly, Chain
    <3>. QED BY <3>1, <3>2
  <2>7. Ready(log'.file, ulog', written', next')
    <3>1. ulog'.waiting_header = FALSE
      BY <2>1, <2>2 DEF Carried
    <3>2. log'.file = s.file
      BY <1>10
    <3>. QED BY <2>4, <2>5, <3>1, <3>2, Zenon DEF Ready
  <2>8. /\ Inside(ulog') /\ ulog'.expected_seq = next' % SeqMod /\ next' \in Nat
        /\ written' \in Seq(Units) /\ Len(written') >= 1
    <3>1. /\ Inside(ulog') /\ ulog'.expected_seq = (n + 1) % SeqMod
          /\ written' \in Seq(Units) /\ Len(prev) <= Len(written')
      BY <2>1, <2>2, Zenon DEF Carried
    <3>2. Len(written') \in Nat
      BY <3>1
    <3>. QED BY <1>6, <2>4, <3>1, <3>2
  <2>. QED BY <2>6, <2>7, <2>8, Zenon DEF Kept
<1>. QED BY <1>4, <1>8, <1>9, <1>10, Zenon
=============================================================================
