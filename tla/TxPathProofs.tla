---------------------------- MODULE TxPathProofs ----------------------------
(***************************************************************************)
(* The tx buffer of TxPath for any message and buffer sizes: what is       *)
(* buffered continues what was written, and no unit is lost or doubled.    *)
(*                                                                         *)
(* WriteMsg flushes, appends and flushes again in one step, so the         *)
(* invariant is a predicate on the values of the buffer and its histories  *)
(* (Sound), with one lemma for each thing that may happen to them: a flush *)
(* (FlushSound), a message appended (AppendSound) or refused               *)
(* (RefuseSound).                                                          *)
(***************************************************************************)
EXTENDS TxPath, SequenceTheorems, FiniteSetTheorems, TLAPS

Unit == Nat \X Nat

\* Where the units of message m are in the buffer t.
Places(t, m) == {k \in 1..Len(t) : t[k][1] = m}

\* No unit of u's message need follow u.
Ends(sz, lo, u) == u[1] = 0 \/ u[1] \in lo \/ u[2] = sz[u[1]]

Link(sz, lo, u, v) ==
    \/ v = <<u[1], u[2] + 1>>
    \/ v[1] > u[1] /\ v[2] = 1 /\ Ends(sz, lo, u)

\* The last unit given to the buffer.
LastUnit(c, t) == IF t = <<>> THEN c ELSE t[Len(t)]

Types(sz, rf, lo, w, t, c) ==
    /\ sz \in Seq(Nat) /\ Len(sz) <= MaxMsgs
    /\ rf \subseteq 1..Len(sz) /\ lo \subseteq 1..Len(sz)
    /\ w \in [Messages -> Nat]
    /\ t \in Seq(Unit)
    /\ c \in Unit /\ c[1] \in 0..Len(sz)

\* The units in the buffer belong to messages that were taken and not lost.
Taken(sz, rf, lo, t) ==
    \A k \in 1..Len(t) : t[k][1] \in 1..Len(sz) /\ t[k][1] \notin rf \cup lo

\* The buffer continues the cursor and holds nothing but ends of messages and
\* whole ones.
Chained(sz, lo, t, c) ==
    /\ t # <<>> => Link(sz, lo, c, t[1])
    /\ \A k \in 1..(Len(t) - 1) : Link(sz, lo, t[k], t[k + 1])
    /\ Ends(sz, lo, LastUnit(c, t))

Counted(sz, rf, lo, w, t) ==
    /\ \A m \in 1..Len(sz) :
          m \notin lo => w[m] + Cardinality(Places(t, m)) = IF m \in rf THEN 0 ELSE sz[m]
    /\ \A m \in Messages : m > Len(sz) => w[m] = 0

Sound(sz, rf, lo, w, t, c) ==
    /\ Types(sz, rf, lo, w, t, c)
    /\ Taken(sz, rf, lo, t)
    /\ Chained(sz, lo, t, c)
    /\ Counted(sz, rf, lo, w, t)

\* A result of flush_pending_msgs other than the drop for want of a peer.
Result(t, f) ==
    \/ f.n = 0 /\ ~Drops(f) /\ ~Fails(f)
    \/ f.n = 0 /\ Drops(f) /\ Fails(f)
    \/ f.n \in 1..Len(t) /\ ~Drops(f) /\ ~Fails(f)

\* A UDP endpoint with messages to send has a peer: only a client's peer is
\* forgotten, and then the configured one takes its place.
PeerStays ==
    /\ nomessage => mode = "client"
    /\ mode = "client" => HasPeer
    /\ kind = "udp" /\ tx # <<>> => HasPeer

\* What waits for a new connection starts with a whole message.
FreshWhenClosed == ~open /\ tx # <<>> => tx[1][2] = 1

Inv ==
    /\ Sound(sizes, refused, lost, written, tx, cursor)
    /\ Len(tx) <= TxBufMax
    /\ PeerStays
    /\ FreshWhenClosed

-----------------------------------------------------------------------------
LEMMA PlacesFinite ==
    ASSUME NEW t \in Seq(Unit), NEW m, NEW n \in 0..Len(t)
    PROVE  /\ IsFiniteSet(Places(t, m)) /\ Cardinality(Places(t, m)) \in Nat
           /\ IsFiniteSet({k \in 1..n : t[k][1] = m})
           /\ Cardinality({k \in 1..n : t[k][1] = m}) \in Nat
<1>1. Len(t) \in Nat /\ n \in Nat
  OBVIOUS
<1>2. IsFiniteSet(1..Len(t)) /\ IsFiniteSet(1..n)
  BY <1>1, FS_Interval
<1>3. IsFiniteSet(Places(t, m)) /\ IsFiniteSet({k \in 1..n : t[k][1] = m})
  BY <1>2, FS_Subset DEF Places
<1>. QED BY <1>3, FS_CardinalityType

\* The rest of a buffer after its first n units.
LEMMA Rest ==
    ASSUME NEW t \in Seq(Unit), NEW n \in 0..Len(t)
    PROVE  LET r == SubSeq(t, n + 1, Len(t))
           IN  /\ r \in Seq(Unit) /\ Len(r) = Len(t) - n
               /\ \A k \in 1..(Len(t) - n) : r[k] = t[k + n]
<1>1. Len(t) \in Nat /\ n \in Nat /\ \A i \in (n + 1)..Len(t) : t[i] \in Unit
  BY ElementOfSeq
<1> DEFINE r == SubSeq(t, n + 1, Len(t))
<1>2. /\ r \in Seq(Unit)
      /\ Len(r) = IF n + 1 <= Len(t) THEN Len(t) - (n + 1) + 1 ELSE 0
      /\ \A i \in 1..(Len(t) - (n + 1) + 1) : r[i] = t[(n + 1) + i - 1]
  BY <1>1, SubSeqProperties
<1>. QED BY <1>1, <1>2

LEMMA UpToNext ==
    ASSUME NEW n \in Nat, NEW m \in 1..(n + 1)
    PROVE  m = n + 1 \/ m \in 1..n
OBVIOUS

\* The units of a message in a buffer are those in its head and those in its rest.
LEMMA PlacesSplit ==
    ASSUME NEW t \in Seq(Unit), NEW n \in 0..Len(t), NEW m
    PROVE  Cardinality(Places(t, m)) =
              Cardinality({k \in 1..n : t[k][1] = m})
              + Cardinality(Places(SubSeq(t, n + 1, Len(t)), m))
<1> DEFINE r == SubSeq(t, n + 1, Len(t))
           A == {k \in 1..n : t[k][1] = m}
           B == {k \in (n + 1)..Len(t) : t[k][1] = m}
           P == Places(r, m)
           f == [k \in P |-> k + n]
<1>0. /\ Len(t) \in Nat /\ n \in Nat
      /\ r \in Seq(Unit) /\ Len(r) = Len(t) - n
      /\ \A k \in 1..(Len(t) - n) : r[k] = t[k + n]
  BY Rest
<1> HIDE DEF r
<1>1. f \in Bijection(P, B)
  <2>1. ASSUME NEW k \in P PROVE k \in Nat /\ f[k] = k + n /\ f[k] \in B
    BY <1>0 DEF Places
  <2>2. f \in Injection(P, B)
    <3>1. ASSUME NEW i \in P, NEW j \in P, f[i] = f[j] PROVE i = j
      <4>1. i \in Nat /\ j \in Nat /\ i + n = j + n
        BY <2>1, <3>1, Zenon
      <4>. QED BY <1>0, <4>1
    <3>2. f \in [P -> B]
      BY <2>1, Zenon
    <3>. QED BY <3>1, <3>2, Zenon DEF Injection, IsInjective
  <2>3. ASSUME NEW b \in B PROVE \E k \in P : f[k] = b
    <3>1. b - n \in P /\ (b - n) + n = b
      BY <1>0 DEF Places
    <3>. QED BY <3>1
  <2>4. f \in Surjection(P, B)
    BY <2>1, <2>3 DEF Surjection
  <2>. QED BY <2>2, <2>4 DEF Bijection
<1>2. IsFiniteSet(P) /\ IsFiniteSet(A) /\ Cardinality(A) \in Nat /\ Cardinality(P) \in Nat
  <2>1. IsFiniteSet(A) /\ Cardinality(A) \in Nat
    BY PlacesFinite, Zenon
  <2>2. 0 \in 0..Len(r)
    BY <1>0
  <2>. QED BY <1>0, <2>1, <2>2, PlacesFinite, Zenon
<1>3. IsFiniteSet(B) /\ Cardinality(B) = Cardinality(P)
  BY <1>1, <1>2, FS_Bijection DEF ExistsBijection
<1>4. Places(t, m) = A \cup B /\ A \cap B = {}
  BY <1>0 DEF Places
<1>5. Cardinality(A \cup B) = Cardinality(A) + Cardinality(B) - Cardinality(A \cap B)
  BY <1>2, <1>3, FS_Union, Zenon
<1> HIDE DEF A, B, P
<1>6. Cardinality(A \cap B) = 0 /\ Cardinality(Places(t, m)) = Cardinality(A \cup B)
  BY <1>4, FS_EmptySet, Zenon
<1>7. Cardinality(Places(t, m)) = Cardinality(A) + Cardinality(P)
  BY <1>2, <1>3, <1>5, <1>6
<1>. QED BY <1>7 DEF r, A, P

\* flush_pending_msgs keeps the buffer sound.
LEMMA FlushSound ==
    ASSUME NEW sz, NEW rf, NEW lo, NEW w, NEW t, NEW c, Sound(sz, rf, lo, w, t, c),
           NEW f, Result(t, f)
    PROVE  /\ Sound(sz, rf, lo \cup Lost(t, f), Count(w, t, f), After(t, f), Cursor(c, t, f))
           /\ Len(After(t, f)) <= Len(t)
<1>t. /\ sz \in Seq(Nat) /\ Len(sz) \in Nat /\ Len(sz) <= MaxMsgs
      /\ rf \subseteq 1..Len(sz) /\ lo \subseteq 1..Len(sz)
      /\ w \in [Messages -> Nat] /\ t \in Seq(Unit) /\ Len(t) \in Nat
      /\ c \in Unit /\ c[1] \in 0..Len(sz)
  BY DEF Sound, Types
<1>u. \A k \in 1..Len(t) : t[k] \in Unit /\ t[k][1] \in 1..Len(sz)
  BY <1>t, ElementOfSeq DEF Sound, Taken
<1>w. \A m \in Messages : w[m] \in Nat
  BY <1>t
<1>1. CASE f.n = 0
  <2>1. Cursor(c, t, f) = c
    BY <1>1 DEF Cursor
  <2>2. Count(w, t, f) = w
    <3>1. \A m : {k \in 1..0 : t[k][1] = m} = {}
      OBVIOUS
    <3>2. \A m \in Messages : w[m] + Cardinality({k \in 1..f.n : t[k][1] = m}) = w[m]
      BY <1>1, <1>w, <3>1, FS_EmptySet
    <3>3. Count(w, t, f) = [m \in Messages |-> w[m]]
      BY <3>2 DEF Count
    <3>. QED BY <1>t, <3>3
  <2>3. CASE ~Drops(f) /\ ~Fails(f)
    <3>1. After(t, f) = t /\ Len(t) <= Len(t)
      BY <1>1, <1>t, <2>3, SubSeqFull DEF After
    <3>2. lo \cup Lost(t, f) = lo
      BY <2>3 DEF Lost
    <3>. QED BY <1>t, <2>1, <2>2, <3>1, <3>2, Zenon
  <2>4. CASE Drops(f) /\ Fails(f)
    <3> DEFINE lo2 == lo \cup MsgsOf(t)
    <3>1. After(t, f) = <<>> /\ lo \cup Lost(t, f) = lo2 /\ Len(<<>>) <= Len(t)
      BY <1>t, <2>4 DEF After, Lost
    <3>2. lo2 \subseteq 1..Len(sz)
      BY <1>t, <1>u, Zenon DEF MsgsOf
    <3>3. Types(sz, rf, lo2, w, <<>>, c)
      BY <1>t, <3>2 DEF Types
    <3>4. Taken(sz, rf, lo2, <<>>)
      BY DEF Taken
    <3>5. Ends(sz, lo2, c)
      <4>1. CASE t = <<>>
        BY <4>1 DEF Sound, Chained, LastUnit, Ends
      <4>2. CASE t # <<>>
        <5>1. 1 \in 1..Len(t) /\ Link(sz, lo, c, t[1])
          BY <1>t, <4>2, EmptySeq DEF Sound, Chained
        <5>2. t[1][1] \in MsgsOf(t)
          BY <5>1 DEF MsgsOf
        <5>. QED BY <5>1, <5>2 DEF Link, Ends
      <4>. QED BY <4>1, <4>2
    <3>6. Chained(sz, lo2, <<>>, c)
      BY <3>5 DEF Chained, LastUnit
    <3>7. ASSUME NEW m \in 1..Len(sz), m \notin lo2
          PROVE  Places(t, m) = {} /\ Places(<<>>, m) = {}
      BY <3>7 DEF MsgsOf, Places
    <3>8. Counted(sz, rf, lo2, w, <<>>)
      <4>1. ASSUME NEW m \in 1..Len(sz), m \notin lo2
            PROVE  w[m] + Cardinality(Places(<<>>, m)) = IF m \in rf THEN 0 ELSE sz[m]
        <5>1. Places(t, m) = Places(<<>>, m)
          BY <3>7, <4>1
        <5>2. w[m] + Cardinality(Places(t, m)) = IF m \in rf THEN 0 ELSE sz[m]
          BY <4>1 DEF Sound, Counted
        <5>. QED BY <5>1, <5>2
      <4>. QED BY <4>1 DEF Sound, Counted
    <3>. QED BY <2>1, <2>2, <3>1, <3>3, <3>4, <3>6, <3>8, Zenon DEF Sound
  <2>. QED BY <1>1, <2>3, <2>4 DEF Result
<1>2. CASE f.n \in 1..Len(t) /\ ~Drops(f) /\ ~Fails(f)
  <2> DEFINE n == f.n
             r == After(t, f)
             v == Count(w, t, f)
  <2>0. n \in 1..Len(t) /\ n \in 0..Len(t) /\ n \in Nat
    BY <1>t, <1>2
  <2>1. lo \cup Lost(t, f) = lo /\ Cursor(c, t, f) = t[n]
    BY <1>t, <1>2 DEF Lost, Cursor
  <2>2. r = SubSeq(t, n + 1, Len(t))
    BY <1>2, Zenon DEF After
  <2>3. r \in Seq(Unit) /\ Len(r) = Len(t) - n /\ \A k \in 1..(Len(t) - n) : r[k] = t[k + n]
    BY <1>t, <2>0, <2>2, Rest, SMTT(30)
  <2>4. \A m \in Messages : v[m] = w[m] + Cardinality({k \in 1..n : t[k][1] = m})
    BY DEF Count
  <2>5. v \in [Messages -> Nat]
    <3>1. \A m : Cardinality({k \in 1..n : t[k][1] = m}) \in Nat
      BY <1>t, <2>0, PlacesFinite, Zenon
    <3>2. ASSUME NEW m \in Messages PROVE v[m] \in Nat
      <4> DEFINE x == Cardinality({k \in 1..n : t[k][1] = m})
      <4>1. x \in Nat /\ w[m] \in Nat
        BY <1>w, <3>1, Zenon
      <4>2. v[m] = w[m] + x
        BY <2>4
      <4> HIDE DEF x, v
      <4>. QED BY <4>1, <4>2
    <3>3. v = [m \in Messages |-> v[m]]
      BY DEF Count
    <3> HIDE DEF v
    <3>. QED BY <3>2, <3>3
  <2>6. t[n] \in Unit /\ t[n][1] \in 0..Len(sz)
    BY <1>t, <1>u, <2>0
  <2> HIDE DEF n, r, v
  <2>7. Types(sz, rf, lo, v, r, t[n])
    BY <1>t, <2>3, <2>5, <2>6 DEF Types
  <2>8. Taken(sz, rf, lo, r)
    <3>1. ASSUME NEW k \in 1..Len(r) PROVE r[k] = t[k + n] /\ k + n \in 1..Len(t)
      <4>1. Len(t) \in Nat /\ Len(r) = Len(t) - n
        BY <1>t, <2>3
      <4>2. k \in 1..(Len(t) - n) /\ k + n \in 1..Len(t)
        BY <2>0, <4>1
      <4>. QED BY <2>3, <4>2, Zenon
    <3>. QED BY <3>1, Zenon DEF Sound, Taken
  <2>9. Chained(sz, lo, r, t[n])
    <3>1. \A k \in 1..(Len(t) - 1) : Link(sz, lo, t[k], t[k + 1])
      BY DEF Sound, Chained
    <3>2. ASSUME r # <<>> PROVE Link(sz, lo, t[n], r[1]) /\ r[Len(r)] = t[Len(t)]
      <4>1. Len(r) >= 1
        BY <2>3, <3>2, EmptySeq
      <4>2. n \in 1..(Len(t) - 1) /\ 1 \in 1..(Len(t) - n) /\ Len(r) \in 1..(Len(t) - n)
        BY <1>t, <2>0, <2>3, <4>1
      <4>3. r[1] = t[1 + n] /\ r[Len(r)] = t[Len(r) + n]
        BY <2>3, <4>2, Zenon
      <4>4. 1 + n = n + 1 /\ Len(r) + n = Len(t)
        BY <1>t, <2>0, <2>3
      <4>. QED BY <3>1, <4>2, <4>3, <4>4, Zenon
    <3>3. \A k \in 1..(Len(r) - 1) : Link(sz, lo, r[k], r[k + 1])
      <4> TAKE k \in 1..(Len(r) - 1)
      <4>1. r[k] = t[k + n] /\ r[k + 1] = t[(k + 1) + n]
        BY <1>t, <2>0, <2>3
      <4>2. (k + 1) + n = (k + n) + 1 /\ k + n \in 1..(Len(t) - 1)
        BY <1>t, <2>0, <2>3
      <4>. QED BY <3>1, <4>1, <4>2
    <3>4. t # <<>> /\ Ends(sz, lo, t[Len(t)])
      BY <1>t, <2>0 DEF Sound, Chained, LastUnit
    <3>5. r = <<>> => t[n] = t[Len(t)]
      BY <1>t, <2>0, <2>3
    <3>. QED BY <3>2, <3>3, <3>4, <3>5 DEF Chained, LastUnit
  <2>10. Counted(sz, rf, lo, v, r)
    <3>1. ASSUME NEW m \in 1..Len(sz), m \notin lo
          PROVE  v[m] + Cardinality(Places(r, m)) = IF m \in rf THEN 0 ELSE sz[m]
      <4>1. w[m] + Cardinality(Places(t, m)) = IF m \in rf THEN 0 ELSE sz[m]
        BY <3>1 DEF Sound, Counted
      <4>2. m \in Messages /\ w[m] \in Nat
        BY <1>t, <1>w, TxPathAssumption DEF Messages
      <4>3. Cardinality(Places(t, m)) =
               Cardinality({k \in 1..n : t[k][1] = m}) + Cardinality(Places(r, m))
        BY <1>t, <2>0, <2>2, PlacesSplit
      <4>4. /\ Cardinality({k \in 1..n : t[k][1] = m}) \in Nat
            /\ Cardinality(Places(r, m)) \in Nat
        <5>1. 0 \in 0..Len(r)
          BY <2>3, <1>t, <2>0
        <5>. QED BY <1>t, <2>0, <2>3, <5>1, PlacesFinite, Zenon
      <4>. QED BY <2>4, <4>1, <4>2, <4>3, <4>4
    <3>2. ASSUME NEW m \in Messages, m > Len(sz) PROVE v[m] = 0
      <4>1. ASSUME NEW k \in 1..n PROVE t[k][1] # m
        <5>1. k \in 1..Len(t) /\ Len(sz) \in Nat
          BY <1>t, <2>0
        <5>2. t[k][1] \in 1..Len(sz)
          BY <1>u, <5>1, Zenon
        <5>. QED BY <3>2, <5>1, <5>2
      <4>2. {k \in 1..n : t[k][1] = m} = {} /\ w[m] = 0
        BY <3>2, <4>1 DEF Sound, Counted
      <4>. QED BY <2>4, <4>2, FS_EmptySet
    <3>. QED BY <3>1, <3>2 DEF Counted
  <2>11. Sound(sz, rf, lo, v, r, t[n]) /\ Len(r) <= Len(t)
    BY <1>t, <2>0, <2>3, <2>7, <2>8, <2>9, <2>10 DEF Sound
  <2>. QED BY <2>1, <2>11, Zenon DEF r, v
<1>. QED BY <1>1, <1>2 DEF Result

\* What Append does to the sizes.
LEMMA OneMoreSize ==
    ASSUME NEW sz \in Seq(Nat), NEW size \in Nat
    PROVE  LET sz2 == Append(sz, size)
           IN  /\ sz2 \in Seq(Nat) /\ Len(sz) \in Nat /\ Len(sz2) = Len(sz) + 1
               /\ sz2[Len(sz) + 1] = size
               /\ \A m \in 1..Len(sz) : sz2[m] = sz[m]
  BY AppendProperties

\* A longer list of sizes changes nothing for the units of earlier messages.
LEMMA LinkGrows ==
    ASSUME NEW sz \in Seq(Nat), NEW size \in Nat, NEW lo, NEW u, u[1] \in 0..Len(sz), NEW v
    PROVE  /\ Ends(sz, lo, u) => Ends(Append(sz, size), lo, u)
           /\ Link(sz, lo, u, v) => Link(Append(sz, size), lo, u, v)
<1>1. Ends(sz, lo, u) => Ends(Append(sz, size), lo, u)
  BY OneMoreSize DEF Ends
<1>. QED BY <1>1 DEF Link

\* write_msg answers -ENOBUFS.
LEMMA RefuseSound ==
    ASSUME NEW sz, NEW rf, NEW lo, NEW w, NEW t, NEW c, Sound(sz, rf, lo, w, t, c),
           NEW size \in Nat, Len(sz) < MaxMsgs
    PROVE  Sound(Append(sz, size), rf \cup {Len(sz) + 1}, lo, w, t, c)
<1> DEFINE n == Len(sz)
           sz2 == Append(sz, size)
           rf2 == rf \cup {n + 1}
<1>1. /\ sz \in Seq(Nat) /\ n \in Nat /\ n < MaxMsgs /\ MaxMsgs \in Nat
      /\ rf \subseteq 1..n /\ lo \subseteq 1..n
      /\ w \in [Messages -> Nat] /\ t \in Seq(Unit) /\ Len(t) \in Nat
      /\ c \in Unit /\ c[1] \in 0..n
  BY TxPathAssumption DEF Sound, Types
<1>2. /\ sz2 \in Seq(Nat) /\ Len(sz2) = n + 1 /\ sz2[n + 1] = size
      /\ \A m \in 1..n : sz2[m] = sz[m]
  BY <1>1, OneMoreSize
<1>3. \A k \in 1..Len(t) : t[k][1] \in 1..n /\ t[k][1] \notin rf \cup lo
  BY DEF Sound, Taken
<1> HIDE DEF sz2
<1>4. Types(sz2, rf2, lo, w, t, c)
  <2>0. n + 1 <= MaxMsgs /\ 1..n \subseteq 1..(n + 1) /\ n + 1 \in 1..(n + 1)
    BY <1>1
  <2>1. rf2 \subseteq 1..(n + 1) /\ lo \subseteq 1..(n + 1) /\ n + 1 <= MaxMsgs
    BY <1>1, <2>0, Zenon
  <2> HIDE DEF rf2
  <2>. QED BY <1>1, <1>2, <2>1 DEF Types
<1>5. Taken(sz2, rf2, lo, t)
  BY <1>1, <1>2, <1>3 DEF Taken
<1>6. Chained(sz2, lo, t, c)
  <2>1. ASSUME NEW u, u[1] \in 0..n
        PROVE  /\ Ends(sz, lo, u) => Ends(sz2, lo, u)
               /\ \A v : Link(sz, lo, u, v) => Link(sz2, lo, u, v)
    BY <1>1, <2>1, LinkGrows, Zenon DEF sz2
  <2>2. \A k \in 1..Len(t) : t[k][1] \in 0..n
    BY <1>1, <1>3
  <2>3. LastUnit(c, t)[1] \in 0..n
    BY <1>1, <2>2, EmptySeq DEF LastUnit
  <2>. QED BY <1>1, <2>1, <2>2, <2>3 DEF Sound, Chained
<1>7. Counted(sz2, rf2, lo, w, t)
  <2>1. ASSUME NEW m \in 1..(n + 1), m \notin lo
        PROVE  w[m] + Cardinality(Places(t, m)) = IF m \in rf2 THEN 0 ELSE sz2[m]
    <3>1. CASE m = n + 1
      <4>1. Places(t, m) = {}
        BY <1>1, <1>3, <3>1 DEF Places
      <4>2. w[m] = 0
        BY <1>1, <3>1 DEF Sound, Counted, Messages
      <4>3. Cardinality(Places(t, m)) = 0 /\ m \in rf2
        BY <3>1, <4>1, FS_EmptySet, Zenon
      <4>. QED BY <4>2, <4>3
    <3>2. CASE m \in 1..n
      <4>1. m \in rf2 <=> m \in rf
        BY <1>1, <3>2
      <4>2. sz2[m] = sz[m]
        BY <1>2, <3>2, Zenon
      <4>. QED BY <2>1, <3>2, <4>1, <4>2, Zenon DEF Sound, Counted
    <3>. QED BY <1>1, <3>1, <3>2, UpToNext, Zenon
  <2>. QED BY <1>1, <1>2, <2>1 DEF Sound, Counted, Messages
<1>. QED BY <1>4, <1>5, <1>6, <1>7 DEF Sound, sz2

\* The buffer with the units of a message behind it.
LEMMA WithUnits ==
    ASSUME NEW t \in Seq(Unit), NEW m \in Nat, NEW size \in Nat
    PROVE  LET r == t \o Units(m, size)
           IN  /\ r \in Seq(Unit) /\ Len(r) = Len(t) + size
               /\ \A k \in 1..Len(t) : r[k] = t[k]
               /\ \A i \in 1..size : r[Len(t) + i] = <<m, i>>
<1> DEFINE b == Units(m, size)
           r == t \o b
<1>1. b \in Seq(Unit) /\ Len(b) = size /\ \A i \in 1..size : b[i] = <<m, i>>
  BY DEF Units, Unit
<1> HIDE DEF b
<1>2. /\ r \in Seq(Unit) /\ Len(r) = Len(t) + Len(b) /\ Len(t) \in Nat
      /\ \A i \in 1..(Len(t) + Len(b)) : r[i] = IF i <= Len(t) THEN t[i] ELSE b[i - Len(t)]
  <2>1. Len(t) \in Nat
    OBVIOUS
  <2>. QED BY <1>1, <2>1, ConcatProperties, Zenon
<1>3. ASSUME NEW i \in 1..size PROVE r[Len(t) + i] = <<m, i>>
  <2>1. Len(t) + i \in 1..(Len(t) + Len(b)) /\ ~(Len(t) + i <= Len(t)) /\ (Len(t) + i) - Len(t) = i
    BY <1>1, <1>2
  <2>. QED BY <1>1, <1>2, <2>1
<1>. QED BY <1>1, <1>2, <1>3 DEF b

\* A message that fits is appended.
LEMMA AppendSound ==
    ASSUME NEW sz, NEW rf, NEW lo, NEW w, NEW t, NEW c, Sound(sz, rf, lo, w, t, c),
           NEW size \in Nat \ {0}, Len(sz) < MaxMsgs
    PROVE  Sound(Append(sz, size), rf, lo, w, t \o Units(Len(sz) + 1, size), c)
<1> DEFINE n == Len(sz)
           sz2 == Append(sz, size)
           r == t \o Units(n + 1, size)
<1>1. /\ sz \in Seq(Nat) /\ n \in Nat /\ n < MaxMsgs /\ MaxMsgs \in Nat
      /\ rf \subseteq 1..n /\ lo \subseteq 1..n
      /\ w \in [Messages -> Nat] /\ t \in Seq(Unit) /\ Len(t) \in Nat
      /\ c \in Unit /\ c[1] \in 0..n
  BY TxPathAssumption DEF Sound, Types
<1>2. /\ sz2 \in Seq(Nat) /\ Len(sz2) = n + 1 /\ sz2[n + 1] = size
      /\ \A m \in 1..n : sz2[m] = sz[m]
  BY <1>1, OneMoreSize
<1>3. \A k \in 1..Len(t) : t[k][1] \in 1..n /\ t[k][1] \notin rf \cup lo
  BY DEF Sound, Taken
<1>4. /\ r \in Seq(Unit) /\ Len(r) = Len(t) + size
      /\ \A k \in 1..Len(t) : r[k] = t[k]
      /\ \A i \in 1..size : r[Len(t) + i] = <<n + 1, i>>
  <2>1. n + 1 \in Nat /\ size \in Nat
    BY <1>1
  <2>. QED BY <1>1, <2>1, WithUnits, ZenonT(30)
<1>5. \A k \in (Len(t) + 1)..(Len(t) + size) : r[k] = <<n + 1, k - Len(t)>>
  <2> TAKE k \in (Len(t) + 1)..(Len(t) + size)
  <2>1. k - Len(t) \in 1..size /\ Len(t) + (k - Len(t)) = k
    BY <1>1
  <2>. QED BY <1>4, <2>1
<1> HIDE DEF sz2, r
<1>6. Types(sz2, rf, lo, w, r, c)
  <2>0. n + 1 <= MaxMsgs /\ 1..n \subseteq 1..(n + 1) /\ c[1] \in 0..(n + 1)
    BY <1>1
  <2>1. rf \subseteq 1..(n + 1) /\ lo \subseteq 1..(n + 1)
    BY <1>1, <2>0, Zenon
  <2>. QED BY <1>1, <1>2, <1>4, <2>0, <2>1 DEF Types
<1>7. Taken(sz2, rf, lo, r)
  <2> SUFFICES ASSUME NEW k \in 1..Len(r)
               PROVE  r[k][1] \in 1..(n + 1) /\ r[k][1] \notin rf \cup lo
    BY <1>2 DEF Taken
  <2>1. CASE k \in 1..Len(t)
    <3>1. r[k] = t[k] /\ t[k][1] \in 1..n /\ t[k][1] \notin rf \cup lo
      BY <1>3, <1>4, <2>1
    <3>. QED BY <1>1, <3>1
  <2>2. CASE k \in (Len(t) + 1)..(Len(t) + size)
    <3>1. r[k][1] = n + 1
      BY <1>5, <2>2
    <3>. QED BY <1>1, <3>1
  <2>. QED BY <1>1, <1>4, <2>1, <2>2
<1>8. Chained(sz2, lo, r, c)
  <2>1. ASSUME NEW u, u[1] \in 0..n
        PROVE  /\ Ends(sz, lo, u) => Ends(sz2, lo, u)
               /\ \A v : Link(sz, lo, u, v) => Link(sz2, lo, u, v)
    BY <1>1, <2>1, LinkGrows, Zenon DEF sz2
  <2>2. \A k \in 1..Len(t) : t[k][1] \in 0..n
    BY <1>1, <1>3
  <2>3. LastUnit(c, t)[1] \in 0..n
    BY <1>1, <2>2, EmptySeq DEF LastUnit
  <2>4. Ends(sz2, lo, LastUnit(c, t))
    BY <2>1, <2>3 DEF Sound, Chained
  <2>5. Link(sz2, lo, LastUnit(c, t), <<n + 1, 1>>)
    BY <1>1, <2>3, <2>4 DEF Link
  <2>6. r[Len(t) + 1] = <<n + 1, 1>>
    BY <1>4
  <2>7. r # <<>> /\ r[Len(r)] = <<n + 1, size>>
    <3>1. size \in 1..size /\ Len(r) = Len(t) + size /\ Len(r) # 0
      BY <1>1, <1>4
    <3>2. r[Len(t) + size] = <<n + 1, size>>
      BY <1>4, <3>1, Zenon
    <3>. QED BY <3>1, <3>2
  <2>8. Ends(sz2, lo, LastUnit(c, r))
    BY <1>2, <2>7 DEF LastUnit, Ends
  <2>9. Link(sz2, lo, c, r[1])
    <3>1. CASE t = <<>>
      BY <2>5, <2>6, <3>1 DEF LastUnit
    <3>2. CASE t # <<>>
      <4>1. r[1] = t[1] /\ Link(sz, lo, c, t[1])
        BY <1>1, <1>4, <3>2, EmptySeq DEF Sound, Chained
      <4>. QED BY <1>1, <2>1, <4>1
    <3>. QED BY <3>1, <3>2
  <2>10. ASSUME NEW k \in 1..(Len(r) - 1) PROVE Link(sz2, lo, r[k], r[k + 1])
    <3>1. CASE k < Len(t)
      <4>1. r[k] = t[k] /\ r[k + 1] = t[k + 1] /\ k \in 1..(Len(t) - 1) /\ k \in 1..Len(t)
        BY <1>1, <1>4, <3>1
      <4>2. Link(sz, lo, t[k], t[k + 1]) /\ t[k][1] \in 0..n
        BY <2>2, <4>1 DEF Sound, Chained
      <4>. QED BY <2>1, <4>1, <4>2
    <3>2. CASE k = Len(t)
      <4>1. r[k] = t[k] /\ t # <<>>
        BY <1>1, <1>4, <3>2
      <4>. QED BY <2>5, <2>6, <3>2, <4>1 DEF LastUnit
    <3>3. CASE k > Len(t)
      <4>1. /\ k \in (Len(t) + 1)..(Len(t) + size)
            /\ k + 1 \in (Len(t) + 1)..(Len(t) + size)
            /\ (k + 1) - Len(t) = (k - Len(t)) + 1
        BY <1>1, <1>4, <3>3
      <4>2. r[k] = <<n + 1, k - Len(t)>> /\ r[k + 1] = <<n + 1, (k - Len(t)) + 1>>
        BY <1>5, <4>1
      <4>. QED BY <4>2 DEF Link
    <3>. QED BY <1>1, <1>4, <3>1, <3>2, <3>3
  <2>. QED BY <2>8, <2>9, <2>10 DEF Chained
<1>9. Counted(sz2, rf, lo, w, r)
  <2>1. ASSUME NEW m \in 1..n PROVE Places(r, m) = Places(t, m)
    <3>1. \A k \in (Len(t) + 1)..(Len(t) + size) : r[k][1] # m
      <4>1. m # n + 1
        BY <1>1, <2>1
      <4>2. \A k \in (Len(t) + 1)..(Len(t) + size) : r[k][1] = n + 1
        BY <1>5
      <4>. QED BY <4>1, <4>2, Zenon
    <3>2. \A k \in 1..Len(r) : k \in 1..Len(t) \/ k \in (Len(t) + 1)..(Len(t) + size)
      BY <1>1, <1>4
    <3>3. 1..Len(t) \subseteq 1..Len(r)
      BY <1>1, <1>4
    <3>. QED BY <1>4, <3>1, <3>2, <3>3 DEF Places
  <2>2. Cardinality(Places(r, n + 1)) = size
    <3>1. ASSUME NEW k \in 1..Len(t) PROVE r[k][1] # n + 1
      <4>1. r[k] = t[k] /\ t[k][1] \in 1..n
        BY <1>3, <1>4
      <4>. QED BY <1>1, <4>1
    <3>2. \A k \in (Len(t) + 1)..(Len(t) + size) : r[k][1] = n + 1
      BY <1>5
    <3>3. Places(r, n + 1) = (Len(t) + 1)..(Len(t) + size)
      <4>1. 1..Len(r) = 1..Len(t) \cup (Len(t) + 1)..(Len(t) + size)
        BY <1>1, <1>4
      <4>. QED BY <3>1, <3>2, <4>1, Zenon DEF Places
    <3>4. Cardinality((Len(t) + 1)..(Len(t) + size)) = size
      BY <1>1, FS_Interval
    <3>. QED BY <3>3, <3>4
  <2>3. ASSUME NEW m \in 1..(n + 1), m \notin lo
        PROVE  w[m] + Cardinality(Places(r, m)) = IF m \in rf THEN 0 ELSE sz2[m]
    <3>1. CASE m = n + 1
      <4>1. w[m] = 0 /\ m \notin rf
        BY <1>1, <3>1 DEF Sound, Counted, Messages
      <4>. QED BY <1>2, <2>2, <3>1, <4>1
    <3>2. CASE m \in 1..n
      <4>1. sz2[m] = sz[m] /\ Places(r, m) = Places(t, m)
        BY <1>2, <2>1, <3>2, Zenon
      <4>. QED BY <2>3, <3>2, <4>1, Zenon DEF Sound, Counted
    <3>. QED BY <1>1, <3>1, <3>2, UpToNext, Zenon
  <2>. QED BY <1>1, <1>2, <2>3 DEF Sound, Counted, Messages
<1>. QED BY <1>6, <1>7, <1>8, <1>9 DEF Sound, sz2, r

-----------------------------------------------------------------------------
\* The results of a flush of t; a closed endpoint's buffer stays as it is, and a
\* broken connection empties it.
LEMMA FlushesAre ==
    ASSUME NEW t \in Seq(Unit), NEW isOpen \in BOOLEAN, kind = "udp" /\ t # <<>> => HasPeer,
           NEW f \in Flushes(t, isOpen) \cup {Nothing}
    PROVE  /\ Result(t, f)
           /\ f.r = "EPIPE" => After(t, f) = <<>>
           /\ ~isOpen => f.r # "EPIPE" /\ After(t, f) = t
<1>1. CASE f = Nothing
  <2>1. f.n = 0 /\ ~Drops(f) /\ ~Fails(f) /\ f.r = "zero"
    BY <1>1, Zenon DEF Nothing, NoOneToWriteFor, Drops, Fails
  <2>2. After(t, f) = t
    BY <2>1, SubSeqFull DEF After
  <2>. QED BY <2>1, <2>2 DEF Result
<1>2. CASE f # Nothing
  <2>1. t # <<>> /\ isOpen /\ f \in Writes(Len(t)) /\ Len(t) \in Nat /\ Len(t) # 0
    BY <1>2, EmptySeq DEF Flushes
  <2>2. /\ f.r \in {"wrote", "EAGAIN", "error", "EPIPE"}
        /\ f.r = "wrote" => f.n \in 1..Len(t)
        /\ f.r # "wrote" => f.n = 0
    BY <2>1 DEF Writes
  <2>3. f # NoOneToWriteFor
    <3>1. NoOneToWriteFor.r = "no peer"
      BY DEF NoOneToWriteFor
    <3>. QED BY <2>2, <3>1, Zenon
  <2>. QED BY <2>1, <2>2, <2>3 DEF Result, Drops, Fails, After
<1>. QED BY <1>1, <1>2

LEMMA InvTypes ==
    ASSUME Inv
    PROVE  /\ tx \in Seq(Unit) /\ Len(tx) \in Nat /\ Len(tx) <= TxBufMax
           /\ sizes \in Seq(Nat) /\ Len(sizes) \in Nat
           /\ kind = "udp" /\ tx # <<>> => HasPeer
           /\ Sound(sizes, refused, lost, written, tx, cursor)
  BY DEF Inv, Sound, Types, PeerStays

\* The coalescing timer and handle_canwrite.
LEMMA FlushedInv ==
    ASSUME Inv, open \in BOOLEAN, NEW f \in Flushes(tx, open), Flushed(f)
    PROVE  Inv'
<1>1. /\ Result(tx, f)
      /\ f.r = "EPIPE" => After(tx, f) = <<>>
      /\ ~open => f.r # "EPIPE" /\ After(tx, f) = tx
  BY FlushesAre, InvTypes
<1>2. /\ tx' = After(tx, f) /\ open' = (open /\ f.r # "EPIPE") /\ lost' = lost \cup Lost(tx, f)
      /\ written' = Count(written, tx, f) /\ cursor' = Cursor(cursor, tx, f)
      /\ UNCHANGED <<kind, mode, peer, nomessage, sizes, refused>>
  BY DEF Flushed, config, peerVars
<1>3. /\ Sound(sizes, refused, lost', written', tx', cursor') /\ Len(tx') <= Len(tx)
  BY <1>1, <1>2, InvTypes, FlushSound, Zenon
<1>4. Sound(sizes, refused, lost, written, tx, cursor)'
  BY <1>2, <1>3, Zenon
<1>5. tx' \in Seq(Unit) /\ (tx = <<>> => tx' = <<>>)
  <2>1. tx' \in Seq(Unit)
    BY <1>3 DEF Sound, Types
  <2>2. tx = <<>> => Len(tx') <= 0
    BY <1>3
  <2>. QED BY <2>1, <2>2, EmptySeq
<1>6. (Len(tx) <= TxBufMax)'
  BY <1>3, <1>5, InvTypes, TxPathAssumption
<1>7. PeerStays'
  BY <1>2, <1>5 DEF Inv, PeerStays, HasPeer
<1>8. FreshWhenClosed'
  BY <1>1, <1>2 DEF Inv, FreshWhenClosed
<1>. QED BY <1>4, <1>6, <1>7, <1>8 DEF Inv

\* Mainloop::write_msg.
LEMMA WriteMsgInv ==
    ASSUME Inv, open \in BOOLEAN, NEW size \in Sizes, NEW nodelay \in BOOLEAN,
           WriteMsg(size, nodelay)
    PROVE  Inv'
<1> DEFINE n == Len(sizes)
           sz2 == Append(sizes, size)
<1>0. /\ size \in Nat \ {0} /\ TxBufMax \in Nat
      /\ n < MaxMsgs /\ open /\ sizes' = sz2 /\ (kind = "udp" => HasPeer)
      /\ UNCHANGED <<kind, mode, peer, nomessage>>
  BY TxPathAssumption DEF WriteMsg, Accepts, config, peerVars
<1>p. PeerStays'
  BY <1>0 DEF Inv, PeerStays, HasPeer
<1>f. PICK f \in Flushes(tx, open) \cup {Nothing} :
          \/ WriteFull(size, f, f.r # "EPIPE")
          \/ WriteThrough(size, nodelay, f, f.r # "EPIPE")
          \/ WriteCoalesced(size, nodelay, f, f.r # "EPIPE")
  BY Zenon DEF WriteMsg
<1> DEFINE isOpen == f.r # "EPIPE"
           lo == lost \cup Lost(tx, f)
           w == Count(written, tx, f)
           b == After(tx, f)
           c == Cursor(cursor, tx, f)
           t == b \o Units(n + 1, size)
<1>1. Result(tx, f) /\ (~isOpen => b = <<>>)
  BY FlushesAre, InvTypes
<1>2. Sound(sizes, refused, lo, w, b, c) /\ Len(b) <= Len(tx)
  BY <1>1, InvTypes, FlushSound
<1>3. b \in Seq(Unit) /\ Len(b) \in Nat /\ Len(b) <= TxBufMax
  BY <1>0, <1>2, InvTypes DEF Sound, Types
<1>4. Sound(sz2, refused, lo, w, t, c)
  BY <1>0, <1>2, AppendSound
<1>5. /\ t \in Seq(Unit) /\ Len(t) = Len(b) + size
      /\ b = <<>> => t[1][2] = 1
  <2> HIDE DEF b
  <2>1. /\ t \in Seq(Unit) /\ Len(t) = Len(b) + size
        /\ \A i \in 1..size : t[Len(b) + i] = <<n + 1, i>>
    <3>1. n + 1 \in Nat /\ size \in Nat
      BY <1>0, InvTypes
    <3>. QED BY <1>3, <3>1, WithUnits, Zenon
  <2>2. ASSUME b = <<>> PROVE t[1][2] = 1
    <3>1. Len(b) + 1 = 1 /\ 1 \in 1..size
      BY <1>0, <2>2
    <3>2. t[Len(b) + 1] = <<n + 1, 1>>
      BY <2>1, <3>1, Zenon
    <3> HIDE DEF t
    <3>. QED BY <3>1, <3>2
  <2>. QED BY <2>1, <2>2, Zenon
<1> HIDE DEF lo, w, b, c, t
<1>6. CASE WriteFull(size, f, isOpen)
  <2>1. /\ tx' = b /\ open' = isOpen /\ lost' = lo /\ written' = w /\ cursor' = c
        /\ refused' = refused \cup {n + 1}
    BY <1>6 DEF WriteFull, lo, w, b, c
  <2>2. Sound(sz2, refused \cup {n + 1}, lo, w, b, c)
    BY <1>0, <1>2, RefuseSound
  <2>3. Sound(sizes, refused, lost, written, tx, cursor)'
    BY <1>0, <2>1, <2>2, Zenon
  <2>4. FreshWhenClosed'
    BY <1>1, <2>1, Zenon DEF FreshWhenClosed
  <2>. QED BY <1>3, <1>p, <2>1, <2>3, <2>4 DEF Inv
<1>7. CASE WriteCoalesced(size, nodelay, f, isOpen)
  <2>1. /\ tx' = t /\ open' = isOpen /\ lost' = lo /\ written' = w /\ cursor' = c
        /\ refused' = refused /\ Fits(b, size)
    BY <1>7 DEF WriteCoalesced, lo, w, b, c, t
  <2>2. Sound(sizes, refused, lost, written, tx, cursor)'
    BY <1>0, <1>4, <2>1, Zenon
  <2>3. FreshWhenClosed'
    BY <1>1, <1>5, <2>1, Zenon DEF FreshWhenClosed
  <2>. QED BY <1>5, <1>p, <2>1, <2>2, <2>3 DEF Inv, Fits
<1>8. CASE WriteThrough(size, nodelay, f, isOpen)
  <2>1. PICK g \in Flushes(t, isOpen) :
              /\ tx' = After(t, g) /\ open' = (isOpen /\ g.r # "EPIPE")
              /\ lost' = lo \cup Lost(t, g)
              /\ written' = Count(w, t, g)
              /\ cursor' = Cursor(c, t, g)
    BY <1>8 DEF WriteThrough, lo, w, b, c, t
  <2>2. Fits(b, size) /\ refused' = refused
    BY <1>8 DEF WriteThrough, b
  <2>3. /\ Result(t, g)
        /\ g.r = "EPIPE" => After(t, g) = <<>>
        /\ ~isOpen => g.r # "EPIPE" /\ After(t, g) = t
    BY <1>0, <1>5, FlushesAre, Zenon
  <2>4. Sound(sz2, refused, lo \cup Lost(t, g), Count(w, t, g), After(t, g), Cursor(c, t, g))
        /\ Len(After(t, g)) <= Len(t)
    BY <1>4, <2>3, FlushSound
  <2>5. Sound(sizes, refused, lost, written, tx, cursor)'
    BY <1>0, <2>1, <2>2, <2>4, Zenon
  <2>6. (Len(tx) <= TxBufMax)'
    <3>1. tx' \in Seq(Unit)
      BY <2>5 DEF Sound, Types
    <3>2. Len(tx') <= Len(t) /\ Len(t) <= TxBufMax
      BY <1>5, <2>1, <2>2, <2>4 DEF Fits
    <3>. QED BY <1>0, <1>3, <1>5, <3>1, <3>2
  <2>7. FreshWhenClosed'
    BY <1>1, <1>5, <2>1, <2>3, Zenon DEF FreshWhenClosed
  <2>. QED BY <1>p, <2>5, <2>6, <2>7 DEF Inv
<1>. QED BY <1>f, <1>6, <1>7, <1>8

LEMMA Inductive == Inv /\ open \in BOOLEAN /\ [Next]_vars => Inv' /\ open' \in BOOLEAN
<1> SUFFICES ASSUME Inv, open \in BOOLEAN, [Next]_vars PROVE Inv' /\ open' \in BOOLEAN
  OBVIOUS
<1> USE DEF config, peerVars
<1>1. ASSUME NEW from \in Senders \cup {"configured"}, HandleDatagram(from)
      PROVE  Inv' /\ open' \in BOOLEAN
  <2>1. from # "none"
    BY TxPathAssumption
  <2>. QED BY <1>1, <2>1, Zenon DEF HandleDatagram, StartsTimeout, Inv, PeerStays, HasPeer, FreshWhenClosed
<1>2. ASSUME NomessageTimeout PROVE Inv' /\ open' \in BOOLEAN
  BY <1>2 DEF NomessageTimeout, Opened, Inv, PeerStays, HasPeer, FreshWhenClosed
<1>3. ASSUME NEW size \in Sizes, NEW nodelay \in BOOLEAN, WriteMsg(size, nodelay)
      PROVE  Inv' /\ open' \in BOOLEAN
  <2>1. open' \in BOOLEAN
    BY <1>3, Zenon DEF WriteMsg, WriteFull, WriteThrough, WriteCoalesced
  <2>. QED BY <1>3, <2>1, WriteMsgInv
<1>4. ASSUME NEW f \in Flushes(tx, open), Flushed(f) PROVE Inv' /\ open' \in BOOLEAN
  BY <1>4, FlushedInv, Zenon DEF Flushed
<1>5. ASSUME Hangup PROVE Inv' /\ open' \in BOOLEAN
  <2>1. /\ tx' = <<>> /\ lost' = lost \cup MsgsOf(tx) /\ open' = FALSE /\ kind = "tcp"
        /\ UNCHANGED <<kind, mode, peer, nomessage, sizes, refused, written, cursor>>
    BY <1>5 DEF Hangup, Closed
  <2> DEFINE f == [r |-> "error", n |-> 0]
  <2>2. Result(tx, f) /\ Fails(f) /\ Drops(f) /\ f.n = 0
    BY DEF Result, Fails, Drops
  <2>3. Lost(tx, f) = MsgsOf(tx) /\ After(tx, f) = <<>> /\ Cursor(cursor, tx, f) = cursor
    BY <2>2 DEF Lost, After, Cursor
  <2>4. Count(written, tx, f) = written
    <3>1. \A m : {k \in 1..0 : tx[k][1] = m} = {}
      OBVIOUS
    <3>2. written \in [Messages -> Nat]
      BY InvTypes DEF Sound, Types
    <3>3. \A m \in Messages : written[m] + Cardinality({k \in 1..f.n : tx[k][1] = m}) = written[m]
      BY <2>2, <3>1, <3>2, FS_EmptySet
    <3>4. Count(written, tx, f) = [m \in Messages |-> written[m]]
      BY <3>3 DEF Count
    <3>. QED BY <3>2, <3>4
  <2> HIDE DEF f
  <2>5. Sound(sizes, refused, lost \cup MsgsOf(tx), written, <<>>, cursor)
    BY <2>2, <2>3, <2>4, InvTypes, FlushSound
  <2>6. Sound(sizes, refused, lost, written, tx, cursor)'
    BY <2>1, <2>5, Zenon
  <2>7. (Len(tx) <= TxBufMax)'
    BY <2>1, TxPathAssumption
  <2>8. PeerStays' /\ FreshWhenClosed'
    BY <2>1 DEF Inv, PeerStays, HasPeer, FreshWhenClosed
  <2>. QED BY <2>1, <2>6, <2>7, <2>8, Zenon DEF Inv
<1>6. ASSUME Reconnect PROVE Inv' /\ open' \in BOOLEAN
  <2>1. /\ open' = TRUE /\ cursor' = <<0, 0>> /\ ~open
        /\ UNCHANGED <<kind, mode, peer, nomessage, tx, sizes, refused, lost, written>>
    BY <1>6 DEF Reconnect
  <2>2. Chained(sizes, lost, tx, <<0, 0>>)
    <3>1. Ends(sizes, lost, <<0, 0>>)
      BY DEF Ends
    <3>2. CASE tx = <<>>
      BY <3>1, <3>2 DEF Chained, LastUnit
    <3>3. CASE tx # <<>>
      <4>1. tx[1][2] = 1 /\ tx[1][1] \in 1..Len(sizes)
        <5>1. 1 \in 1..Len(tx)
          BY <3>3, InvTypes, EmptySeq
        <5>2. tx[1][2] = 1
          BY <2>1, <3>3, Zenon DEF Inv, FreshWhenClosed
        <5>. QED BY <5>1, <5>2, Zenon DEF Inv, Sound, Taken
      <4>2. Link(sizes, lost, <<0, 0>>, tx[1])
        BY <3>1, <4>1, InvTypes DEF Link
      <4>3. /\ \A k \in 1..(Len(tx) - 1) : Link(sizes, lost, tx[k], tx[k + 1])
            /\ Ends(sizes, lost, tx[Len(tx)])
        BY <3>3 DEF Inv, Sound, Chained, LastUnit
      <4>. QED BY <3>3, <4>2, <4>3 DEF Chained, LastUnit
    <3>. QED BY <3>2, <3>3
  <2>3. Types(sizes, refused, lost, written, tx, <<0, 0>>)
    BY InvTypes DEF Sound, Types, Unit
  <2>4. Sound(sizes, refused, lost, written, tx, <<0, 0>>)
    BY <2>2, <2>3, InvTypes DEF Sound
  <2>5. Sound(sizes, refused, lost, written, tx, cursor)'
    BY <2>1, <2>4, Zenon
  <2>. QED BY <2>1, <2>5 DEF Inv, PeerStays, HasPeer, FreshWhenClosed
<1>7. ASSUME UNCHANGED vars PROVE Inv' /\ open' \in BOOLEAN
  BY <1>7 DEF vars, Inv, PeerStays, HasPeer, FreshWhenClosed
<1>. QED BY <1>1, <1>2, <1>3, <1>4, <1>5, <1>6, <1>7 DEF Next, CoalesceTimeout, CanWrite

LEMMA Initially == Init => Inv /\ open \in BOOLEAN
<1> SUFFICES ASSUME Init PROVE Inv /\ open \in BOOLEAN
  OBVIOUS
<1>1. /\ tx = <<>> /\ sizes = <<>> /\ refused = {} /\ lost = {} /\ cursor = <<0, 0>>
      /\ written = [m \in Messages |-> 0] /\ open = TRUE /\ nomessage = FALSE
      /\ (mode = "client" => peer = "configured")
  BY DEF Init, Opened
<1>2. Types(sizes, refused, lost, written, tx, cursor)
  BY <1>1, TxPathAssumption DEF Types, Unit
<1>3. Taken(sizes, refused, lost, tx) /\ Chained(sizes, lost, tx, cursor)
  BY <1>1 DEF Taken, Chained, LastUnit, Ends
<1>4. Counted(sizes, refused, lost, written, tx)
  BY <1>1 DEF Counted
<1>. QED BY <1>1, <1>2, <1>3, <1>4, TxPathAssumption
         DEF Inv, Sound, PeerStays, HasPeer, FreshWhenClosed

LEMMA Kept == Spec => []Inv
<1> DEFINE Typed == Inv /\ open \in BOOLEAN
<1>1. Init => Typed
  BY Initially
<1>2. Typed /\ [Next]_vars => Typed'
  BY Inductive
<1>3. Typed => Inv
  OBVIOUS
<1> HIDE DEF Typed
<1>. QED BY <1>1, <1>2, <1>3, PTL DEF Spec

\* flush_pending_msgs and write_msg of every endpoint: for any message sizes,
\* buffer size and results of the writes, messages leave in order and never
\* interleaved, a new connection starts with a whole message, and the buffer
\* never exceeds TX_BUF_MAX_SIZE.
THEOREM TxFramed == Spec => []Framing
<1>1. ASSUME Inv PROVE Framing
  <2>1. /\ tx \in Seq(Unit) /\ cursor \in Unit /\ Len(tx) \in Nat
    BY <1>1, InvTypes DEF Sound, Types
  <2> DEFINE stream == <<cursor>> \o tx
  <2>2. /\ <<cursor>> \in Seq(Unit) /\ Len(<<cursor>>) = 1 /\ <<cursor>>[1] = cursor
    BY <2>1
  <2>3. \A i \in 1..(1 + Len(tx)) : stream[i] = IF i <= 1 THEN <<cursor>>[i] ELSE tx[i - 1]
    BY <2>1, <2>2, ConcatProperties
  <2>4. stream[1] = cursor /\ \A k \in 1..Len(tx) : stream[k + 1] = tx[k]
    BY <2>1, <2>2, <2>3
  <2> HIDE DEF stream
  <2>5. \A u, v : Link(sizes, lost, u, v) => Follows(u, v)
    BY DEF Link, Ends, Follows
  <2>6. ASSUME NEW k \in 1..Len(tx) PROVE Follows(stream[k], stream[k + 1])
    <3>1. CASE k = 1
      <4>1. Link(sizes, lost, cursor, tx[1])
        BY <1>1, <2>1, <3>1 DEF Inv, Sound, Chained
      <4>. QED BY <2>4, <2>5, <3>1, <4>1
    <3>2. CASE k # 1
      <4>1. /\ k - 1 \in 1..(Len(tx) - 1) /\ k - 1 \in 1..Len(tx) /\ (k - 1) + 1 = k
        BY <2>1, <3>2
      <4>2. Link(sizes, lost, tx[k - 1], tx[(k - 1) + 1])
        BY <1>1, <4>1 DEF Inv, Sound, Chained
      <4>3. stream[(k - 1) + 1] = tx[k - 1] /\ stream[k + 1] = tx[k]
        BY <2>4, <4>1
      <4>. QED BY <2>5, <4>1, <4>2, <4>3
    <3>. QED BY <3>1, <3>2
  <2>. QED BY <1>1, <2>6 DEF Framing, Inv, stream
<1>. QED BY <1>1, Kept, PTL

\* The same code: every unit of a message that no failed write threw away is in
\* the buffer or with the kernel, exactly once, and no unit of a refused one is.
\* A UDP endpoint never drops its buffer for want of a peer.
THEOREM TxAccounted == Spec => []Accounted
<1>1. Inv => Accounted
  BY DEF Inv, Sound, Counted, Places, Accounted
<1>. QED BY <1>1, Kept, PTL
=============================================================================
