------------------------ MODULE ThrottleCacheProofs ------------------------
(***************************************************************************)
(* The message cache of ThrottleCache for any endpoints, message ids,      *)
(* rates, cache size and timer resolution: what the queues hold, the order *)
(* in which messages leave them, and the resend timer.                     *)
(***************************************************************************)
EXTENDS ThrottleCache, FiniteSetTheorems, TLAPS

\* What the sequence operators return.

LEMMA LenIsNat ==
    ASSUME NEW S, NEW q \in Seq(S)
    PROVE  Len(q) \in Nat /\ q \in [1..Len(q) -> S]
  OBVIOUS

LEMMA ElementTyped ==
    ASSUME NEW S, NEW q \in Seq(S), NEW i \in 1..Len(q)
    PROVE  q[i] \in S
  OBVIOUS

LEMMA PartOfSeq ==
    ASSUME NEW S, NEW q \in Seq(S), NEW m \in 1..(Len(q) + 1), NEW n \in (m - 1)..Len(q)
    PROVE  /\ SubSeq(q, m, n) \in Seq(S)
           /\ Len(SubSeq(q, m, n)) = n - m + 1
           /\ \A i \in 1..(n - m + 1) : SubSeq(q, m, n)[i] = q[m + i - 1]
  OBVIOUS

LEMMA Appends ==
    ASSUME NEW S, NEW q \in Seq(S), NEW x \in S
    PROVE  /\ Append(q, x) \in Seq(S) /\ Append(q, x) # <<>>
           /\ Len(Append(q, x)) = Len(q) + 1
           /\ \A i \in 1..Len(q) : Append(q, x)[i] = q[i]
           /\ Append(q, x)[Len(q) + 1] = x
  OBVIOUS

\* The smallest element of a set of naturals, and of a set of clock values.
LEMMA Least ==
    ASSUME NEW T \in SUBSET Nat, T # {}
    PROVE  \E x \in T : \A y \in T : x <= y
<1> DEFINE Less == {ss \in Nat \X Nat : ss[1] < ss[2]}
<1>1. IsWellFoundedOn(Less, Nat)
  BY NatLessThanWellFounded, Zenon DEF OpToRel
<1>2. PICK x \in T : \A y \in T : ~ (<<y, x>> \in Less)
  BY <1>1, WFMin, Zenon
<1>3. ASSUME NEW y \in T PROVE x <= y
  <2>1. <<y, x>> \notin Less /\ <<y, x>> \in Nat \X Nat
    BY <1>2
  <2>. QED BY <2>1
<1>. QED BY <1>3

\* The values of a next_timestamp.
Times == {x \in Int : x >= Floor}

LEMMA Constants ==
    /\ MaxPeriod \in Nat \ {0} /\ CacheMax \in Nat \ {0}
    /\ TicksPerMs \in Nat \ {0} /\ RetryMs \in Nat \ {0}
    /\ MsgIds \subseteq Nat /\ Floor \in Int /\ Floor < 0 /\ Floor \in Times /\ 0 \in Times
  BY ThrottleCacheAssumption DEF Floor, Times

LEMMA MinIs ==
    ASSUME NEW S \in SUBSET Times, S # {}
    PROVE  Min(S) \in S /\ Min(S) \in Times /\ \A x \in S : Min(S) <= x
<1> DEFINE T == {x - Floor : x \in S}
<1>0. Floor \in Int
  BY Constants, Zenon
<1>1. T \in SUBSET Nat /\ T # {}
  <2>1. ASSUME NEW x \in S PROVE x - Floor \in Nat
    BY <1>0 DEF Times
  <2>. QED BY <2>1, Zenon
<1>2. PICK z \in T : \A y \in T : z <= y
  BY <1>1, Least, Zenon
<1>3. PICK m \in S : z = m - Floor
  BY Zenon
<1>4. ASSUME NEW x \in S PROVE m <= x
  <2>1. m - Floor <= x - Floor
    BY <1>2, <1>3, Zenon
  <2>2. m \in Int /\ x \in Int
    BY Zenon DEF Times
  <2>. QED BY <1>0, <2>1, <2>2
<1>5. Min(S) \in S /\ \A x \in S : Min(S) <= x
  BY <1>4, Zenon DEF Min
<1>. QED BY <1>5, Zenon

LEMMA MaxIs ==
    ASSUME NEW x \in Int, NEW y \in Int
    PROVE  Max({x, y}) \in {x, y} /\ Max({x, y}) >= x /\ Max({x, y}) >= y
<1>1. \E m \in {x, y} : \A z \in {x, y} : m >= z
  <2>1. CASE x >= y
    <3>1. x >= x
      OBVIOUS
    <3>. QED BY <2>1, <3>1, Zenon
  <2>2. CASE ~(x >= y)
    <3>1. y >= x /\ y >= y
      BY <2>2
    <3>. QED BY <3>1, Zenon
  <2>. QED BY <2>1, <2>2
<1>. QED BY <1>1, Zenon DEF Max

-----------------------------------------------------------------------------
\* Rate limits.
Limits == [period : 0..MaxPeriod, next : Times]

\* update_throttle_info sets a later time.
LEMMA UpdatedLater ==
    ASSUME NEW t \in Limits
    PROVE  Updated(t) \in Times /\ t.next <= Updated(t)
<1>1. PICK p \in 0..MaxPeriod, x \in Times : p = t.period /\ x = t.next
  BY DEF Limits
<1>2. Updated(t) = (IF x < -2 * p THEN 0 ELSE x) + p
  BY <1>1, Zenon DEF Updated
<1>3. p \in Nat /\ x \in Int /\ x >= Floor /\ Floor \in Int /\ Floor < 0
  BY Constants DEF Times
<1>4. /\ (IF x < -2 * p THEN 0 ELSE x) + p \in Int /\ (IF x < -2 * p THEN 0 ELSE x) + p >= Floor
      /\ x <= (IF x < -2 * p THEN 0 ELSE x) + p
  BY <1>3
<1>. QED BY <1>1, <1>2, <1>4 DEF Times

\* f satisfies the equations of NextAfter(t) up to n.
Steps(f, t, n) ==
    f = [k \in 0..n |-> IF k = 0 THEN t.next ELSE Updated([t EXCEPT !.next = f[k - 1]])]

LEMMA StepsExist ==
    ASSUME NEW t
    PROVE  \A n \in Nat : \E f : Steps(f, t, n)
<1> DEFINE T == {n \in Nat : ~ \E f : Steps(f, t, n)}
           U(x) == Updated([t EXCEPT !.next = x])
<1> SUFFICES ASSUME T # {} PROVE FALSE
  OBVIOUS
<1>1. PICK n \in T : \A y \in T : n <= y
  <2>1. T \in SUBSET Nat
    OBVIOUS
  <2>. QED BY <2>1, Least, Zenon
<1>u. ASSUME NEW f, NEW m, f = [k \in 0..m |-> IF k = 0 THEN t.next ELSE U(f[k - 1])]
      PROVE  Steps(f, t, m)
  BY <1>u, Zenon DEF Steps
<1>v. ASSUME NEW f, NEW m, Steps(f, t, m)
      PROVE  f = [k \in 0..m |-> IF k = 0 THEN t.next ELSE U(f[k - 1])]
  BY <1>v, Zenon DEF Steps
<1> HIDE DEF U
<1>2. CASE n = 0
  <2> DEFINE g == [k \in 0..0 |-> t.next]
  <2>1. g = [k \in 0..0 |-> IF k = 0 THEN t.next ELSE U(g[k - 1])]
    OBVIOUS
  <2>2. Steps(g, t, 0)
    BY <1>u, <2>1
  <2>. QED BY <1>1, <1>2, <2>2
<1>3. CASE n # 0
  <2>1. n - 1 \in Nat /\ n - 1 \notin T
    BY <1>1, <1>3
  <2>2. PICK f : Steps(f, t, n - 1)
    BY <2>1
  <2>f. f = [k \in 0..(n - 1) |-> IF k = 0 THEN t.next ELSE U(f[k - 1])]
    BY <1>v, <2>2
  <2> DEFINE g == [k \in 0..n |-> IF k = n THEN U(f[k - 1]) ELSE f[k]]
  <2>3. ASSUME NEW k \in 0..n
        PROVE  g[k] = IF k = 0 THEN t.next ELSE U(g[k - 1])
    <3>1. CASE k = n
      <4>1. k - 1 \in 0..n /\ k - 1 # n
        BY <1>1, <1>3, <3>1
      <4>. QED BY <1>3, <3>1, <4>1
    <3>2. CASE k # n
      <4>1. k \in 0..(n - 1) /\ (k # 0 => k - 1 \in 0..n /\ k - 1 # n)
        BY <1>1, <3>2
      <4>2. f[k] = IF k = 0 THEN t.next ELSE U(f[k - 1])
        BY <2>f, <4>1, Zenon
      <4>. QED BY <3>2, <4>1, <4>2
    <3>. QED BY <3>1, <3>2
  <2>4. g = [k \in 0..n |-> g[k]]
    OBVIOUS
  <2> HIDE DEF g
  <2>5. [k \in 0..n |-> g[k]] = [k \in 0..n |-> IF k = 0 THEN t.next ELSE U(g[k - 1])]
    BY <2>3
  <2>6. Steps(g, t, n)
    BY <1>u, <2>4, <2>5, Zenon
  <2>. QED BY <1>1, <2>6
<1>. QED BY <1>2, <1>3

\* However many messages are sent, the next time is one the clock can be at.
LEMMA NextAfterIs ==
    ASSUME NEW t \in Limits
    PROVE  \A k \in 0..CacheMax : NextAfter(t)[k] \in Times
<1> DEFINE f == NextAfter(t)
<1>1. \A k \in 0..CacheMax :
         f[k] = IF k = 0 THEN t.next ELSE Updated([t EXCEPT !.next = f[k - 1]])
  <2>0. CacheMax \in Nat
    BY Constants
  <2>1. \E h : Steps(h, t, CacheMax)
    BY <2>0, StepsExist, Zenon
  <2>2. f = CHOOSE h : Steps(h, t, CacheMax)
    BY Zenon DEF NextAfter, Steps
  <2>3. Steps(f, t, CacheMax)
    BY <2>1, <2>2, Zenon
  <2> HIDE DEF f
  <2>4. f = [k \in 0..CacheMax |-> IF k = 0 THEN t.next ELSE Updated([t EXCEPT !.next = f[k - 1]])]
    BY <2>3, Zenon DEF Steps
  <2>. QED BY <2>4, Zenon
<1> DEFINE T == {k \in 0..CacheMax : f[k] \notin Times}
<1> HIDE DEF f
<1> SUFFICES ASSUME T # {} PROVE FALSE
  BY DEF f
<1>2. PICK k \in T : \A y \in T : k <= y
  <2>1. T \in SUBSET Nat
    OBVIOUS
  <2>. QED BY <2>1, Least, Zenon
<1>3. k \in 0..CacheMax /\ f[k] \notin Times
  OBVIOUS
<1>4. k # 0
  <2>1. t.next \in Times
    BY DEF Limits
  <2>. QED BY <1>1, <1>3, <2>1, Zenon
<1>5. k - 1 \in 0..CacheMax /\ ~(k <= k - 1)
  BY <1>3, <1>4, Constants
<1>6. f[k - 1] \in Times
  BY <1>2, <1>5, Zenon
<1>7. PICK u : u = [t EXCEPT !.next = f[k - 1]]
  BY Zenon
<1>8. u \in Limits
  BY <1>6, <1>7 DEF Limits
<1>9. f[k] = Updated(u)
  BY <1>1, <1>3, <1>4, <1>7, Zenon
<1>. QED BY <1>3, <1>8, <1>9, UpdatedLater, Zenon

-----------------------------------------------------------------------------
\* Queues.

\* The queue q holds what f says is cached of the messages is with this id.
Holds(q, id, is, f) ==
    /\ \A i, j \in 1..Len(q) : i < j => q[i] < q[j]
    /\ \A i \in 1..Len(q) : q[i] \in 1..Len(is) /\ is[q[i]] = id /\ f[q[i]] = "cached"
    /\ \A n \in 1..Len(is) : is[n] = id /\ f[n] = "cached" => \E i \in 1..Len(q) : q[i] = n

Agree(f, g, n) == \A m \in 1..n : g[m] = f[m]

LEMMA HoldsAppend ==
    ASSUME NEW q \in Seq(Nat), NEW id, NEW S, NEW is \in Seq(S), id \in S, NEW f, NEW g, NEW n \in Nat,
           Holds(q, id, is, f), n = Len(is) + 1, Agree(f, g, Len(is)), g[n] = "cached"
    PROVE  Holds(Append(q, n), id, Append(is, id), g)
<1>1. PICK z, js : z = Append(q, n) /\ js = Append(is, id)
  BY Zenon
<1>2. /\ Len(z) = Len(q) + 1 /\ Len(q) \in Nat /\ z[Len(q) + 1] = n
      /\ \A i \in 1..Len(q) : z[i] = q[i]
  BY <1>1, Appends
<1>3. /\ Len(js) = n /\ Len(is) \in Nat /\ js[n] = id
      /\ \A i \in 1..Len(is) : js[i] = is[i]
  BY <1>1, Appends
<1>4. /\ \A i, j \in 1..Len(q) : i < j => q[i] < q[j]
      /\ \A i \in 1..Len(q) : q[i] \in 1..Len(is) /\ is[q[i]] = id /\ f[q[i]] = "cached"
      /\ \A m \in 1..Len(is) : is[m] = id /\ f[m] = "cached" => \E i \in 1..Len(q) : q[i] = m
  BY Zenon DEF Holds
<1>5. ASSUME NEW i \in 1..Len(z)
      PROVE  \/ i \in 1..Len(q) /\ z[i] = q[i] /\ z[i] \in 1..Len(is)
             \/ i = Len(q) + 1 /\ z[i] = n
  <2>1. i \in 1..Len(q) \/ i = Len(q) + 1
    BY <1>2
  <2>. QED BY <1>2, <1>4, <2>1, Zenon
<1>6. ASSUME NEW m \in 1..Len(js) PROVE m \in 1..Len(is) \/ m = n
  BY <1>3
<1>7. \A m \in 1..Len(is) : m \in 1..Len(js) /\ m < n
  BY <1>3
<1>8. n \in 1..Len(js) /\ Len(q) + 1 \in 1..Len(z)
  BY <1>2, <1>3
<1>9. ASSUME NEW i \in 1..Len(z), NEW j \in 1..Len(z), i < j PROVE z[i] < z[j]
  <2>1. i \in 1..Len(q)
    BY <1>2, <1>9
  <2>2. CASE j \in 1..Len(q)
    BY <1>2, <1>4, <1>9, <2>1, <2>2, Zenon
  <2>3. CASE j \notin 1..Len(q)
    <3>1. z[j] = n /\ z[i] = q[i] /\ q[i] \in 1..Len(is)
      BY <1>2, <1>4, <1>5, <2>1, <2>3, Zenon
    <3>. QED BY <1>7, <3>1, Zenon
  <2>. QED BY <2>2, <2>3
<1>10. ASSUME NEW i \in 1..Len(z)
       PROVE  z[i] \in 1..Len(js) /\ js[z[i]] = id /\ g[z[i]] = "cached"
  <2>1. CASE i \in 1..Len(q)
    <3>1. z[i] = q[i] /\ q[i] \in 1..Len(is) /\ is[q[i]] = id /\ f[q[i]] = "cached"
      BY <1>2, <1>4, <2>1, Zenon
    <3>2. js[q[i]] = is[q[i]] /\ g[q[i]] = f[q[i]] /\ q[i] \in 1..Len(js)
      BY <1>3, <1>7, <3>1, Zenon DEF Agree
    <3>. QED BY <3>1, <3>2, Zenon
  <2>2. CASE i \notin 1..Len(q)
    BY <1>3, <1>5, <1>8, <2>2, Zenon
  <2>. QED BY <2>1, <2>2
<1>11. ASSUME NEW m \in 1..Len(js), js[m] = id, g[m] = "cached" PROVE \E i \in 1..Len(z) : z[i] = m
  <2>1. CASE m \in 1..Len(is)
    <3>1. is[m] = id /\ f[m] = "cached"
      BY <1>3, <1>11, <2>1, Zenon DEF Agree
    <3>2. PICK i \in 1..Len(q) : q[i] = m
      BY <1>4, <2>1, <3>1, Zenon
    <3>3. i \in 1..Len(z) /\ z[i] = m
      BY <1>2, <3>2
    <3>. QED BY <3>3, Zenon
  <2>2. CASE m = n
    BY <1>2, <1>8, <2>2, Zenon
  <2>. QED BY <1>6, <2>1, <2>2, Zenon
<1>12. Holds(z, id, js, g)
  BY <1>9, <1>10, <1>11, Zenon DEF Holds
<1>. QED BY <1>1, <1>12, Zenon

\* A message that is not cached, or has another id, leaves the queue as it is.
LEMMA HoldsKept ==
    ASSUME NEW q, NEW id, NEW S, NEW is \in Seq(S), NEW x \in S, NEW f, NEW g, NEW n \in Nat,
           Holds(q, id, is, f), n = Len(is) + 1, Agree(f, g, Len(is)), x # id \/ g[n] # "cached"
    PROVE  Holds(q, id, Append(is, x), g)
<1>1. PICK js : js = Append(is, x)
  BY Zenon
<1>3. /\ Len(js) = n /\ Len(is) \in Nat /\ js[n] = x
      /\ \A i \in 1..Len(is) : js[i] = is[i]
  BY <1>1, Appends
<1>4. /\ \A i, j \in 1..Len(q) : i < j => q[i] < q[j]
      /\ \A i \in 1..Len(q) : q[i] \in 1..Len(is) /\ is[q[i]] = id /\ f[q[i]] = "cached"
      /\ \A m \in 1..Len(is) : is[m] = id /\ f[m] = "cached" => \E i \in 1..Len(q) : q[i] = m
  BY Zenon DEF Holds
<1>5. \A m \in 1..Len(js) : m \in 1..Len(is) \/ m = n
  BY <1>3
<1>6. \A m \in 1..Len(is) : m \in 1..Len(js)
  BY <1>3
<1>7. ASSUME NEW i \in 1..Len(q)
      PROVE  q[i] \in 1..Len(js) /\ js[q[i]] = id /\ g[q[i]] = "cached"
  <2>1. q[i] \in 1..Len(is) /\ is[q[i]] = id /\ f[q[i]] = "cached"
    BY <1>4, Zenon
  <2>. QED BY <1>3, <1>6, <2>1, Zenon DEF Agree
<1>8. ASSUME NEW m \in 1..Len(js), js[m] = id, g[m] = "cached" PROVE \E i \in 1..Len(q) : q[i] = m
  <2>1. m \in 1..Len(is)
    BY <1>3, <1>5, <1>8, Zenon
  <2>2. is[m] = id /\ f[m] = "cached"
    BY <1>3, <1>8, <2>1, Zenon DEF Agree
  <2>. QED BY <1>4, <2>1, <2>2, Zenon
<1>9. Holds(q, id, js, g)
  BY <1>4, <1>7, <1>8, Zenon DEF Holds
<1>. QED BY <1>1, <1>9, Zenon

\* The empty queue.
LEMMA HoldsNone ==
    ASSUME NEW id, NEW is, NEW f, \A n \in 1..Len(is) : is[n] = id => f[n] # "cached"
    PROVE  Holds(<<>>, id, is, f)
<1>1. 1..Len(<<>>) = {}
  OBVIOUS
<1>. QED BY <1>1, Zenon DEF Holds

\* The first k messages leave a queue.
Leave(q, k, id, is, f, g) ==
    \A m \in 1..Len(is) : is[m] = id =>
       (g[m] = "cached" <=> f[m] = "cached" /\ ~ \E i \in 1..k : q[i] = m)

LEMMA LeftIs ==
    ASSUME NEW S, NEW q \in Seq(S), NEW k \in 0..Len(q)
    PROVE  /\ Left(q, k) \in Seq(S) /\ Len(Left(q, k)) = Len(q) - k /\ Len(q) \in Nat
           /\ \A i \in 1..(Len(q) - k) : Left(q, k)[i] = q[k + i]
<1>1. Len(q) \in Nat /\ k + 1 \in 1..(Len(q) + 1) /\ Len(q) \in k..Len(q)
  OBVIOUS
<1>2. \A i \in (k + 1)..Len(q) : q[i] \in S
  <2>1. ASSUME NEW i \in (k + 1)..Len(q) PROVE i \in 1..Len(q)
    BY <1>1
  <2>. QED BY <2>1, ElementTyped, Zenon
<1>3. SubSeq(q, k + 1, Len(q)) \in Seq(S)
  BY <1>1, <1>2, PartOfSeq
<1>4. Len(SubSeq(q, k + 1, Len(q))) = Len(q) - k
  BY <1>1, PartOfSeq
<1>5. \A i \in 1..(Len(q) - k) : SubSeq(q, k + 1, Len(q))[i] = q[k + i]
  BY <1>1, PartOfSeq
<1>. QED BY <1>1, <1>3, <1>4, <1>5, Zenon DEF Left

LEMMA HoldsLeft ==
    ASSUME NEW q \in Seq(Nat), NEW k \in 0..Len(q), NEW id, NEW is, NEW f, NEW g,
           Holds(q, id, is, f), Leave(q, k, id, is, f, g)
    PROVE  Holds(Left(q, k), id, is, g)
<1>1. PICK z : z = Left(q, k)
  BY Zenon
<1>2. /\ Len(z) = Len(q) - k /\ Len(q) \in Nat /\ k \in Nat /\ k <= Len(q)
      /\ \A i \in 1..(Len(q) - k) : z[i] = q[k + i]
  <2>1. /\ Len(Left(q, k)) = Len(q) - k /\ Len(q) \in Nat
        /\ \A i \in 1..(Len(q) - k) : Left(q, k)[i] = q[k + i]
    BY LeftIs, Zenon
  <2>2. k \in Nat /\ k <= Len(q)
    BY <2>1
  <2>. QED BY <1>1, <2>1, <2>2, Zenon
<1>3. /\ \A i, j \in 1..Len(q) : i < j => q[i] < q[j]
      /\ \A i \in 1..Len(q) : q[i] \in 1..Len(is) /\ is[q[i]] = id /\ f[q[i]] = "cached"
      /\ \A m \in 1..Len(is) : is[m] = id /\ f[m] = "cached" => \E i \in 1..Len(q) : q[i] = m
  BY Zenon DEF Holds
<1>4. ASSUME NEW i \in 1..Len(z)
      PROVE  i \in Nat /\ k + i \in 1..Len(q) /\ z[i] = q[k + i] /\ ~(k + i \in 1..k)
  <2>1. i \in 1..(Len(q) - k) /\ i \in Nat /\ k + i \in 1..Len(q) /\ ~(k + i \in 1..k)
    BY <1>2
  <2>. QED BY <1>2, <2>1, Zenon
<1>5. ASSUME NEW i \in 1..Len(z), NEW j \in 1..Len(z), i < j PROVE z[i] < z[j]
  <2>1. k + i < k + j
    BY <1>2, <1>4, <1>5
  <2>. QED BY <1>3, <1>4, <2>1, Zenon
<1>6. ASSUME NEW i \in 1..Len(q), NEW j \in 1..Len(q), q[i] = q[j] PROVE i = j
  <2>1. ~(i < j) /\ ~(j < i)
    <3>1. q[i] \in Nat /\ q[j] \in Nat
      BY ElementTyped, Zenon
    <3>2. ~(q[i] < q[j]) /\ ~(q[j] < q[i])
      BY <1>6, <3>1
    <3>. QED BY <1>3, <3>2, Zenon
  <2>. QED BY <1>2, <2>1
<1>7. ASSUME NEW i \in 1..Len(z)
      PROVE  z[i] \in 1..Len(is) /\ is[z[i]] = id /\ g[z[i]] = "cached"
  <2>1. PICK m : m = q[k + i]
    BY Zenon
  <2>2. m \in 1..Len(is) /\ is[m] = id /\ f[m] = "cached" /\ z[i] = m
    BY <1>3, <1>4, <2>1, Zenon
  <2>3. ASSUME NEW j \in 1..k PROVE q[j] # m
    <3>1. j \in 1..Len(q)
      BY <1>2
    <3>. QED BY <1>4, <1>6, <2>1, <3>1, Zenon
  <2>. QED BY <2>2, <2>3, Zenon DEF Leave
<1>8. ASSUME NEW m \in 1..Len(is), is[m] = id, g[m] = "cached" PROVE \E i \in 1..Len(z) : z[i] = m
  <2>1. f[m] = "cached" /\ ~ \E i \in 1..k : q[i] = m
    BY <1>8, Zenon DEF Leave
  <2>2. PICK j \in 1..Len(q) : q[j] = m
    BY <1>3, <1>8, <2>1, Zenon
  <2>3. j \notin 1..k
    BY <2>1, <2>2, Zenon
  <2>4. j - k \in 1..Len(z) /\ k + (j - k) = j
    BY <1>2, <2>3
  <2>. QED BY <1>4, <2>2, <2>4, Zenon
<1>9. Holds(z, id, is, g)
  BY <1>5, <1>7, <1>8, Zenon DEF Holds
<1>. QED BY <1>1, <1>9, Zenon

-----------------------------------------------------------------------------
\* The size of a cache.
Caches == [MsgIds -> Seq(Nat)]

Small(c) == IsFiniteSet(Slots(c)) /\ Cardinality(Slots(c)) <= CacheMax

LEMMA InSlots ==
    ASSUME NEW c, NEW id, NEW i
    PROVE  <<id, i>> \in Slots(c) <=> id \in MsgIds /\ i \in 1..Len(c[id])
<1>1. ASSUME <<id, i>> \in Slots(c) PROVE id \in MsgIds /\ i \in 1..Len(c[id])
  <2>1. PICK x \in MsgIds : <<id, i>> \in {x} \X (1..Len(c[x]))
    BY <1>1, Zenon DEF Slots
  <2>2. id = x /\ i \in 1..Len(c[x])
    BY <2>1
  <2>. QED BY <2>2, Zenon
<1>2. ASSUME id \in MsgIds, i \in 1..Len(c[id]) PROVE <<id, i>> \in Slots(c)
  <2>1. <<id, i>> \in {id} \X (1..Len(c[id]))
    BY <1>2
  <2>. QED BY <1>2, <2>1, Zenon DEF Slots
<1>. QED BY <1>1, <1>2, Zenon

LEMMA SlotIsPair ==
    ASSUME NEW c, NEW x \in Slots(c)
    PROVE  \E id, i : x = <<id, i>>
<1>1. PICK id \in MsgIds : x \in {id} \X (1..Len(c[id]))
  BY Zenon DEF Slots
<1>2. x = <<x[1], x[2]>>
  BY <1>1
<1>. QED BY <1>2, Zenon

LEMMA SmallNone ==
    ASSUME NEW c, \A id \in MsgIds : c[id] = <<>>
    PROVE  Small(c)
<1>1. Slots(c) = {}
  <2> SUFFICES ASSUME NEW x \in Slots(c) PROVE FALSE
    BY Zenon
  <2>1. PICK id, i : x = <<id, i>>
    BY SlotIsPair, Zenon
  <2>2. id \in MsgIds /\ i \in 1..Len(c[id])
    BY <2>1, InSlots, Zenon
  <2>3. i \in 1..Len(<<>>)
    BY <2>2, Zenon
  <2>. QED BY <2>3
<1>2. IsFiniteSet({}) /\ Cardinality({}) = 0
  BY FS_EmptySet, Zenon
<1>3. 0 <= CacheMax
  BY Constants
<1>. QED BY <1>1, <1>2, <1>3, Zenon DEF Small

LEMMA SmallShrinks ==
    ASSUME NEW c \in Caches, NEW d \in Caches, Small(c), \A id \in MsgIds : Len(d[id]) <= Len(c[id])
    PROVE  Small(d)
<1>1. Slots(d) \in SUBSET Slots(c)
  <2> SUFFICES ASSUME NEW x \in Slots(d) PROVE x \in Slots(c)
    BY Zenon
  <2>1. PICK id, i : x = <<id, i>>
    BY SlotIsPair, Zenon
  <2>2. id \in MsgIds /\ i \in 1..Len(d[id])
    BY <2>1, InSlots, Zenon
  <2>3. PICK h \in Nat, k \in Nat : h = Len(d[id]) /\ k = Len(c[id])
    <3>1. d[id] \in Seq(Nat) /\ c[id] \in Seq(Nat)
      BY <2>2, Zenon DEF Caches
    <3>. QED BY <3>1, LenIsNat, Zenon
  <2>4. i \in 1..h /\ h <= k
    BY <2>2, <2>3, Zenon
  <2>5. i \in 1..k
    BY <2>4
  <2>. QED BY <2>1, <2>2, <2>3, <2>5, InSlots, Zenon
<1>2. IsFiniteSet(Slots(c)) /\ Cardinality(Slots(c)) <= CacheMax
  BY Zenon DEF Small
<1>3. IsFiniteSet(Slots(d)) /\ Cardinality(Slots(d)) <= Cardinality(Slots(c))
  BY <1>1, <1>2, FS_Subset, Zenon
<1>4. PICK h \in Nat, k \in Nat : h = Cardinality(Slots(d)) /\ k = Cardinality(Slots(c))
  BY <1>2, <1>3, FS_CardinalityType, Zenon
<1>5. h <= k /\ k <= CacheMax
  BY <1>2, <1>3, <1>4, Zenon
<1>6. h <= CacheMax
  BY <1>5, Constants
<1>. QED BY <1>3, <1>4, <1>6, Zenon DEF Small

LEMMA SmallGrows ==
    ASSUME NEW c \in Caches, Small(c), ~(Cardinality(Slots(c)) >= CacheMax),
           NEW id \in MsgIds, NEW n \in Nat
    PROVE  Small([c EXCEPT ![id] = Append(@, n)])
<1>1. PICK d : d = [c EXCEPT ![id] = Append(@, n)]
  BY Zenon
<1>2. c[id] \in Seq(Nat) /\ \A x \in MsgIds : d[x] = IF x = id THEN Append(c[id], n) ELSE c[x]
  BY <1>1 DEF Caches
<1>3. PICK h \in Nat : h = Len(c[id]) /\ Len(Append(c[id], n)) = h + 1
  BY <1>2, Appends
<1>4. Slots(d) = Slots(c) \cup {<<id, h + 1>>}
  <2>1. ASSUME NEW x, NEW i \in Nat
        PROVE  <<x, i>> \in Slots(d) <=> <<x, i>> \in Slots(c) \/ (x = id /\ i = h + 1)
    <3>1. <<x, i>> \in Slots(d) <=> x \in MsgIds /\ i \in 1..Len(d[x])
      BY InSlots, Zenon
    <3>2. <<x, i>> \in Slots(c) <=> x \in MsgIds /\ i \in 1..Len(c[x])
      BY InSlots, Zenon
    <3>3. CASE x = id
      <4>1. Len(d[x]) = h + 1 /\ Len(c[x]) = h
        BY <1>2, <1>3, <3>3, Zenon
      <4>2. i \in 1..(h + 1) <=> i \in 1..h \/ i = h + 1
        OBVIOUS
      <4>. QED BY <3>1, <3>2, <3>3, <4>1, <4>2, Zenon
    <3>4. CASE x # id
      BY <1>2, <3>1, <3>2, <3>4, Zenon
    <3>. QED BY <3>3, <3>4
  <2>2. \A x, i : <<x, i>> \in Slots(d) \/ <<x, i>> \in Slots(c) => i \in Nat
    <3>1. ASSUME NEW q, NEW i \in 1..Len(q) PROVE i \in Nat
      OBVIOUS
    <3>. QED BY <3>1, InSlots, Zenon
  <2>3. ASSUME NEW y PROVE y \in Slots(d) <=> y \in Slots(c) \/ y = <<id, h + 1>>
    <3>1. h + 1 \in Nat
      OBVIOUS
    <3>2. ASSUME y \in Slots(d) PROVE y \in Slots(c) \/ y = <<id, h + 1>>
      <4>1. PICK x, i : y = <<x, i>>
        BY <3>2, SlotIsPair, Zenon
      <4>2. i \in Nat /\ <<x, i>> \in Slots(d)
        BY <2>2, <3>2, <4>1, Zenon
      <4>3. <<x, i>> \in Slots(c) \/ (x = id /\ i = h + 1)
        BY <2>1, <4>2, Zenon
      <4>. QED BY <4>1, <4>3, Zenon
    <3>3. ASSUME y \in Slots(c) PROVE y \in Slots(d)
      <4>1. PICK x, i : y = <<x, i>>
        BY <3>3, SlotIsPair, Zenon
      <4>2. i \in Nat /\ <<x, i>> \in Slots(c)
        BY <2>2, <3>3, <4>1, Zenon
      <4>3. <<x, i>> \in Slots(d)
        BY <2>1, <4>2, Zenon
      <4>. QED BY <4>1, <4>3, Zenon
    <3>4. <<id, h + 1>> \in Slots(d)
      BY <2>1, <3>1, Zenon
    <3>. QED BY <3>2, <3>3, <3>4, Zenon
  <2>. QED BY <2>3, Zenon
<1>5. IsFiniteSet(Slots(c))
  BY Zenon DEF Small
<1>6. PICK k \in Nat : k = Cardinality(Slots(c))
  BY <1>5, FS_CardinalityType, Zenon
<1>7. /\ IsFiniteSet(Slots(d))
      /\ Cardinality(Slots(d)) = k \/ Cardinality(Slots(d)) = k + 1
  <2>1. PICK S, x : S = Slots(c) /\ x = <<id, h + 1>>
    BY Zenon
  <2>2. IsFiniteSet(S) /\ Slots(d) = S \cup {x} /\ k = Cardinality(S)
    BY <1>4, <1>5, <1>6, <2>1, Zenon
  <2>3. /\ IsFiniteSet(S \cup {x})
        /\ Cardinality(S \cup {x}) = IF x \in S THEN Cardinality(S) ELSE Cardinality(S) + 1
    BY <2>2, FS_AddElement, Zenon
  <2>. QED BY <2>2, <2>3, Zenon
<1>8. ~(k >= CacheMax)
  BY <1>6, Zenon
<1>9. k <= CacheMax /\ k + 1 <= CacheMax
  BY <1>8, Constants
<1>10. Cardinality(Slots(d)) <= CacheMax
  BY <1>7, <1>9, Zenon
<1>. QED BY <1>1, <1>7, <1>10, Zenon DEF Small

LEMMA QueueFits ==
    ASSUME NEW c \in Caches, Small(c), NEW id \in MsgIds
    PROVE  Len(c[id]) \in 0..CacheMax
<1>1. PICK h \in Nat : h = Len(c[id])
  <2>1. c[id] \in Seq(Nat)
    BY Zenon DEF Caches
  <2>. QED BY <2>1, LenIsNat, Zenon
<1>2. {id} \X (1..h) \in SUBSET Slots(c)
  BY <1>1, Zenon DEF Slots
<1>3. IsFiniteSet(Slots(c)) /\ Cardinality(Slots(c)) <= CacheMax
  BY Zenon DEF Small
<1>4. PICK P : P = {id} \X (1..h) /\ Cardinality(P) = h
  <2>1. IsFiniteSet({id}) /\ Cardinality({id}) = 1
    BY FS_Singleton, Zenon
  <2>2. IsFiniteSet(1..h) /\ Cardinality(1..h) = h
    BY FS_Interval
  <2>3. PICK A, B : A = {id} /\ B = 1..h
    BY Zenon
  <2>4. IsFiniteSet(A) /\ Cardinality(A) = 1 /\ IsFiniteSet(B) /\ Cardinality(B) = h
    BY <2>1, <2>2, <2>3, Zenon
  <2>5. Cardinality(A \X B) = Cardinality(A) * Cardinality(B)
    BY <2>4, FS_Product, Zenon
  <2>6. Cardinality(A \X B) = h
    BY <2>4, <2>5
  <2>. QED BY <2>3, <2>6, Zenon
<1>5. h <= Cardinality(Slots(c))
  <2>1. PICK S : S = Slots(c)
    BY Zenon
  <2>2. IsFiniteSet(S) /\ P \in SUBSET S
    BY <1>2, <1>3, <1>4, <2>1, Zenon
  <2>3. Cardinality(P) <= Cardinality(S)
    BY <2>2, FS_Subset, Zenon
  <2>. QED BY <1>4, <2>1, <2>3, Zenon
<1>6. PICK k \in Nat : k = Cardinality(Slots(c))
  BY <1>3, FS_CardinalityType, Zenon
<1>7. h <= k /\ k <= CacheMax
  BY <1>3, <1>5, <1>6, Zenon
<1>8. h \in 0..CacheMax
  BY <1>7, Constants
<1>. QED BY <1>1, <1>8, Zenon

-----------------------------------------------------------------------------
\* The timer.
LEMMA Division ==
    ASSUME NEW a \in Nat, NEW t \in Nat \ {0}
    PROVE  /\ a \div t \in Nat /\ t * (a \div t) <= a
           /\ a >= t => a \div t >= 1
  OBVIOUS

LEMMA Positive == \A x, y \in Nat \ {0} : x * y \in Nat \ {0}
  OBVIOUS

\* The bound on the delay for a deadline in d ticks.
Bound(d) == Max({d + TicksPerMs - 1, RetryMs * TicksPerMs})

LEMMA BoundIs ==
    ASSUME NEW d \in Int
    PROVE  /\ Bound(d) \in Int /\ Bound(d) >= d + TicksPerMs - 1
           /\ Bound(d) >= RetryMs * TicksPerMs /\ RetryMs * TicksPerMs \in Nat \ {0}
           /\ Bound(d) = d + TicksPerMs - 1 \/ Bound(d) = RetryMs * TicksPerMs
<1>1. TicksPerMs \in Nat \ {0} /\ RetryMs \in Nat \ {0}
  BY Constants, Zenon
<1>2. RetryMs * TicksPerMs \in Nat \ {0}
  BY <1>1, Positive, Zenon
<1>3. PICK x \in Int, y \in Int : x = d + TicksPerMs - 1 /\ y = RetryMs * TicksPerMs
  <2>1. d + TicksPerMs - 1 \in Int
    BY <1>1
  <2>2. RetryMs * TicksPerMs \in Int
    BY <1>2
  <2>. QED BY <2>1, <2>2, Zenon
<1>4. Max({x, y}) \in {x, y} /\ Max({x, y}) >= x /\ Max({x, y}) >= y
  BY MaxIs, Zenon
<1>5. Bound(d) = Max({x, y})
  BY <1>3, Zenon DEF Bound
<1>. QED BY <1>2, <1>3, <1>4, <1>5, Zenon

LEMMA BoundGrows ==
    ASSUME NEW d \in Int, NEW f \in Int, d <= f
    PROVE  Bound(d) <= Bound(f)
<1>1. PICK b \in Int, c \in Int, y \in Int : b = Bound(d) /\ c = Bound(f) /\ y = RetryMs * TicksPerMs
  <2>1. RetryMs * TicksPerMs \in Int
    <3>1. RetryMs * TicksPerMs \in Nat \ {0}
      BY BoundIs, Zenon
    <3>. QED BY <3>1
  <2>. QED BY <2>1, BoundIs, Zenon
<1>2. b = d + TicksPerMs - 1 \/ b = y
  BY <1>1, BoundIs, Zenon
<1>3. c >= f + TicksPerMs - 1 /\ c >= y
  BY <1>1, BoundIs, Zenon
<1>4. TicksPerMs \in Int
  BY Constants
<1>5. b <= c
  BY <1>2, <1>3, <1>4
<1>. QED BY <1>1, <1>5, Zenon

LEMMA DelayIs ==
    ASSUME NEW d \in Int
    PROVE  Delay(d) \in Nat \ {0} /\ Delay(d) <= Bound(d)
<1>1. TicksPerMs \in Nat \ {0} /\ RetryMs \in Nat \ {0}
  BY Constants, Zenon
<1>2. CASE d <= 0
  <2>1. Delay(d) = TicksPerMs * RetryMs
    BY <1>2, Zenon DEF Delay
  <2>2. TicksPerMs * RetryMs = RetryMs * TicksPerMs
    BY <1>1
  <2>3. PICK b \in Int, y \in Nat \ {0} : b = Bound(d) /\ y = RetryMs * TicksPerMs /\ b >= y
    BY BoundIs, Zenon
  <2>4. y <= b
    BY <2>3
  <2>. QED BY <2>1, <2>2, <2>3, <2>4, Zenon
<1>3. CASE ~(d <= 0)
  <2>1. PICK a \in Nat : a = d + TicksPerMs - 1 /\ a >= TicksPerMs
    <3>1. d + TicksPerMs - 1 \in Nat /\ d + TicksPerMs - 1 >= TicksPerMs
      BY <1>1, <1>3
    <3>. QED BY <3>1, Zenon
  <2>2. Delay(d) = TicksPerMs * (a \div TicksPerMs)
    BY <1>3, <2>1, Zenon DEF Delay
  <2>3. PICK k \in Nat : k = a \div TicksPerMs /\ TicksPerMs * k <= a /\ k >= 1
    BY <1>1, <2>1, Division, Zenon
  <2>4. TicksPerMs * k \in Nat \ {0}
    <3>1. k \in Nat \ {0}
      BY <2>3
    <3>. QED BY <1>1, <3>1, Positive, Zenon
  <2>5. PICK b \in Int, x \in Nat : b = Bound(d) /\ b >= a /\ x = TicksPerMs * k /\ x <= a
    <3>1. TicksPerMs * k \in Nat
      BY <2>4, Zenon
    <3>. QED BY <2>1, <2>3, <3>1, BoundIs, Zenon
  <2>6. x <= b
    BY <2>5
  <2>. QED BY <2>2, <2>3, <2>4, <2>5, <2>6, Zenon
<1>. QED BY <1>2, <1>3

-----------------------------------------------------------------------------
\* Deadlines.
AllCaches == [Endpoints -> Caches]

AllLimits == [Endpoints -> [MsgIds -> Limits]]

\* The time at which a queue with this limit is due.
DueAt(l) == IF l.period = 0 THEN Floor ELSE l.next

LEMMA DueAtIs == \A l \in Limits : DueAt(l) \in Times
<1> SUFFICES ASSUME NEW l \in Limits PROVE DueAt(l) \in Times
  OBVIOUS
<1>1. l.next \in Times
  BY DEF Limits
<1>. QED BY <1>1, Constants, Zenon DEF DueAt

LEMMA DeadlineIs ==
    ASSUME NEW e \in Endpoints, NEW c, NEW t \in AllLimits, NEW i \in MsgIds, c[e][i] # <<>>
    PROVE  /\ Deadline(e, c, t) \in Times
           /\ \A id \in MsgIds : c[e][id] # <<>> => Deadline(e, c, t) <= DueAt(t[e][id])
           /\ \E id \in MsgIds : c[e][id] # <<>> /\ Deadline(e, c, t) = DueAt(t[e][id])
<1> DEFINE W == {x \in MsgIds : c[e][x] # <<>>}
           S == {DueAt(t[e][id]) : id \in W}
<1>1. Deadline(e, c, t) = Min(S)
  BY Zenon DEF Deadline, DueAt
<1>2. ASSUME NEW id \in MsgIds PROVE DueAt(t[e][id]) \in Times
  <2>1. t[e][id] \in Limits
    BY Zenon DEF AllLimits
  <2>. QED BY <2>1, DueAtIs, Zenon
<1>3. S \in SUBSET Times /\ S # {}
  BY <1>2, Zenon
<1>4. Min(S) \in S /\ Min(S) \in Times /\ \A x \in S : Min(S) <= x
  <2> HIDE DEF S
  <2>. QED BY <1>3, MinIs, Zenon
<1>. QED BY <1>1, <1>4, Zenon

\* An endpoint of g has cached messages.
Waits(g, c, e) == e \in g /\ \E id \in MsgIds : c[e][id] # <<>>

\* The timer is set for the earliest deadline.
LEMMA RescheduledIs ==
    ASSUME NEW g \in SUBSET Endpoints, NEW c, NEW t \in AllLimits
    PROVE  /\ Rescheduled(g, c, t) \in Int /\ Rescheduled(g, c, t) >= Off
           /\ \A e : Waits(g, c, e) => /\ Rescheduled(g, c, t) # Off
                                       /\ Rescheduled(g, c, t) <= Bound(Deadline(e, c, t))
<1> DEFINE W == {e \in g : \E id \in MsgIds : c[e][id] # <<>>}
           S == {Deadline(e, c, t) : e \in W}
<1>1. Rescheduled(g, c, t) = IF W = {} THEN Off ELSE Armed(Delay(Min(S)))
  BY Zenon DEF Rescheduled
<1>2. \A e : Waits(g, c, e) <=> e \in W
  BY Zenon DEF Waits
<1>3. CASE W = {}
  <2>1. Off \in Int /\ Off >= Off
    BY DEF Off
  <2>. QED BY <1>1, <1>2, <1>3, <2>1, Zenon
<1>4. CASE W # {}
  <2>1. ASSUME NEW e \in W PROVE Deadline(e, c, t) \in Times
    BY DeadlineIs, Zenon
  <2>2. S \in SUBSET Times /\ S # {}
    BY <1>4, <2>1, Zenon
  <2>3. PICK m \in Times : m = Min(S) /\ \A e \in W : m <= Deadline(e, c, t)
    <3>1. Min(S) \in Times /\ \A x \in S : Min(S) <= x
      <4> HIDE DEF S
      <4>. QED BY <2>2, MinIs, Zenon
    <3>. QED BY <3>1, Zenon
  <2>4. m \in Int
    BY Zenon DEF Times
  <2>5. PICK y \in Nat \ {0} : y = Delay(m) /\ y <= Bound(m)
    BY <2>4, DelayIs, Zenon
  <2>6. Rescheduled(g, c, t) = y
    <3>1. y # 0
      OBVIOUS
    <3>. QED BY <1>1, <1>4, <2>3, <2>5, <3>1, Zenon DEF Armed
  <2>7. y \in Int /\ y >= Off /\ y # Off
    BY DEF Off
  <2>8. ASSUME NEW e \in W PROVE y <= Bound(Deadline(e, c, t))
    <3>1. PICK d \in Int : d = Deadline(e, c, t) /\ m <= d
      BY <2>1, <2>3, Zenon DEF Times
    <3>2. Bound(m) <= Bound(d) /\ Bound(m) \in Int /\ Bound(d) \in Int
      BY <2>4, <3>1, BoundGrows, BoundIs, Zenon
    <3>3. PICK a \in Int, b \in Int : a = Bound(m) /\ b = Bound(d)
      BY <3>2, Zenon
    <3>4. y <= a /\ a <= b
      BY <2>5, <3>2, <3>3, Zenon
    <3>5. y <= b
      BY <3>4
    <3>. QED BY <3>1, <3>3, <3>5, Zenon
  <2>. QED BY <1>2, <2>6, <2>7, <2>8, Zenon
<1>. QED BY <1>3, <1>4

-----------------------------------------------------------------------------
\* resend_cached_msgs.
LEMMA DueIs ==
    ASSUME NEW e, NEW id, cache[e][id] \in Seq(Nat)
    PROVE  Due(e, id) \in 0..Len(cache[e][id])
<1>0. PICK n \in Nat : n = Len(cache[e][id])
  BY LenIsNat, Zenon
<1>1. PICK t : t = throttle[e][id]
  BY Zenon
<1> DEFINE S == {k \in 0..n : k = n \/ NextAfter(t)[k] > 0}
<1>2. Due(e, id) = IF t.period = 0 THEN n ELSE Min(S)
  BY <1>0, <1>1, Zenon DEF Due
<1>3. n \in 0..n
  OBVIOUS
<1>4. S \in SUBSET Times /\ S # {}
  <2>1. ASSUME NEW k \in 0..n PROVE k \in Times
    BY Constants DEF Times
  <2>. QED BY <1>3, <2>1, Zenon
<1>5. Min(S) \in 0..n
  <2>1. Min(S) \in S
    <3> HIDE DEF S
    <3>. QED BY <1>4, MinIs, Zenon
  <2>. QED BY <2>1, Zenon
<1>. QED BY <1>0, <1>2, <1>3, <1>5, Zenon

\* A queue loses a first part of its messages.
Fits(x, e) == x.open \in BOOLEAN /\ \A id \in MsgIds : x.sent[id] \in 0..Len(cache[e][id])

LEMMA UpTo == ASSUME NEW n \in Nat, NEW d \in 0..n
              PROVE  0 \in 0..n /\ \A k \in 0..d : k \in 0..n
  OBVIOUS

LEMMA ResultsFit ==
    ASSUME NEW e, cache[e] \in Caches, NEW x \in ResendResults(e)
    PROVE  Fits(x, e)
<1>1. ASSUME NEW id \in MsgIds
      PROVE  /\ Due(e, id) \in 0..Len(cache[e][id]) /\ 0 \in 0..Len(cache[e][id])
             /\ \A k \in 0..Due(e, id) : k \in 0..Len(cache[e][id])
  <2>1. cache[e][id] \in Seq(Nat)
    BY Zenon DEF Caches
  <2>2. Len(cache[e][id]) \in Nat /\ Due(e, id) \in 0..Len(cache[e][id])
    BY <2>1, DueIs, LenIsNat, Zenon
  <2>. QED BY <2>2, UpTo, Zenon
<1>2. ASSUME NEW id \in MsgIds, NEW k \in 0..Due(e, id), NEW b \in BOOLEAN,
             x = [sent |-> SentUpTo(e, id, k), open |-> b]
      PROVE  Fits(x, e)
  <2>1. x.open = b /\ x.sent = SentUpTo(e, id, k)
    BY <1>2
  <2>2. \A i \in MsgIds : x.sent[i] \in {Due(e, i), 0} \/ (i = id /\ x.sent[i] = k)
    BY <2>1, Zenon DEF SentUpTo
  <2>. QED BY <1>1, <2>1, <2>2, Zenon DEF Fits
<1>3. CASE x = Drained(e)
  <2>1. CASE e \in open
    <3>1. x = [sent |-> [i \in MsgIds |-> Due(e, i)], open |-> TRUE]
      BY <1>3, <2>1, Zenon DEF Drained
    <3>2. x.open = TRUE /\ \A i \in MsgIds : x.sent[i] = Due(e, i)
      BY <3>1
    <3>. QED BY <1>1, <3>2, Zenon DEF Fits
  <2>2. CASE e \notin open
    <3>1. x = [sent |-> [i \in MsgIds |-> 0], open |-> FALSE]
      BY <1>3, <2>2, Zenon DEF Drained
    <3>2. x.open = FALSE /\ \A i \in MsgIds : x.sent[i] = 0
      BY <3>1
    <3>. QED BY <1>1, <3>2, Zenon DEF Fits
  <2>. QED BY <2>1, <2>2
<1>4. CASE x # Drained(e)
  <2>1. PICK id \in MsgIds :
           \/ \E k \in 0..Due(e, id) : x = [sent |-> SentUpTo(e, id, k), open |-> TRUE]
           \/ \E k \in (IF e \in CanClose THEN 0..(Due(e, id) - 1) ELSE {}) :
                 x = [sent |-> SentUpTo(e, id, k), open |-> FALSE]
    BY <1>4, Zenon DEF ResendResults
  <2>2. CASE \E k \in 0..Due(e, id) : x = [sent |-> SentUpTo(e, id, k), open |-> TRUE]
    BY <1>2, <2>2, Zenon
  <2>3. CASE \E k \in (IF e \in CanClose THEN 0..(Due(e, id) - 1) ELSE {}) :
                x = [sent |-> SentUpTo(e, id, k), open |-> FALSE]
    <3>1. PICK k \in 0..(Due(e, id) - 1) : x = [sent |-> SentUpTo(e, id, k), open |-> FALSE]
      BY <2>3, Zenon
    <3>2. PICK d \in Nat : d = Due(e, id)
      <4>1. Due(e, id) \in Nat
        BY <1>1
      <4>. QED BY <4>1, Zenon
    <3>3. k \in 0..d
      BY <3>2
    <3>. QED BY <1>2, <3>1, <3>2, <3>3, Zenon
  <2>. QED BY <2>1, <2>2, <2>3
<1>. QED BY <1>3, <1>4

-----------------------------------------------------------------------------
\* The inductive invariant.
Fates == {"none", "cached", "handed", "dropped"}

Types ==
    /\ g_endpoints \in SUBSET Endpoints
    /\ ids \in Seq(MsgIds) /\ 1..Len(ids) \subseteq Messages
    /\ cache \in AllCaches
    /\ fate \in [Endpoints -> [Messages -> Fates]]
    /\ throttle \in AllLimits
    /\ timer \in Int /\ timer >= Off

\* No message has a fate before it is routed.
NoneAfter(f, n) == \A m \in Messages : m > n => f[m] = "none"

\* The queues c of an endpoint, of whose messages f tells the fate.
Queues(c, f, is, e) ==
    /\ Small(c)
    /\ NoneAfter(f, Len(is))
    /\ \A id \in MsgIds : Holds(c[id], id, is, f) /\ (c[id] # <<>> => id \in Cacheable[e])

CacheInv == Types /\ \A e \in Endpoints : Queues(cache[e], fate[e], ids, e)

LEMMA MessagesAreNat == Messages \subseteq Nat \ {0}
<1>1. ASSUME NEW n \in Messages PROVE n \in Nat \ {0}
  <2>1. PICK e \in Endpoints : n \in 1..MaxMsgs[e]
    BY Zenon DEF Messages
  <2>. QED BY <2>1
<1>. QED BY <1>1, Zenon

LEMMA InitCache == Init => CacheInv
<1> SUFFICES ASSUME Init PROVE CacheInv
  OBVIOUS
<1>1. <<>> \in Seq(Nat) /\ <<>> \in Seq(MsgIds) /\ Len(<<>>) = 0 /\ 1..0 = {}
  OBVIOUS
<1>2. g_endpoints \in SUBSET Endpoints /\ ids = <<>> /\ timer = Off
  BY ThrottleCacheAssumption, Zenon DEF Init
<1>3. /\ cache = [e \in Endpoints |-> [id \in MsgIds |-> <<>>]]
      /\ fate = [e \in Endpoints |-> [n \in Messages |-> "none"]]
      /\ throttle = [e \in Endpoints |->
                        [id \in MsgIds |-> [period |-> Rates[e][id], next |-> 0]]]
  BY Zenon DEF Init
<1>4. throttle \in AllLimits
  <2>1. ASSUME NEW e \in Endpoints, NEW id \in MsgIds
        PROVE  [period |-> Rates[e][id], next |-> 0] \in Limits
    <3>1. Rates[e][id] \in 0..MaxPeriod
      <4>1. Rates \in [Endpoints -> [MsgIds -> 0..MaxPeriod]]
        BY ThrottleCacheAssumption
      <4>. QED BY <4>1
    <3>2. PICK x \in 0..MaxPeriod : x = Rates[e][id]
      BY <3>1, Zenon
    <3>3. [period |-> x, next |-> 0] \in Limits
      BY Constants DEF Limits
    <3>. QED BY <3>2, <3>3, Zenon
  <2>. QED BY <1>3, <2>1, Zenon DEF AllLimits
<1>5. cache \in AllCaches
  BY <1>1, <1>3, Zenon DEF AllCaches, Caches
<1>6. fate \in [Endpoints -> [Messages -> Fates]]
  BY <1>3, Zenon DEF Fates
<1>7. timer \in Int /\ timer >= Off
  BY <1>2 DEF Off
<1>8. Types
  BY <1>1, <1>2, <1>4, <1>5, <1>6, <1>7, Zenon DEF Types
<1>9. ASSUME NEW e \in Endpoints PROVE Queues(cache[e], fate[e], ids, e)
  <2>1. \A id \in MsgIds : cache[e][id] = <<>>
    BY <1>3, Zenon
  <2>2. Small(cache[e])
    BY <2>1, SmallNone, Zenon
  <2>3. ASSUME NEW id \in MsgIds PROVE Holds(cache[e][id], id, ids, fate[e])
    <3>1. \A n \in 1..Len(ids) : ids[n] = id => fate[e][n] # "cached"
      BY <1>1, <1>2, Zenon
    <3>. QED BY <2>1, <3>1, HoldsNone, Zenon
  <2>4. NoneAfter(fate[e], Len(ids))
    BY <1>3, Zenon DEF NoneAfter
  <2>. QED BY <2>1, <2>2, <2>3, <2>4, Zenon DEF Queues
<1>. QED BY <1>8, <1>9, Zenon DEF CacheInv

-----------------------------------------------------------------------------
\* Steps that leave the queues alone.
LEMMA SameQueues ==
    ASSUME CacheInv, Types', UNCHANGED <<cache, fate, ids>>
    PROVE  CacheInv'
<1>1. cache' = cache /\ fate' = fate /\ ids' = ids
  BY Zenon
<1>2. ASSUME NEW e \in Endpoints PROVE Queues(cache'[e], fate'[e], ids', e)
  <2>1. Queues(cache[e], fate[e], ids, e)
    BY Zenon DEF CacheInv
  <2>. QED BY <1>1, <2>1, Zenon
<1>. QED BY <1>2, Zenon DEF CacheInv

\* A tick of the clock, for one rate limit.
Ticked(l) == [l EXCEPT !.next = IF l.period = 0 THEN 0 ELSE Max({l.next - 1, Floor})]

LEMMA TickedIs ==
    ASSUME NEW l \in Limits
    PROVE  /\ Ticked(l) \in Limits /\ Ticked(l).period = l.period
           /\ DueAt(l) - 1 <= DueAt(Ticked(l))
<1>1. PICK p \in 0..MaxPeriod, x \in Times : p = l.period /\ x = l.next
  BY DEF Limits
<1>2. x \in Int /\ x >= Floor /\ Floor \in Int /\ x - 1 \in Int
  BY Constants DEF Times
<1>a. PICK u \in Int, v \in Int : u = x - 1 /\ v = Floor
  BY <1>2, Zenon
<1>b. Max({u, v}) \in {u, v} /\ Max({u, v}) >= u /\ Max({u, v}) >= v
  BY MaxIs, Zenon
<1>c. PICK m : m = Max({u, v})
  BY Zenon
<1>3. m = Max({x - 1, Floor}) /\ m \in {u, v} /\ m >= u /\ m >= v
  BY <1>a, <1>b, <1>c, Zenon
<1>4. m \in Times /\ 0 \in Times
  BY <1>2, <1>3, <1>a, Constants DEF Times
<1>5. PICK y \in Times : y = IF p = 0 THEN 0 ELSE m
  BY <1>4, Zenon
<1>6. Ticked(l) = [l EXCEPT !.next = y]
  BY <1>1, <1>3, <1>5, Zenon DEF Ticked
<1>7. Ticked(l) \in Limits /\ Ticked(l).period = p /\ Ticked(l).next = y
  BY <1>1, <1>6 DEF Limits
<1>8. DueAt(l) = (IF p = 0 THEN Floor ELSE x) /\ DueAt(Ticked(l)) = (IF p = 0 THEN Floor ELSE y)
  BY <1>1, <1>7, Zenon DEF DueAt
<1>9. CASE p = 0
  <2>1. Floor - 1 <= Floor
    BY <1>2
  <2>. QED BY <1>1, <1>7, <1>8, <1>9, <2>1, Zenon
<1>10. CASE p # 0
  <2>1. y \in Int /\ y = m
    BY <1>5, <1>10, Zenon DEF Times
  <2>2. x - 1 <= y
    BY <1>2, <1>3, <1>a, <2>1
  <2>. QED BY <1>1, <1>7, <1>8, <1>10, <2>2, Zenon
<1>. QED BY <1>9, <1>10

LEMMA TickThrottle ==
    ASSUME Tick, throttle \in AllLimits
    PROVE  /\ throttle' \in AllLimits
           /\ \A e \in Endpoints, id \in MsgIds : throttle'[e][id] = Ticked(throttle[e][id])
<1>1. throttle' = [e \in Endpoints |-> [id \in MsgIds |-> Ticked(throttle[e][id])]]
  BY Zenon DEF Tick, Ticked
<1>2. ASSUME NEW e \in Endpoints, NEW id \in MsgIds PROVE Ticked(throttle[e][id]) \in Limits
  <2>1. throttle[e][id] \in Limits
    BY Zenon DEF AllLimits
  <2>. QED BY <2>1, TickedIs, Zenon
<1>. QED BY <1>1, <1>2, Zenon DEF AllLimits

LEMMA TickCache ==
    ASSUME CacheInv, Tick
    PROVE  CacheInv'
<1>1. UNCHANGED <<g_endpoints, cache, ids, fate>>
  BY Zenon DEF Tick
<1>2. throttle' \in AllLimits
  BY TickThrottle, Zenon DEF CacheInv, Types
<1>3. timer' \in Int /\ timer' >= Off
  <2>1. timer \in Int /\ timer >= Off
    BY Zenon DEF CacheInv, Types
  <2>2. timer' = IF timer > 0 THEN timer - 1 ELSE timer
    BY Zenon DEF Tick
  <2>. QED BY <2>1, <2>2 DEF Off
<1>4. Types'
  BY <1>1, <1>2, <1>3, Zenon DEF CacheInv, Types
<1>. QED BY <1>1, <1>4, SameQueues, Zenon

LEMMA OpenCache ==
    ASSUME CacheInv, NEW e, Close(e) \/ Reopen(e)
    PROVE  CacheInv'
<1>1. UNCHANGED <<g_endpoints, throttle, cache, timer, ids, fate>>
  BY Zenon DEF Close, Reopen
<1>2. Types'
  BY <1>1, Zenon DEF CacheInv, Types
<1>. QED BY <1>1, <1>2, SameQueues, Zenon

\* The limit that set_message_throttling leaves behind.
Limited(l, period) ==
    [period |-> period, next |-> IF period = 0 \/ l.period = 0 THEN 0 ELSE l.next]

SetsLimit(e, id, period) ==
    \A f \in Endpoints, i \in MsgIds :
       throttle'[f][i] = IF f = e /\ i = id THEN Limited(throttle[e][id], period)
                         ELSE throttle[f][i]

LEMMA ThrottleSets ==
    ASSUME NEW e \in Endpoints, NEW id \in MsgIds, NEW period \in 0..MaxPeriod,
           throttle \in AllLimits, Throttle(e, id, period)
    PROVE  throttle' \in AllLimits /\ SetsLimit(e, id, period)
<1>1. throttle' = [throttle EXCEPT ![e][id] = Limited(throttle[e][id], period)]
  BY Zenon DEF Throttle, Limited
<1>2. throttle[e][id] \in Limits
  BY Zenon DEF AllLimits
<1>3. PICK l : l = Limited(throttle[e][id], period)
  BY Zenon
<1>4. l \in Limits
  <2>1. PICK o \in Limits : o = throttle[e][id]
    BY <1>2, Zenon
  <2>2. o.next \in Times /\ 0 \in Times
    BY Constants DEF Limits
  <2>3. PICK y \in Times : y = IF period = 0 \/ o.period = 0 THEN 0 ELSE o.next
    BY <2>2, Zenon
  <2>4. l = [period |-> period, next |-> y]
    BY <1>3, <2>1, <2>3, Zenon DEF Limited
  <2>. QED BY <2>4 DEF Limits
<1>5. throttle' = [throttle EXCEPT ![e][id] = l]
  BY <1>1, <1>3, Zenon
<1>6. /\ throttle' \in AllLimits
      /\ \A f \in Endpoints, i \in MsgIds :
            throttle'[f][i] = IF f = e /\ i = id THEN l ELSE throttle[f][i]
  BY <1>4, <1>5 DEF AllLimits
<1>. QED BY <1>3, <1>6, Zenon DEF SetsLimit

LEMMA ThrottleCommand ==
    ASSUME CacheInv, NEW e \in g_endpoints, NEW id \in Allowed[e], NEW period \in NewRates[e]
    PROVE  e \in Endpoints /\ id \in MsgIds /\ period \in 0..MaxPeriod
<1>1. e \in Endpoints
  BY Zenon DEF CacheInv, Types
<1>2. Allowed \in [Endpoints -> SUBSET MsgIds] /\ NewRates \in [Endpoints -> SUBSET (0..MaxPeriod)]
  BY ThrottleCacheAssumption
<1>3. Allowed[e] \in SUBSET MsgIds /\ NewRates[e] \in SUBSET (0..MaxPeriod)
  BY <1>1, <1>2
<1>. QED BY <1>1, <1>3, Zenon

LEMMA ThrottleKeeps ==
    ASSUME CacheInv, NEW e \in g_endpoints, NEW id \in Allowed[e], NEW period \in NewRates[e],
           Throttle(e, id, period)
    PROVE  CacheInv'
<1>1. UNCHANGED <<g_endpoints, cache, timer, ids, fate>>
  BY Zenon DEF Throttle
<1>2. e \in Endpoints /\ id \in MsgIds /\ period \in 0..MaxPeriod
  BY ThrottleCommand, Zenon
<1>3. throttle' \in AllLimits
  BY <1>2, ThrottleSets, Zenon DEF CacheInv, Types
<1>4. Types'
  BY <1>1, <1>3, Zenon DEF CacheInv, Types
<1>. QED BY <1>1, <1>4, SameQueues, Zenon

\* An endpoint leaves: what it had cached is dropped.
LEMMA RemoveCache ==
    ASSUME CacheInv, NEW e \in Endpoints, RemoveEndpoint(e)
    PROVE  CacheInv'
<1>1. /\ g_endpoints' = g_endpoints \ {e} /\ throttle' = throttle /\ timer' = timer /\ ids' = ids
      /\ cache' = [cache EXCEPT ![e] = [id \in MsgIds |-> <<>>]]
      /\ fate' = [fate EXCEPT ![e] = [n \in Messages |->
                     IF fate[e][n] = "cached" THEN "dropped" ELSE fate[e][n]]]
  BY Zenon DEF RemoveEndpoint
<1>2. cache \in AllCaches /\ fate \in [Endpoints -> [Messages -> Fates]] /\ Types
  BY Zenon DEF CacheInv, Types
<1>3. PICK c, g : /\ c = [id \in MsgIds |-> <<>>]
                  /\ g = [n \in Messages |-> IF fate[e][n] = "cached" THEN "dropped" ELSE fate[e][n]]
  BY Zenon
<1>4. c \in Caches /\ g \in [Messages -> Fates]
  <2>1. <<>> \in Seq(Nat)
    OBVIOUS
  <2>2. c \in Caches
    BY <1>3, <2>1, Zenon DEF Caches
  <2>3. \A n \in Messages : fate[e][n] \in Fates
    BY <1>2, Zenon
  <2>. QED BY <1>3, <2>2, <2>3, Zenon DEF Fates
<1>5. cache' = [cache EXCEPT ![e] = c] /\ fate' = [fate EXCEPT ![e] = g]
  BY <1>1, <1>3, Zenon
<1>6. cache' \in AllCaches /\ fate' \in [Endpoints -> [Messages -> Fates]]
  BY <1>2, <1>4, <1>5, Zenon DEF AllCaches
<1>7. Types'
  BY <1>1, <1>2, <1>6, Zenon DEF Types
<1>8. ASSUME NEW f \in Endpoints PROVE Queues(cache'[f], fate'[f], ids', f)
  <2>0. Queues(cache[f], fate[f], ids, f)
    BY Zenon DEF CacheInv
  <2>1. CASE f # e
    <3>1. cache'[f] = cache[f] /\ fate'[f] = fate[f]
      BY <1>2, <1>5, <2>1, Zenon DEF AllCaches
    <3>. QED BY <1>1, <2>0, <3>1, Zenon
  <2>2. CASE f = e
    <3>1. cache'[f] = c /\ fate'[f] = g
      BY <1>2, <1>5, <2>2, Zenon DEF AllCaches
    <3>2. \A id \in MsgIds : c[id] = <<>>
      BY <1>3, Zenon
    <3>3. Small(c)
      BY <3>2, SmallNone, Zenon
    <3>4. NoneAfter(g, Len(ids))
      <4>1. NoneAfter(fate[e], Len(ids))
        BY <2>0, <2>2, Zenon DEF Queues
      <4>. QED BY <1>3, <4>1, Zenon DEF NoneAfter
    <3>5. \A n \in 1..Len(ids) : g[n] # "cached"
      <4>1. 1..Len(ids) \subseteq Messages
        BY <1>2, Zenon DEF Types
      <4>. QED BY <1>3, <4>1, Zenon
    <3>6. ASSUME NEW id \in MsgIds PROVE Holds(c[id], id, ids, g)
      BY <3>2, <3>5, HoldsNone, Zenon
    <3>. QED BY <1>1, <3>1, <3>2, <3>3, <3>4, <3>6, Zenon DEF Queues
  <2>. QED BY <2>1, <2>2
<1>. QED BY <1>7, <1>8, Zenon DEF CacheInv

-----------------------------------------------------------------------------
\* A message is routed.
Stores(e, id, T) == e \in T /\ AcceptMsg(e, id) = "Cached" /\ ~CacheFull(e)

LEMMA FateIs ==
    ASSUME NEW e, NEW id, NEW x
    PROVE  /\ FateOf(e, id, x) \in Fates
           /\ FateOf(e, id, x) = "cached" <=> AcceptMsg(e, id) = "Cached" /\ ~CacheFull(e)
           /\ FateOf(e, id, x) = "handed" => AcceptMsg(e, id) = "Accepted"
  BY DEF FateOf, Fates

LEMMA AcceptIs ==
    ASSUME NEW e, NEW id
    PROVE  /\ AcceptMsg(e, id) = "Cached" => id \in Cacheable[e]
           /\ AcceptMsg(e, id) = "Accepted" /\ IsThrottlingEnabled(e, id)
                => id \notin Cacheable[e] \/ cache[e][id] = <<>>
  BY DEF AcceptMsg

LEMMA RouteIds ==
    ASSUME Types, NEW id \in MsgIds, NEW T \in SUBSET g_endpoints, T # {}, NEW r, RouteMsg(id, T, r)
    PROVE  /\ ids' = Append(ids, id) /\ ids' \in Seq(MsgIds) /\ Len(ids) \in Nat
           /\ Len(ids') = Len(ids) + 1 /\ Len(ids) + 1 \in Messages
           /\ 1..Len(ids') \subseteq Messages
           /\ ids'[Len(ids) + 1] = id /\ \A i \in 1..Len(ids) : ids'[i] = ids[i]
<1>1. ids \in Seq(MsgIds) /\ ids' = Append(ids, id)
  BY Zenon DEF Types, RouteMsg
<1>2. /\ ids' \in Seq(MsgIds) /\ Len(ids) \in Nat /\ Len(ids') = Len(ids) + 1
      /\ ids'[Len(ids) + 1] = id /\ \A i \in 1..Len(ids) : ids'[i] = ids[i]
  BY <1>1
<1>3. PICK e \in T : TRUE
  BY Zenon
<1>4. e \in Endpoints /\ e \in g_endpoints
  BY Zenon DEF Types
<1>5. Len(ids) + 1 <= MaxMsgs[e]
  BY <1>4, Zenon DEF RouteMsg
<1>6. MaxMsgs \in [Endpoints -> Nat]
  BY ThrottleCacheAssumption, Zenon
<1>7. PICK k \in Nat, m \in Nat : k = Len(ids) /\ m = MaxMsgs[e]
  BY <1>2, <1>4, <1>6, Zenon
<1>8. k + 1 <= m
  BY <1>5, <1>7, Zenon
<1>9. k + 1 \in 1..m /\ 1..(k + 1) \subseteq 1..m
  BY <1>8
<1>10. 1..m \subseteq Messages
  BY <1>4, <1>7, Zenon DEF Messages
<1>11. k + 1 \in Messages /\ 1..(k + 1) \subseteq Messages
  BY <1>9, <1>10, Zenon
<1>12. Len(ids) + 1 \in Messages /\ 1..Len(ids') \subseteq Messages
  BY <1>2, <1>7, <1>11, Zenon
<1>. QED BY <1>1, <1>2, <1>12, Zenon

\* What the endpoint e does with it.
Routed(e, id, T, r) ==
    /\ Stores(e, id, T) => cache'[e] = [cache[e] EXCEPT ![id] = Append(@, Len(ids) + 1)]
    /\ ~Stores(e, id, T) => cache'[e] = cache[e]
    /\ e \in T => fate'[e] = [fate[e] EXCEPT ![Len(ids) + 1] = FateOf(e, id, r[e])]
    /\ e \notin T => fate'[e] = fate[e]

LEMMA RouteParts ==
    ASSUME Types, NEW id \in MsgIds, NEW T \in SUBSET g_endpoints, T # {}, NEW r, RouteMsg(id, T, r),
           NEW e \in Endpoints
    PROVE  /\ Routed(e, id, T, r)
           /\ \/ throttle'[e] = throttle[e]
              \/ throttle'[e] = [throttle[e] EXCEPT ![id].next = Updated(throttle[e][id])]
<1>1. Stores(e, id, T) <=> e \in {f \in T : AcceptMsg(f, id) = "Cached"} /\ ~CacheFull(e)
  BY Zenon DEF Stores
<1>2. cache'[e] = IF Stores(e, id, T) THEN [cache[e] EXCEPT ![id] = Append(@, Len(ids) + 1)] ELSE cache[e]
  BY <1>1, Zenon DEF RouteMsg
<1>3. fate'[e] = IF e \in T THEN [fate[e] EXCEPT ![Len(ids) + 1] = FateOf(e, id, r[e])] ELSE fate[e]
  BY Zenon DEF RouteMsg
<1>4. throttle'[e] = IF e \in {f \in T : AcceptMsg(f, id) = "Accepted"} /\ IsThrottlingEnabled(e, id)
                     THEN [throttle[e] EXCEPT ![id].next = Updated(throttle[e][id])]
                     ELSE throttle[e]
  BY Zenon DEF RouteMsg
<1>. QED BY <1>2, <1>3, <1>4, Zenon DEF Routed

LEMMA RouteThrottle ==
    ASSUME Types, NEW id \in MsgIds, NEW T \in SUBSET g_endpoints, T # {}, NEW r, RouteMsg(id, T, r)
    PROVE  /\ throttle' \in AllLimits
           /\ \A e \in Endpoints, i \in MsgIds :
                 throttle'[e][i].period = throttle[e][i].period
                 /\ DueAt(throttle[e][i]) <= DueAt(throttle'[e][i])
<1>1. ASSUME NEW e \in Endpoints
      PROVE  /\ throttle'[e] \in [MsgIds -> Limits]
             /\ \A i \in MsgIds : throttle'[e][i].period = throttle[e][i].period
                                  /\ DueAt(throttle[e][i]) <= DueAt(throttle'[e][i])
  <2>1. throttle[e] \in [MsgIds -> Limits]
    BY Zenon DEF Types, AllLimits
  <2>2. PICK h \in [MsgIds -> Limits] : h = throttle[e]
    BY <2>1, Zenon
  <2>3. h[id] \in Limits
    BY Zenon
  <2>4. PICK l \in Limits, u \in Times : l = h[id] /\ u = Updated(l) /\ l.next <= u
    BY <2>3, UpdatedLater, Zenon
  <2>5. \A i \in MsgIds : DueAt(h[i]) <= DueAt(h[i])
    <3>1. \A x \in Times : x <= x
      BY DEF Times
    <3>. QED BY <3>1, DueAtIs, Zenon
  <2>6. CASE throttle'[e] = throttle[e]
    BY <2>2, <2>5, <2>6, Zenon
  <2>7. CASE throttle'[e] = [throttle[e] EXCEPT ![id].next = Updated(throttle[e][id])]
    <3>1. PICK m : m = [l EXCEPT !.next = u]
      BY Zenon
    <3>2. m \in Limits /\ m.period = l.period /\ m.next = u
      BY <3>1 DEF Limits
    <3>3. throttle'[e] = [h EXCEPT ![id] = m]
      BY <2>2, <2>4, <2>7, <3>1, Zenon
    <3>4. DueAt(l) <= DueAt(m)
      <4>1. CASE l.period = 0
        <5>1. DueAt(l) = Floor /\ DueAt(m) = Floor
          BY <3>2, <4>1, Zenon DEF DueAt
        <5>2. Floor <= Floor
          BY Constants
        <5>. QED BY <5>1, <5>2, Zenon
      <4>2. CASE l.period # 0
        BY <2>4, <3>2, <4>2, Zenon DEF DueAt
      <4>. QED BY <4>1, <4>2
    <3>5. throttle'[e] \in [MsgIds -> Limits]
      BY <3>2, <3>3, Zenon
    <3>6. ASSUME NEW i \in MsgIds
          PROVE  throttle'[e][i].period = throttle[e][i].period /\ DueAt(throttle[e][i]) <= DueAt(throttle'[e][i])
      <4>1. CASE i = id
        <5>1. throttle'[e][i] = m /\ throttle[e][i] = l
          BY <2>2, <2>4, <3>3, <4>1, Zenon
        <5>. QED BY <3>2, <3>4, <5>1, Zenon
      <4>2. CASE i # id
        <5>1. throttle'[e][i] = h[i] /\ throttle[e][i] = h[i]
          BY <2>2, <3>3, <4>2, Zenon
        <5>. QED BY <2>5, <5>1, Zenon
      <4>. QED BY <4>1, <4>2
    <3>. QED BY <3>5, <3>6, Zenon
  <2>9. \/ throttle'[e] = throttle[e]
        \/ throttle'[e] = [throttle[e] EXCEPT ![id].next = Updated(throttle[e][id])]
    BY RouteParts, Zenon
  <2>. QED BY <2>6, <2>7, <2>9
<1>2. \E D : throttle' = [e \in Endpoints |-> D[e]]
  <2>1. \E D : D = [e \in Endpoints |->
               IF e \in {f \in T : AcceptMsg(f, id) = "Accepted"} /\ IsThrottlingEnabled(e, id)
               THEN [throttle[e] EXCEPT ![id].next = Updated(throttle[e][id])]
               ELSE throttle[e]]
    BY Zenon
  <2>. QED BY <2>1 DEF RouteMsg
<1>. QED BY <1>1, <1>2, Zenon DEF AllLimits

LEMMA RouteQueues ==
    ASSUME CacheInv, NEW id \in MsgIds, NEW T \in SUBSET g_endpoints, T # {}, NEW r, RouteMsg(id, T, r),
           NEW e \in Endpoints
    PROVE  /\ Queues(cache'[e], fate'[e], ids', e)
           /\ cache'[e] \in Caches /\ fate'[e] \in [Messages -> Fates]
<1>1. /\ ids' = Append(ids, id) /\ Len(ids) \in Nat /\ Len(ids') = Len(ids) + 1
      /\ Len(ids) + 1 \in Messages
  BY RouteIds, Zenon DEF CacheInv
<1>2. PICK n \in Nat, k \in Nat : n = Len(ids) + 1 /\ k = Len(ids)
  BY <1>1, MessagesAreNat, Zenon
<1>3. n \in Messages /\ n = k + 1 /\ Len(ids') = n
  BY <1>1, <1>2, Zenon
<1>4. /\ Stores(e, id, T) => cache'[e] = [cache[e] EXCEPT ![id] = Append(@, n)]
      /\ ~Stores(e, id, T) => cache'[e] = cache[e]
      /\ e \in T => fate'[e] = [fate[e] EXCEPT ![n] = FateOf(e, id, r[e])]
      /\ e \notin T => fate'[e] = fate[e]
  <2>1. Types
    BY Zenon DEF CacheInv
  <2>2. Routed(e, id, T, r)
    BY <2>1, RouteParts, Zenon
  <2>. QED BY <1>2, <2>2, Zenon DEF Routed
<1>5. /\ cache[e] \in Caches /\ fate[e] \in [Messages -> Fates]
      /\ ids \in Seq(MsgIds) /\ 1..Len(ids) \subseteq Messages
  BY Zenon DEF CacheInv, Types, AllCaches
<1>6. Queues(cache[e], fate[e], ids, e)
  BY Zenon DEF CacheInv
<1>a. PICK c \in Caches, f \in [Messages -> Fates] : c = cache[e] /\ f = fate[e]
  BY <1>5, Zenon
<1>b. PICK g : g = fate'[e]
  BY Zenon
<1>7. c = cache[e] /\ f = fate[e] /\ g = fate'[e]
  BY <1>a, <1>b
<1>8. /\ Small(c) /\ NoneAfter(f, k)
      /\ \A i \in MsgIds : Holds(c[i], i, ids, f) /\ (c[i] # <<>> => i \in Cacheable[e])
  BY <1>2, <1>6, <1>7, Zenon DEF Queues
<1>9. PICK v : v = FateOf(e, id, r[e])
  BY Zenon
<1>10. /\ v \in Fates
       /\ v = "cached" <=> AcceptMsg(e, id) = "Cached" /\ ~CacheFull(e)
  BY <1>9, FateIs, Zenon
<1>11. g = f \/ g = [f EXCEPT ![n] = v]
  BY <1>4, <1>7, <1>9, Zenon
<1>12. g \in [Messages -> Fates] /\ \A m \in Messages : m # n => g[m] = f[m]
  BY <1>10, <1>11, Zenon
<1>13. \A m \in 1..k : m # n
  BY <1>3
<1>14. Agree(f, g, Len(ids))
  BY <1>2, <1>5, <1>12, <1>13, Zenon DEF Agree
<1>15. NoneAfter(g, Len(ids'))
  <2>1. \A m \in Nat : m > n => m > k /\ m # n
    BY <1>3
  <2>. QED BY <1>3, <1>8, <1>12, <2>1, MessagesAreNat, Zenon DEF NoneAfter
<1>16. g[n] = "cached" <=> Stores(e, id, T)
  <2>1. CASE e \in T
    <3>1. g = [f EXCEPT ![n] = v]
      BY <1>4, <1>7, <1>9, <2>1, Zenon
    <3>2. g[n] = v
      BY <1>3, <3>1, Zenon
    <3>. QED BY <1>10, <2>1, <3>2, Zenon DEF Stores
  <2>2. CASE e \notin T
    <3>1. g = f
      BY <1>4, <1>7, <2>2, Zenon
    <3>2. n > k
      BY <1>3
    <3>3. g[n] = "none"
      BY <1>3, <1>8, <3>1, <3>2, Zenon DEF NoneAfter
    <3>4. "none" # "cached"
      OBVIOUS
    <3>. QED BY <2>2, <3>3, <3>4, Zenon DEF Stores
  <2>. QED BY <2>1, <2>2
<1>17. CASE Stores(e, id, T)
  <2>1. PICK d : d = [c EXCEPT ![id] = Append(c[id], n)]
    BY Zenon
  <2>2. cache'[e] = d
    BY <1>4, <1>7, <1>17, <2>1, Zenon
  <2>3. c[id] \in Seq(Nat)
    BY Zenon DEF Caches
  <2>4. Append(c[id], n) \in Seq(Nat)
    BY <2>3
  <2>5. d \in Caches /\ d[id] = Append(c[id], n) /\ \A i \in MsgIds : i # id => d[i] = c[i]
    BY <2>1, <2>4, Zenon DEF Caches
  <2>6. Small(d)
    <3>1. ~(Cardinality(Slots(c)) >= CacheMax)
      BY <1>7, <1>17, Zenon DEF Stores, CacheFull, CacheSize
    <3>2. Small([c EXCEPT ![id] = Append(@, n)])
      BY <1>8, <3>1, SmallGrows, Zenon
    <3>. QED BY <2>1, <3>2, Zenon
  <2>7. id \in Cacheable[e]
    BY <1>17, AcceptIs, Zenon DEF Stores
  <2>8. ASSUME NEW i \in MsgIds PROVE Holds(d[i], i, ids', g) /\ (d[i] # <<>> => i \in Cacheable[e])
    <3>1. CASE i = id
      <4>1. Holds(c[id], id, ids, f) /\ g[n] = "cached"
        BY <1>8, <1>16, <1>17, Zenon
      <4>2. Holds(Append(c[id], n), id, Append(ids, id), g)
        BY <1>2, <1>5, <1>14, <2>3, <4>1, HoldsAppend, Zenon
      <4>. QED BY <1>1, <2>5, <2>7, <3>1, <4>2, Zenon
    <3>2. CASE i # id
      <4>1. Holds(c[i], i, ids, f)
        BY <1>8, Zenon
      <4>2. Holds(c[i], i, Append(ids, id), g)
        BY <1>2, <1>5, <1>14, <3>2, <4>1, HoldsKept, Zenon
      <4>. QED BY <1>1, <1>8, <2>5, <3>2, <4>2, Zenon
    <3>. QED BY <3>1, <3>2
  <2>9. Queues(d, g, ids', e)
    BY <1>15, <2>6, <2>8, Zenon DEF Queues
  <2>. QED BY <1>7, <1>12, <2>2, <2>5, <2>9, Zenon
<1>18. CASE ~Stores(e, id, T)
  <2>1. cache'[e] = c
    BY <1>4, <1>7, <1>18, Zenon
  <2>2. ASSUME NEW i \in MsgIds PROVE Holds(c[i], i, ids', g) /\ (c[i] # <<>> => i \in Cacheable[e])
    <3>1. Holds(c[i], i, ids, f) /\ g[n] # "cached"
      BY <1>8, <1>16, <1>18, Zenon
    <3>2. Holds(c[i], i, Append(ids, id), g)
      BY <1>2, <1>5, <1>14, <3>1, HoldsKept, Zenon
    <3>. QED BY <1>1, <1>8, <3>2, Zenon
  <2>3. Queues(c, g, ids', e)
    BY <1>8, <1>15, <2>2, Zenon DEF Queues
  <2>. QED BY <1>7, <1>12, <2>1, <2>3, Zenon
<1>. QED BY <1>17, <1>18

LEMMA RouteCache ==
    ASSUME CacheInv, NEW id \in MsgIds, NEW T \in SUBSET g_endpoints, T # {}, NEW r, RouteMsg(id, T, r)
    PROVE  CacheInv'
<1>1. Types
  BY Zenon DEF CacheInv
<1>2. ids' \in Seq(MsgIds) /\ 1..Len(ids') \subseteq Messages
  BY <1>1, RouteIds, Zenon
<1>3. \A e \in Endpoints : /\ Queues(cache'[e], fate'[e], ids', e)
                           /\ cache'[e] \in Caches /\ fate'[e] \in [Messages -> Fates]
  BY RouteQueues, Zenon
<1>4. /\ \E D : cache' = [e \in Endpoints |-> D[e]]
      /\ \E D : fate' = [e \in Endpoints |-> D[e]]
  <2>1. PICK n, Cached : n = Len(ids) + 1 /\ Cached = {e \in T : AcceptMsg(e, id) = "Cached"}
    BY Zenon
  <2>2. \E D : D = [e \in Endpoints |->
               IF e \in Cached /\ ~CacheFull(e)
               THEN [cache[e] EXCEPT ![id] = Append(@, n)] ELSE cache[e]]
    BY Zenon
  <2>3. \E D : D = [e \in Endpoints |->
               IF e \in T THEN [fate[e] EXCEPT ![n] = FateOf(e, id, r[e])] ELSE fate[e]]
    BY Zenon
  <2>4. \E D : cache' = [e \in Endpoints |-> D[e]]
    <3>1. PICK D : D = [e \in Endpoints |->
                 IF e \in Cached /\ ~CacheFull(e)
                 THEN [cache[e] EXCEPT ![id] = Append(@, n)] ELSE cache[e]]
      BY <2>2, Zenon
    <3>2. cache' = D
      BY <2>1, <3>1, Zenon DEF RouteMsg
    <3>3. D = [e \in Endpoints |-> D[e]]
      BY <3>1, Zenon
    <3>. QED BY <3>2, <3>3, Zenon
  <2>5. \E D : fate' = [e \in Endpoints |-> D[e]]
    <3>1. PICK D : D = [e \in Endpoints |->
                 IF e \in T THEN [fate[e] EXCEPT ![n] = FateOf(e, id, r[e])] ELSE fate[e]]
      BY <2>3, Zenon
    <3>2. fate' = D
      BY <2>1, <3>1, Zenon DEF RouteMsg
    <3>3. D = [e \in Endpoints |-> D[e]]
      BY <3>1, Zenon
    <3>. QED BY <3>2, <3>3, Zenon
  <2>. QED BY <2>4, <2>5, Zenon
<1>5. cache' \in AllCaches /\ fate' \in [Endpoints -> [Messages -> Fates]]
  BY <1>3, <1>4, Zenon DEF AllCaches
<1>6. throttle' \in AllLimits
  BY <1>1, RouteThrottle, Zenon
<1>7. g_endpoints' = g_endpoints /\ g_endpoints \in SUBSET Endpoints
  BY <1>1, Zenon DEF RouteMsg, Types
<1>8. timer' \in Int /\ timer' >= Off
  <2>1. \/ timer' = timer
        \/ timer' = Rescheduled(g_endpoints, cache', throttle')
    BY Zenon DEF RouteMsg, ScheduleResend
  <2>2. CASE timer' = timer
    BY <1>1, <2>2, Zenon DEF Types
  <2>3. CASE timer' = Rescheduled(g_endpoints, cache', throttle')
    <3>1. PICK t \in AllLimits : t = throttle'
      BY <1>6, Zenon
    <3>a. PICK c : c = cache'
      BY Zenon
    <3>2. Rescheduled(g_endpoints, c, t) \in Int /\ Rescheduled(g_endpoints, c, t) >= Off
      BY <1>7, RescheduledIs, Zenon
    <3>. QED BY <2>3, <3>1, <3>a, <3>2, Zenon
  <2>. QED BY <2>1, <2>2, <2>3
<1>9. Types'
  BY <1>2, <1>5, <1>6, <1>7, <1>8, Zenon DEF Types
<1>. QED BY <1>3, <1>9, Zenon DEF CacheInv

-----------------------------------------------------------------------------
\* The resend timer fires.  The messages that the result x of e sends:
SentOf(e, x) == UNION {{cache[e][id][i] : i \in 1..x.sent[id]} : id \in MsgIds}

\* What the endpoint e is left with.
Resent(e, x) ==
    /\ \A id \in MsgIds : cache'[e][id] = IF x.open THEN Left(cache[e][id], x.sent[id]) ELSE <<>>
    /\ \A n \in Messages :
          /\ n \in SentOf(e, x) => fate'[e][n] = "handed"
          /\ n \notin SentOf(e, x) =>
                fate'[e][n] = IF ~x.open /\ fate[e][n] = "cached" THEN "dropped" ELSE fate[e][n]

LEMMA ResendCaches ==
    ASSUME NEW r, ResendTimeout(r), NEW e \in Endpoints, NEW id \in MsgIds
    PROVE  cache'[e][id] = IF e \notin g_endpoints THEN cache[e][id]
                           ELSE IF r[e].open THEN Left(cache[e][id], r[e].sent[id]) ELSE <<>>
<1>1. cache' = [f \in Endpoints |-> [i \in MsgIds |->
               IF f \notin g_endpoints THEN cache[f][i]
               ELSE IF r[f].open THEN Left(cache[f][i], r[f].sent[i]) ELSE <<>>]]
  BY Zenon DEF ResendTimeout
<1>. QED BY <1>1, Zenon

LEMMA ResendFates ==
    ASSUME NEW r, ResendTimeout(r), NEW e \in Endpoints, NEW n \in Messages
    PROVE  /\ e \in g_endpoints /\ n \in SentOf(e, r[e]) => fate'[e][n] = "handed"
           /\ e \in g_endpoints /\ n \notin SentOf(e, r[e]) =>
                fate'[e][n] = IF ~r[e].open /\ fate[e][n] = "cached" THEN "dropped" ELSE fate[e][n]
           /\ e \notin g_endpoints => fate'[e][n] = fate[e][n]
<1>1. fate' = [f \in Endpoints |-> [m \in Messages |->
               CASE f \in g_endpoints /\ m \in SentOf(f, r[f])                   -> "handed"
                 [] f \in g_endpoints /\ m \notin SentOf(f, r[f])
                    /\ ~r[f].open /\ fate[f][m] = "cached"               -> "dropped"
                 [] OTHER                                                -> fate[f][m]]]
  BY Zenon DEF ResendTimeout, SentOf
<1>2. fate'[e][n] = CASE e \in g_endpoints /\ n \in SentOf(e, r[e])            -> "handed"
                      [] e \in g_endpoints /\ n \notin SentOf(e, r[e])
                         /\ ~r[e].open /\ fate[e][n] = "cached"               -> "dropped"
                      [] OTHER                                                -> fate[e][n]
  BY <1>1, Zenon
<1>. QED BY <1>2

LEMMA ResendParts ==
    ASSUME NEW r, ResendTimeout(r), NEW e \in g_endpoints, e \in Endpoints
    PROVE  Resent(e, r[e])
<1>1. \A id \in MsgIds : cache'[e][id] = IF r[e].open THEN Left(cache[e][id], r[e].sent[id]) ELSE <<>>
  BY ResendCaches, Zenon
<1>2. ASSUME NEW n \in Messages
      PROVE  /\ n \in SentOf(e, r[e]) => fate'[e][n] = "handed"
             /\ n \notin SentOf(e, r[e]) =>
                  fate'[e][n] = IF ~r[e].open /\ fate[e][n] = "cached" THEN "dropped" ELSE fate[e][n]
  BY ResendFates, Zenon
<1>. QED BY <1>1, <1>2, Zenon DEF Resent

\* S is what leaves the queues c when the first sent[id] messages of every id do.
Fronts(S, c, f, sent) ==
    /\ \A m \in S : m \in 1..Len(ids) /\ f[m] = "cached"
    /\ \A m \in S : \E i \in 1..sent[ids[m]] : c[ids[m]][i] = m
    /\ \A id \in MsgIds : \A i \in 1..sent[id] : c[id][i] \in S

LEMMA SentIs ==
    ASSUME NEW e, cache[e] \in Caches, NEW f, Queues(cache[e], f, ids, e), NEW x, Fits(x, e)
    PROVE  Fronts(SentOf(e, x), cache[e], f, x.sent)
<1>1. ASSUME NEW id \in MsgIds, NEW i \in 1..x.sent[id] PROVE cache[e][id][i] \in SentOf(e, x)
  <2>1. cache[e][id][i] \in {cache[e][id][j] : j \in 1..x.sent[id]}
    BY Zenon
  <2>. QED BY <2>1, Zenon DEF SentOf
<1>2. ASSUME NEW m \in SentOf(e, x)
      PROVE  /\ m \in 1..Len(ids) /\ f[m] = "cached"
             /\ \E i \in 1..x.sent[ids[m]] : cache[e][ids[m]][i] = m
  <2>1. PICK id \in MsgIds : \E i \in 1..x.sent[id] : m = cache[e][id][i]
    BY Zenon DEF SentOf
  <2>2. PICK i \in 1..x.sent[id] : m = cache[e][id][i]
    BY <2>1
  <2>3. x.sent[id] \in 0..Len(cache[e][id])
    BY Zenon DEF Fits
  <2>4. PICK q \in Seq(Nat) : q = cache[e][id]
    BY Zenon DEF Caches
  <2>a. PICK k : k = x.sent[id]
    BY Zenon
  <2>5. i \in 1..k /\ k \in 0..Len(q) /\ Len(q) \in Nat
    BY <2>3, <2>4, <2>a, LenIsNat, Zenon
  <2>6. i \in 1..Len(q)
    BY <2>5
  <2>7. Holds(q, id, ids, f)
    BY <2>4, Zenon DEF Queues
  <2>8. m \in 1..Len(ids) /\ ids[m] = id /\ f[m] = "cached"
    BY <2>2, <2>4, <2>6, <2>7, Zenon DEF Holds
  <2>. QED BY <2>2, <2>8, Zenon
<1>. QED BY <1>1, <1>2, Zenon DEF Fronts

\* Nothing is left of an empty queue.
LEMMA LeftNone == \A q, k : q = <<>> /\ k \in 0..Len(q) => Left(q, k) = <<>>
<1>1. SUFFICES ASSUME NEW k \in 0..Len(<<>>) PROVE Left(<<>>, k) = <<>>
  BY Zenon
<1>2. k = 0 /\ Len(<<>>) = 0 /\ <<>> \in Seq(Nat)
  OBVIOUS
<1>3. Left(<<>>, k) \in Seq(Nat) /\ Len(Left(<<>>, k)) = Len(<<>>) - k
  BY <1>2, LeftIs, Zenon
<1>4. PICK z \in Seq(Nat) : z = Left(<<>>, k) /\ Len(z) = 0 - 0
  BY <1>2, <1>3, Zenon
<1>5. z = <<>>
  BY <1>4
<1>. QED BY <1>4, <1>5, Zenon

LEMMA ResendQueues ==
    ASSUME CacheInv, NEW e \in Endpoints, NEW x, Fits(x, e), Resent(e, x),
           cache'[e] \in Caches
    PROVE  /\ Queues(cache'[e], fate'[e], ids, e)
           /\ \A n \in Messages : fate'[e][n] \in Fates
<1>1. /\ cache[e] \in Caches /\ fate[e] \in [Messages -> Fates]
      /\ ids \in Seq(MsgIds) /\ 1..Len(ids) \subseteq Messages
  BY Zenon DEF CacheInv, Types, AllCaches
<1>2. Queues(cache[e], fate[e], ids, e)
  BY Zenon DEF CacheInv
<1>3. PICK c \in Caches, f \in [Messages -> Fates], d \in Caches :
         c = cache[e] /\ f = fate[e] /\ d = cache'[e]
  BY <1>1, Zenon
<1>4. PICK g, S : g = fate'[e] /\ S = SentOf(e, x)
  BY Zenon
<1>5. /\ \A m \in S : m \in 1..Len(ids) /\ f[m] = "cached"
      /\ \A m \in S : \E i \in 1..x.sent[ids[m]] : c[ids[m]][i] = m
      /\ \A id \in MsgIds : \A i \in 1..x.sent[id] : c[id][i] \in S
  <2>1. Fronts(SentOf(e, x), cache[e], fate[e], x.sent)
    BY <1>1, <1>2, SentIs, Zenon
  <2>2. Fronts(S, c, f, x.sent)
    BY <1>3, <1>4, <2>1, Zenon
  <2>. QED BY <2>2, Zenon DEF Fronts
<1>6. /\ \A id \in MsgIds : d[id] = IF x.open THEN Left(c[id], x.sent[id]) ELSE <<>>
      /\ \A n \in Messages :
            /\ n \in S => g[n] = "handed"
            /\ n \notin S => g[n] = IF ~x.open /\ f[n] = "cached" THEN "dropped" ELSE f[n]
  BY <1>3, <1>4, Zenon DEF Resent
<1>7. /\ Small(c) /\ NoneAfter(f, Len(ids))
      /\ \A i \in MsgIds : Holds(c[i], i, ids, f) /\ (c[i] # <<>> => i \in Cacheable[e])
  BY <1>2, <1>3, Zenon DEF Queues
<1>8. \A id \in MsgIds : c[id] \in Seq(Nat) /\ x.sent[id] \in 0..Len(c[id])
  BY <1>3, Zenon DEF Caches, Fits
<1>9. ASSUME NEW n \in Messages
      PROVE  /\ g[n] \in Fates
             /\ g[n] = "cached" <=> f[n] = "cached" /\ n \notin S /\ x.open
             /\ f[n] = "none" => n \in S \/ g[n] = "none"
  <2>1. f[n] \in Fates
    BY Zenon
  <2>2. CASE n \in S
    <3>1. g[n] = "handed"
      BY <1>6, <2>2, Zenon
    <3>. QED BY <2>2, <3>1, Zenon DEF Fates
  <2>3. CASE n \notin S
    <3>1. g[n] = IF ~x.open /\ f[n] = "cached" THEN "dropped" ELSE f[n]
      BY <1>6, <2>3, Zenon
    <3>. QED BY <2>1, <2>3, <3>1, Zenon DEF Fates
  <2>. QED BY <2>2, <2>3
<1>10. NoneAfter(g, Len(ids))
  <2>1. SUFFICES ASSUME NEW m \in Messages, m > Len(ids) PROVE g[m] = "none"
    BY Zenon DEF NoneAfter
  <2>2. f[m] = "none"
    BY <1>7, <2>1, Zenon DEF NoneAfter
  <2>3. "none" # "cached"
    OBVIOUS
  <2>4. m \notin S
    BY <1>5, <2>2, <2>3, Zenon
  <2>. QED BY <1>9, <2>2, <2>4, Zenon
<1>11. CASE x.open
  <2>1. \A id \in MsgIds : d[id] = Left(c[id], x.sent[id])
    BY <1>6, <1>11, Zenon
  <2>2. ASSUME NEW id \in MsgIds
        PROVE  /\ Holds(d[id], id, ids, g) /\ (d[id] # <<>> => id \in Cacheable[e])
               /\ Len(d[id]) <= Len(c[id])
    <3>1. PICK q \in Seq(Nat), k \in 0..Len(c[id]) : q = c[id] /\ k = x.sent[id]
      BY <1>8, Zenon
    <3>2. Holds(q, id, ids, f) /\ k \in 0..Len(q) /\ d[id] = Left(q, k)
      BY <1>7, <2>1, <3>1, Zenon
    <3>3. Leave(q, k, id, ids, f, g)
      <4>1. SUFFICES ASSUME NEW m \in 1..Len(ids), ids[m] = id
                     PROVE  g[m] = "cached" <=> f[m] = "cached" /\ ~ \E i \in 1..k : q[i] = m
        BY Zenon DEF Leave
      <4>2. m \in Messages
        BY <1>1, Zenon
      <4>3. g[m] = "cached" <=> f[m] = "cached" /\ m \notin S
        BY <1>9, <1>11, <4>2, Zenon
      <4>4. m \in S => \E i \in 1..k : q[i] = m
        BY <1>5, <3>1, <4>1, Zenon
      <4>5. (\E i \in 1..k : q[i] = m) => m \in S
        BY <1>5, <3>1, Zenon
      <4>. QED BY <4>3, <4>4, <4>5, Zenon
    <3>4. Holds(Left(q, k), id, ids, g)
      BY <3>2, <3>3, HoldsLeft, Zenon
    <3>5. Len(Left(q, k)) = Len(q) - k /\ Len(q) \in Nat
      BY <3>2, LeftIs, Zenon
    <3>6. Len(Left(q, k)) <= Len(q)
      BY <3>2, <3>5
    <3>7. d[id] # <<>> => c[id] # <<>>
      <4>1. q = <<>> => Left(q, k) = <<>>
        BY <3>2, LeftNone, Zenon
      <4>. QED BY <3>1, <3>2, <4>1, Zenon
    <3>. QED BY <1>7, <3>1, <3>2, <3>4, <3>6, <3>7, Zenon
  <2>3. Small(d)
    BY <1>7, <2>2, SmallShrinks, Zenon
  <2>4. Queues(d, g, ids, e)
    BY <1>10, <2>2, <2>3, Zenon DEF Queues
  <2>. QED BY <1>3, <1>4, <1>9, <2>4, Zenon
<1>12. CASE ~x.open
  <2>1. \A id \in MsgIds : d[id] = <<>>
    BY <1>6, <1>12, Zenon
  <2>2. Small(d)
    BY <2>1, SmallNone, Zenon
  <2>3. ASSUME NEW id \in MsgIds PROVE Holds(d[id], id, ids, g)
    <3>1. \A n \in 1..Len(ids) : ids[n] = id => g[n] # "cached"
      BY <1>1, <1>9, <1>12, Zenon
    <3>2. Holds(<<>>, id, ids, g)
      BY <3>1, HoldsNone, Zenon
    <3>. QED BY <2>1, <3>2, Zenon
  <2>4. Queues(d, g, ids, e)
    BY <1>10, <2>1, <2>2, <2>3, Zenon DEF Queues
  <2>. QED BY <1>3, <1>4, <1>9, <2>4, Zenon
<1>. QED BY <1>11, <1>12

LEMMA ResendThrottle ==
    ASSUME CacheInv, NEW r, ResendTimeout(r), \A e \in g_endpoints : Fits(r[e], e)
    PROVE  throttle' \in AllLimits
<1>1. throttle' = [e \in Endpoints |-> [id \in MsgIds |->
               IF e \in g_endpoints /\ IsThrottlingEnabled(e, id)
               THEN [throttle[e][id] EXCEPT
                        !.next = NextAfter(throttle[e][id])[r[e].sent[id]]]
               ELSE throttle[e][id]]]
  BY Zenon DEF ResendTimeout
<1>2. ASSUME NEW e \in Endpoints, NEW id \in MsgIds
      PROVE  (IF e \in g_endpoints /\ IsThrottlingEnabled(e, id)
              THEN [throttle[e][id] EXCEPT !.next = NextAfter(throttle[e][id])[r[e].sent[id]]]
              ELSE throttle[e][id]) \in Limits
  <2>1. throttle[e][id] \in Limits
    BY Zenon DEF CacheInv, Types, AllLimits
  <2>2. CASE ~(e \in g_endpoints /\ IsThrottlingEnabled(e, id))
    BY <2>1, <2>2, Zenon
  <2>3. CASE e \in g_endpoints /\ IsThrottlingEnabled(e, id)
    <3>1. r[e].sent[id] \in 0..Len(cache[e][id])
      BY <2>3, Zenon DEF Fits
    <3>2. cache[e] \in Caches /\ Queues(cache[e], fate[e], ids, e)
      BY Zenon DEF CacheInv, Types, AllCaches
    <3>3. Len(cache[e][id]) \in 0..CacheMax
      <4>1. PICK c \in Caches : c = cache[e]
        BY <3>2, Zenon
      <4>2. Small(c)
        BY <3>2, <4>1, Zenon DEF Queues
      <4>3. Len(c[id]) \in 0..CacheMax
        BY <4>2, QueueFits, Zenon
      <4>. QED BY <4>1, <4>3, Zenon
    <3>4. PICK m \in 0..CacheMax : m = Len(cache[e][id])
      BY <3>3, Zenon
    <3>5. PICK k \in 0..m : k = r[e].sent[id]
      BY <3>1, <3>4, Zenon
    <3>6. k \in 0..CacheMax
      BY Constants
    <3>7. PICK l \in Limits : l = throttle[e][id]
      BY <2>1, Zenon
    <3>8. PICK y \in Times : y = NextAfter(l)[k]
      BY <3>6, NextAfterIs, Zenon
    <3>9. [l EXCEPT !.next = y] \in Limits
      BY DEF Limits
    <3>. QED BY <2>3, <3>5, <3>7, <3>8, <3>9, Zenon
  <2>. QED BY <2>2, <2>3
<1>. QED BY <1>1, <1>2, Zenon DEF AllLimits

LEMMA ResultsOf ==
    ASSUME CacheInv, NEW r \in AllResults
    PROVE  \A e \in g_endpoints : Fits(r[e], e)
<1> SUFFICES ASSUME NEW e \in g_endpoints PROVE Fits(r[e], e)
  BY Zenon
<1>1. r[e] \in ResendResults(e)
  BY Zenon DEF AllResults
<1>2. cache[e] \in Caches
  BY Zenon DEF CacheInv, Types, AllCaches
<1>. QED BY <1>1, <1>2, ResultsFit, Zenon

LEMMA ResendCacheTyped ==
    ASSUME CacheInv, NEW r, ResendTimeout(r), \A e \in g_endpoints : Fits(r[e], e)
    PROVE  cache' \in AllCaches
<1>1. cache' = [f \in Endpoints |-> [i \in MsgIds |->
               IF f \notin g_endpoints THEN cache[f][i]
               ELSE IF r[f].open THEN Left(cache[f][i], r[f].sent[i]) ELSE <<>>]]
  BY Zenon DEF ResendTimeout
<1>2. ASSUME NEW f \in Endpoints, NEW i \in MsgIds
      PROVE  (IF f \notin g_endpoints THEN cache[f][i]
              ELSE IF r[f].open THEN Left(cache[f][i], r[f].sent[i]) ELSE <<>>) \in Seq(Nat)
  <2>1. cache[f][i] \in Seq(Nat)
    BY Zenon DEF CacheInv, Types, AllCaches, Caches
  <2>2. f \in g_endpoints => r[f].sent[i] \in 0..Len(cache[f][i])
    BY Zenon DEF Fits
  <2>3. f \in g_endpoints => Left(cache[f][i], r[f].sent[i]) \in Seq(Nat)
    BY <2>1, <2>2, LeftIs, Zenon
  <2>4. <<>> \in Seq(Nat)
    OBVIOUS
  <2>. QED BY <2>1, <2>3, <2>4, Zenon
<1>. QED BY <1>1, <1>2, Zenon DEF AllCaches, Caches

LEMMA ResendCache ==
    ASSUME CacheInv, NEW r \in AllResults, ResendTimeout(r)
    PROVE  CacheInv'
<1>1. \A e \in g_endpoints : Fits(r[e], e)
  BY ResultsOf, Zenon
<1>2. throttle' \in AllLimits /\ cache' \in AllCaches
  BY <1>1, ResendThrottle, ResendCacheTyped, Zenon
<1>3. g_endpoints' = g_endpoints /\ ids' = ids
  BY Zenon DEF ResendTimeout
<1>4. /\ g_endpoints \in SUBSET Endpoints /\ cache \in AllCaches
      /\ fate \in [Endpoints -> [Messages -> Fates]]
      /\ ids \in Seq(MsgIds) /\ 1..Len(ids) \subseteq Messages
  BY Zenon DEF CacheInv, Types
<1>5. /\ \E D : fate' = [e \in Endpoints |-> [n \in Messages |-> D[e][n]]]
  <2>1. PICK D : D = [e \in Endpoints |-> [n \in Messages |->
               CASE e \in g_endpoints /\ n \in SentOf(e, r[e])           -> "handed"
                 [] e \in g_endpoints /\ n \notin SentOf(e, r[e])
                    /\ ~r[e].open /\ fate[e][n] = "cached"               -> "dropped"
                 [] OTHER                                                -> fate[e][n]]]
    BY Zenon
  <2>2. fate' = D
    BY <2>1, Zenon DEF ResendTimeout, SentOf
  <2>3. D = [e \in Endpoints |-> [n \in Messages |-> D[e][n]]]
    BY <2>1
  <2>. QED BY <2>2, <2>3, Zenon
<1>6. ASSUME NEW e \in Endpoints
      PROVE  /\ Queues(cache'[e], fate'[e], ids, e)
             /\ \A n \in Messages : fate'[e][n] \in Fates
  <2>1. CASE e \in g_endpoints
    <3>1. Resent(e, r[e]) /\ Fits(r[e], e) /\ cache'[e] \in Caches
      BY <1>1, <1>2, <2>1, ResendParts, Zenon DEF AllCaches
    <3>. QED BY <3>1, ResendQueues, Zenon
  <2>2. CASE e \notin g_endpoints
    <3>1. \A id \in MsgIds : cache'[e][id] = cache[e][id]
      BY <2>2, ResendCaches, Zenon
    <3>2. \A n \in Messages : fate'[e][n] = fate[e][n]
      BY <2>2, ResendFates, Zenon
    <3>3. /\ cache[e] \in [MsgIds -> Seq(Nat)] /\ cache'[e] \in [MsgIds -> Seq(Nat)]
          /\ fate[e] \in [Messages -> Fates]
      BY <1>2, <1>4, Zenon DEF AllCaches, Caches
    <3>4. cache'[e] = cache[e]
      BY <3>1, <3>3
    <3>5. fate'[e] = fate[e]
      <4>1. \E h : fate'[e] = [n \in Messages |-> h[n]]
        BY <1>5, Zenon
      <4>. QED BY <3>2, <3>3, <4>1
    <3>6. Queues(cache[e], fate[e], ids, e)
      BY Zenon DEF CacheInv
    <3>. QED BY <3>2, <3>3, <3>4, <3>5, <3>6, Zenon
  <2>. QED BY <2>1, <2>2
<1>7. fate' \in [Endpoints -> [Messages -> Fates]]
  BY <1>5, <1>6, Zenon
<1>8. timer' \in Int /\ timer' >= Off
  <2>1. PICK t \in AllLimits : t = throttle'
    BY <1>2, Zenon
  <2>2. PICK c : c = cache'
    BY Zenon
  <2>3. Rescheduled(g_endpoints, c, t) \in Int /\ Rescheduled(g_endpoints, c, t) >= Off
    BY <1>4, RescheduledIs, Zenon
  <2>4. timer' = Rescheduled(g_endpoints, cache', throttle')
    BY Zenon DEF ResendTimeout
  <2>. QED BY <2>1, <2>2, <2>3, <2>4, Zenon
<1>9. Types'
  BY <1>2, <1>3, <1>4, <1>7, <1>8, Zenon DEF Types
<1>. QED BY <1>3, <1>6, <1>9, Zenon DEF CacheInv

-----------------------------------------------------------------------------
\* Every step keeps the invariant.
Routes(id, T) == id \in MsgIds /\ T \in SUBSET g_endpoints /\ T # {}

LEMMA TrafficIs ==
    ASSUME Traffic
    PROVE  \/ \E id, T, r : Routes(id, T) /\ RouteMsg(id, T, r)
           \/ \E r \in AllResults : ResendTimeout(r)
<1>1. CASE \E id \in MsgIds :
           \E T \in (SUBSET {e \in g_endpoints \cap open : id \in Allowed[e]}) \ {{}} :
              \E r \in [T -> {"taken", "refused", "closed"}] :
                 /\ \A e \in T : r[e] \in WriteResults(e)
                 /\ RouteMsg(id, T, r)
  <2>1. PICK id, T, r :
           /\ id \in MsgIds
           /\ T \in (SUBSET {e \in g_endpoints \cap open : id \in Allowed[e]}) \ {{}}
           /\ RouteMsg(id, T, r)
    BY <1>1, Zenon
  <2>2. T \in SUBSET {e \in g_endpoints \cap open : id \in Allowed[e]} /\ T # {}
    BY <2>1, Zenon
  <2>3. \A e \in T : e \in g_endpoints
    BY <2>2, Zenon
  <2>4. Routes(id, T)
    BY <2>1, <2>2, <2>3, Zenon DEF Routes
  <2>. QED BY <2>1, <2>4, Zenon
<1>2. CASE timer = 0 /\ \E r \in AllResults : ResendTimeout(r)
  BY <1>2, Zenon
<1>. QED BY <1>1, <1>2, Zenon DEF Traffic

\* The steps that change no queue and no fate.
Quiet ==
    \/ Tick
    \/ \E e \in Endpoints : Close(e) \/ Reopen(e)
    \/ \E e \in g_endpoints : \E id \in Allowed[e], p \in NewRates[e] : Throttle(e, id, p)
    \/ UNCHANGED vars

LEMMA StepIs ==
    ASSUME [Next]_vars
    PROVE  \/ \E id, T, r : Routes(id, T) /\ RouteMsg(id, T, r)
           \/ \E r \in AllResults : ResendTimeout(r)
           \/ \E e \in Endpoints : RemoveEndpoint(e)
           \/ Quiet
<1>1. CASE Traffic
  BY <1>1, TrafficIs, Zenon
<1>2. CASE \E e \in Endpoints : Close(e) \/ Reopen(e) \/ RemoveEndpoint(e)
  BY <1>2, Zenon DEF Quiet
<1>3. CASE Tick
  BY <1>3, Zenon DEF Quiet
<1>4. CASE \E e \in g_endpoints : \E id \in Allowed[e], p \in NewRates[e] : Throttle(e, id, p)
  BY <1>4, Zenon DEF Quiet
<1>5. CASE UNCHANGED vars
  BY <1>5, Zenon DEF Quiet
<1>. QED BY <1>1, <1>2, <1>3, <1>4, <1>5, Zenon DEF Next

LEMMA QuietIs ==
    ASSUME Quiet
    PROVE  UNCHANGED <<g_endpoints, cache, ids, fate>>
<1>1. CASE Tick
  BY <1>1, Zenon DEF Tick
<1>2. CASE \E e \in Endpoints : Close(e) \/ Reopen(e)
  BY <1>2, Zenon DEF Close, Reopen
<1>3. CASE \E e \in g_endpoints : \E id \in Allowed[e], p \in NewRates[e] : Throttle(e, id, p)
  BY <1>3, Zenon DEF Throttle
<1>4. CASE UNCHANGED vars
  BY <1>4, Zenon DEF vars
<1>. QED BY <1>1, <1>2, <1>3, <1>4, Zenon DEF Quiet

LEMMA QuietCache ==
    ASSUME CacheInv, Quiet
    PROVE  CacheInv'
<1>1. CASE Tick
  BY <1>1, TickCache, Zenon
<1>2. CASE \E e \in Endpoints : Close(e) \/ Reopen(e)
  BY <1>2, OpenCache, Zenon
<1>3. CASE \E e \in g_endpoints : \E id \in Allowed[e], p \in NewRates[e] : Throttle(e, id, p)
  BY <1>3, ThrottleKeeps, Zenon
<1>4. CASE UNCHANGED vars
  <2>1. UNCHANGED <<g_endpoints, throttle, cache, timer, ids, fate>>
    BY <1>4, Zenon DEF vars
  <2>2. Types'
    BY <2>1, Zenon DEF CacheInv, Types
  <2>. QED BY <2>1, <2>2, SameQueues, Zenon
<1>. QED BY <1>1, <1>2, <1>3, <1>4, Zenon DEF Quiet

LEMMA CacheStep ==
    ASSUME CacheInv, [Next]_vars
    PROVE  CacheInv'
<1>1. CASE \E id, T, r : Routes(id, T) /\ RouteMsg(id, T, r)
  <2>1. PICK id, T, r : Routes(id, T) /\ RouteMsg(id, T, r)
    BY <1>1
  <2>. QED BY <2>1, RouteCache, Zenon DEF Routes
<1>2. CASE \E r \in AllResults : ResendTimeout(r)
  BY <1>2, ResendCache, Zenon
<1>3. CASE \E e \in Endpoints : RemoveEndpoint(e)
  BY <1>3, RemoveCache, Zenon
<1>4. CASE Quiet
  BY <1>4, QuietCache, Zenon
<1>. QED BY <1>1, <1>2, <1>3, <1>4, StepIs, Zenon

LEMMA CacheAlways == Spec => []CacheInv
<1>1. Init => CacheInv
  BY InitCache
<1>2. CacheInv /\ [Next]_vars => CacheInv'
  BY CacheStep
<1>. QED BY <1>1, <1>2, PTL DEF Spec

LEMMA CacheInvExact == CacheInv => CacheExact
<1> SUFFICES ASSUME CacheInv PROVE CacheExact
  OBVIOUS
<1>1. ASSUME NEW e \in Endpoints, NEW id \in MsgIds
      PROVE  /\ \A i, j \in 1..Len(cache[e][id]) : i < j => cache[e][id][i] < cache[e][id][j]
             /\ {cache[e][id][i] : i \in 1..Len(cache[e][id])} =
                    {n \in 1..Len(ids) : ids[n] = id /\ fate[e][n] = "cached"}
  <2>1. Holds(cache[e][id], id, ids, fate[e])
    BY Zenon DEF CacheInv, Queues
  <2>2. PICK q, f : q = cache[e][id] /\ f = fate[e]
    BY Zenon
  <2>3. Holds(q, id, ids, f)
    BY <2>1, <2>2, Zenon
  <2>4. \A i, j \in 1..Len(q) : i < j => q[i] < q[j]
    BY <2>3, Zenon DEF Holds
  <2>5. ASSUME NEW n PROVE n \in {q[i] : i \in 1..Len(q)} <=>
                           n \in {m \in 1..Len(ids) : ids[m] = id /\ f[m] = "cached"}
    <3>1. ASSUME n \in {q[i] : i \in 1..Len(q)}
          PROVE  n \in {m \in 1..Len(ids) : ids[m] = id /\ f[m] = "cached"}
      <4>1. PICK i \in 1..Len(q) : n = q[i]
        BY <3>1, Zenon
      <4>2. n \in 1..Len(ids) /\ ids[n] = id /\ f[n] = "cached"
        BY <2>3, <4>1, Zenon DEF Holds
      <4>. QED BY <4>2, Zenon
    <3>2. ASSUME n \in {m \in 1..Len(ids) : ids[m] = id /\ f[m] = "cached"}
          PROVE  n \in {q[i] : i \in 1..Len(q)}
      <4>1. n \in 1..Len(ids) /\ ids[n] = id /\ f[n] = "cached"
        BY <3>2, Zenon
      <4>2. PICK i \in 1..Len(q) : q[i] = n
        BY <2>3, <4>1, Zenon DEF Holds
      <4>. QED BY <4>2, Zenon
    <3>. QED BY <3>1, <3>2
  <2>6. {q[i] : i \in 1..Len(q)} = {m \in 1..Len(ids) : ids[m] = id /\ f[m] = "cached"}
    BY <2>5, Zenon
  <2>. QED BY <2>2, <2>4, <2>6, Zenon
<1>2. ASSUME NEW e \in Endpoints PROVE CacheSize(e) <= CacheMax
  BY Zenon DEF CacheInv, Queues, Small, CacheSize
<1>. QED BY <1>1, <1>2, Zenon DEF CacheExact

\* At every step the queues of every endpoint hold, in order of arrival, exactly
\* the messages that accept_msg stored and that were neither handed to write_msg
\* nor dropped since, and no endpoint stores more than MSG_CACHE_MAX_SIZE.
THEOREM CacheIsExact == Spec => []CacheExact
  BY CacheAlways, CacheInvExact, PTL

-----------------------------------------------------------------------------
\* The order in which messages leave.
InOrder ==
    \A e \in Endpoints, n \in 1..Len(ids') :
       /\ fate[e][n] # "handed" /\ fate'[e][n] = "handed"
       /\ IsThrottlingEnabled(e, ids'[n])
       => \A m \in 1..(n - 1) : ids'[m] = ids'[n] => fate'[e][m] # "cached"

LEMMA Before == \A k \in Nat : \A n \in 1..k : \A m \in 1..(n - 1) : m \in 1..k /\ m < n /\ m # n
  OBVIOUS

LEMMA RouteInOrder ==
    ASSUME CacheInv, NEW id \in MsgIds, NEW T \in SUBSET g_endpoints, T # {}, NEW r, RouteMsg(id, T, r)
    PROVE  InOrder
<1>0. Types
  BY Zenon DEF CacheInv
<1>1. SUFFICES ASSUME NEW e \in Endpoints, NEW n \in 1..Len(ids'),
                      fate[e][n] # "handed", fate'[e][n] = "handed",
                      IsThrottlingEnabled(e, ids'[n]),
                      NEW m \in 1..(n - 1), ids'[m] = ids'[n], fate'[e][m] = "cached"
               PROVE  FALSE
  BY Zenon DEF InOrder
<1>2. /\ Len(ids) \in Nat /\ Len(ids') = Len(ids) + 1 /\ Len(ids) + 1 \in Messages
      /\ 1..Len(ids') \subseteq Messages
      /\ ids'[Len(ids) + 1] = id /\ \A i \in 1..Len(ids) : ids'[i] = ids[i]
  BY <1>0, RouteIds, Zenon
<1>3. PICK k \in Nat, l \in Nat : k = Len(ids) /\ l = k + 1
  BY <1>2, MessagesAreNat, Zenon
<1>4. Len(ids') = l /\ l = Len(ids) + 1
  BY <1>2, <1>3, Zenon
<1>5. n \in 1..l /\ m \in 1..l /\ m < n /\ m # n
  BY <1>4, Before, Zenon
<1>6. m \in 1..k
  BY <1>3, <1>5
<1>7. n \in Messages /\ m \in Messages
  BY <1>2, <1>4, <1>5, Zenon
<1>8. fate[e] \in [Messages -> Fates]
  BY <1>0, Zenon DEF Types
<1>9. /\ e \in T => fate'[e] = [fate[e] EXCEPT ![l] = FateOf(e, id, r[e])]
      /\ e \notin T => fate'[e] = fate[e]
  <2>1. Routed(e, id, T, r)
    BY <1>0, RouteParts, Zenon
  <2>. QED BY <1>4, <2>1, Zenon DEF Routed
<1>10. e \in T /\ n = l
  BY <1>1, <1>7, <1>8, <1>9, Zenon
<1>11. fate'[e][l] = FateOf(e, id, r[e]) /\ fate'[e][m] = fate[e][m]
  BY <1>5, <1>7, <1>8, <1>9, <1>10, Zenon
<1>12. AcceptMsg(e, id) = "Accepted"
  BY <1>1, <1>10, <1>11, FateIs, Zenon
<1>13. ids'[n] = id /\ ids[m] = id
  BY <1>1, <1>2, <1>3, <1>4, <1>6, <1>10, Zenon
<1>14. Queues(cache[e], fate[e], ids, e)
  BY Zenon DEF CacheInv
<1>15. cache[e][id] = <<>>
  <2>1. id \notin Cacheable[e] \/ cache[e][id] = <<>>
    BY <1>1, <1>12, <1>13, AcceptIs, Zenon
  <2>. QED BY <1>14, <2>1, Zenon DEF Queues
<1>16. Holds(<<>>, id, ids, fate[e])
  BY <1>14, <1>15, Zenon DEF Queues
<1>17. \A i \in 1..Len(<<>>) : FALSE
  OBVIOUS
<1>18. fate[e][m] # "cached"
  BY <1>3, <1>6, <1>13, <1>16, <1>17, Zenon DEF Holds
<1>. QED BY <1>1, <1>11, <1>18, Zenon

\* The messages before one at the front of a queue are at the front as well.
AtFront(q, s, m) == \E j \in 1..s : q[j] = m

LEMMA WithinFront == \A n \in Nat : \A s \in 0..n : \A i \in 1..s : i \in 1..n
  OBVIOUS

LEMMA FrontFirst ==
    ASSUME NEW q \in Seq(Nat), NEW s \in 0..Len(q), NEW id, NEW is, NEW f, Holds(q, id, is, f),
           NEW i \in 1..s, NEW m \in 1..Len(is), m < q[i], is[m] = id, f[m] = "cached"
    PROVE  AtFront(q, s, m)
<1>1. PICK j \in 1..Len(q) : q[j] = m
  BY Zenon DEF Holds
<1>2. Len(q) \in Nat
  BY LenIsNat, Zenon
<1>3. i \in 1..Len(q)
  BY <1>2, WithinFront, Zenon
<1>4. q[i] \in Nat /\ q[j] \in Nat
  BY <1>3, ElementTyped, Zenon
<1>5. i < j => q[i] < q[j]
  BY <1>3, Zenon DEF Holds
<1>6. PICK a \in Nat, b \in Nat : a = q[i] /\ b = q[j]
  BY <1>4, Zenon
<1>7. (i < j => a < b) /\ b < a /\ (i = j => a = b)
  BY <1>1, <1>5, <1>6, Zenon
<1>8. j \in 1..s
  BY <1>2, <1>7
<1>. QED BY <1>1, <1>8, Zenon DEF AtFront

LEMMA ResendInOrder ==
    ASSUME CacheInv, NEW r \in AllResults, ResendTimeout(r)
    PROVE  InOrder
<1>0. ids' = ids /\ Types
  BY Zenon DEF ResendTimeout, CacheInv
<1>1. SUFFICES ASSUME NEW e \in Endpoints, NEW n \in 1..Len(ids),
                      fate[e][n] # "handed", fate'[e][n] = "handed",
                      NEW m \in 1..(n - 1), ids[m] = ids[n], fate'[e][m] = "cached"
               PROVE  FALSE
  BY <1>0, Zenon DEF InOrder
<1>2. ids \in Seq(MsgIds) /\ 1..Len(ids) \subseteq Messages /\ fate[e] \in [Messages -> Fates]
  BY <1>0, Zenon DEF Types
<1>3. Len(ids) \in Nat
  BY <1>2, LenIsNat, Zenon
<1>4. m \in 1..Len(ids) /\ m < n
  BY <1>3, Before, Zenon
<1>5. n \in Messages /\ m \in Messages
  BY <1>2, <1>4, Zenon
<1>6. e \in g_endpoints /\ n \in SentOf(e, r[e])
  <2>1. e \in g_endpoints
    BY <1>1, <1>5, ResendFates, Zenon
  <2>2. ASSUME n \notin SentOf(e, r[e]) PROVE FALSE
    <3>1. fate'[e][n] = IF ~r[e].open /\ fate[e][n] = "cached" THEN "dropped" ELSE fate[e][n]
      BY <1>5, <2>1, <2>2, ResendFates, Zenon
    <3>. QED BY <1>1, <3>1
  <2>. QED BY <2>1, <2>2, Zenon
<1>7. m \notin SentOf(e, r[e]) /\ fate[e][m] = "cached"
  <2>1. ASSUME m \in SentOf(e, r[e]) PROVE FALSE
    <3>1. fate'[e][m] = "handed"
      BY <1>5, <1>6, <2>1, ResendFates, Zenon
    <3>. QED BY <1>1, <3>1
  <2>2. fate'[e][m] = IF ~r[e].open /\ fate[e][m] = "cached" THEN "dropped" ELSE fate[e][m]
    BY <1>5, <1>6, <2>1, ResendFates, Zenon
  <2>. QED BY <1>1, <2>1, <2>2
<1>8. Fits(r[e], e) /\ cache[e] \in Caches /\ Queues(cache[e], fate[e], ids, e)
  BY <1>0, <1>6, ResultsOf, Zenon DEF CacheInv, Types, AllCaches
<1>9. Fronts(SentOf(e, r[e]), cache[e], fate[e], r[e].sent)
  BY <1>8, SentIs, Zenon
<1>10. PICK id : id = ids[n]
  BY Zenon
<1>11. id \in MsgIds
  BY <1>2, <1>10
<1>12. PICK q, s : q = cache[e][id] /\ s = r[e].sent[id]
  BY Zenon
<1>13. q \in Seq(Nat) /\ s \in 0..Len(q) /\ Holds(q, id, ids, fate[e])
  BY <1>8, <1>11, <1>12, Zenon DEF Caches, Fits, Queues
<1>14. PICK i \in 1..s : q[i] = n
  BY <1>6, <1>9, <1>10, <1>12, Zenon DEF Fronts
<1>15. m < q[i] /\ ids[m] = id
  BY <1>1, <1>4, <1>10, <1>14, Zenon
<1>16. PICK j \in 1..s : q[j] = m
  <2>1. PICK f : f = fate[e]
    BY Zenon
  <2>2. Holds(q, id, ids, f) /\ f[m] = "cached"
    BY <1>7, <1>13, <2>1, Zenon
  <2>3. AtFront(q, s, m)
    BY <1>4, <1>13, <1>15, <2>2, FrontFirst, Zenon
  <2>. QED BY <2>3, Zenon DEF AtFront
<1>17. m \in SentOf(e, r[e])
  BY <1>9, <1>11, <1>12, <1>16, Zenon DEF Fronts
<1>. QED BY <1>7, <1>17

LEMMA RemoveInOrder ==
    ASSUME CacheInv, NEW x \in Endpoints, RemoveEndpoint(x)
    PROVE  InOrder
<1>0. ids' = ids /\ Types
  BY Zenon DEF RemoveEndpoint, CacheInv
<1>1. SUFFICES ASSUME NEW e \in Endpoints, NEW n \in 1..Len(ids),
                      fate[e][n] # "handed", fate'[e][n] = "handed"
               PROVE  FALSE
  BY <1>0, Zenon DEF InOrder
<1>2. n \in Messages /\ fate \in [Endpoints -> [Messages -> Fates]]
  BY <1>0, Zenon DEF Types
<1>3. PICK g : g = [k \in Messages |-> IF fate[x][k] = "cached" THEN "dropped" ELSE fate[x][k]]
  BY Zenon
<1>4. fate' = [fate EXCEPT ![x] = g]
  BY <1>3, Zenon DEF RemoveEndpoint
<1>5. CASE e # x
  BY <1>1, <1>2, <1>4, <1>5, Zenon
<1>6. CASE e = x
  <2>1. fate'[e] = g
    BY <1>2, <1>4, <1>6, Zenon
  <2>2. fate'[e][n] = IF fate[x][n] = "cached" THEN "dropped" ELSE fate[x][n]
    BY <1>2, <1>3, <2>1, Zenon
  <2>. QED BY <1>1, <1>6, <2>2
<1>. QED BY <1>5, <1>6

LEMMA StepInOrder ==
    ASSUME CacheInv, [Next]_vars
    PROVE  InOrder
<1>1. CASE \E id, T, r : Routes(id, T) /\ RouteMsg(id, T, r)
  <2>1. PICK id, T, r : Routes(id, T) /\ RouteMsg(id, T, r)
    BY <1>1
  <2>. QED BY <2>1, RouteInOrder, Zenon DEF Routes
<1>2. CASE \E r \in AllResults : ResendTimeout(r)
  BY <1>2, ResendInOrder, Zenon
<1>3. CASE \E e \in Endpoints : RemoveEndpoint(e)
  BY <1>3, RemoveInOrder, Zenon
<1>4. CASE Quiet
  <2>1. fate' = fate
    BY <1>4, QuietIs, Zenon
  <2>. QED BY <2>1, Zenon DEF InOrder
<1>. QED BY <1>1, <1>2, <1>3, <1>4, StepIs, Zenon

\* Neither a message that is due when it arrives nor the resend timer ever hands
\* write_msg a message while an older one with the same, still throttled id
\* waits in the cache of the same endpoint.
THEOREM NeverOvertakes == Spec => NoOvertaking
<1>1. CacheInv /\ [Next]_vars => [InOrder]_vars
  BY StepInOrder
<1>2. CacheInv /\ [Next]_vars =>
         [\A e \in Endpoints, n \in 1..Len(ids') :
          /\ fate[e][n] # "handed" /\ fate'[e][n] = "handed"
          /\ IsThrottlingEnabled(e, ids'[n])
          => \A m \in 1..(n - 1) : ids'[m] = ids'[n] => fate'[e][m] # "cached"]_vars
  BY <1>1 DEF InOrder
<1>. QED BY <1>2, CacheAlways, PTL DEF Spec, NoOvertaking

-----------------------------------------------------------------------------
\* The resend timer.  A step sets it anew, or leaves the queues alone.
Resets == timer' = Rescheduled(g_endpoints', cache', throttle')

KeepsQueues == g_endpoints' \subseteq g_endpoints /\ \A e \in g_endpoints' : cache'[e] = cache[e]

\* The deadlines come no closer, by more than t ticks.
NoCloser(t) ==
    \A e \in Endpoints, id \in MsgIds : DueAt(throttle[e][id]) - t <= DueAt(throttle'[e][id])

\* The timer after a tick of the clock.
TickedTimer == IF timer > 0 THEN timer - 1 ELSE timer

Passes ==
    \/ timer' = TickedTimer /\ NoCloser(1)
    \/ timer' = timer /\ (PeriodsKept => NoCloser(0))

LEMMA LessNothing == \A x \in Times : x - 0 <= x
  BY DEF Times

LEMMA SameLimits ==
    ASSUME throttle \in AllLimits, throttle' = throttle
    PROVE  NoCloser(0)
<1>1. ASSUME NEW e \in Endpoints, NEW id \in MsgIds
      PROVE  DueAt(throttle[e][id]) - 0 <= DueAt(throttle'[e][id])
  <2>1. throttle[e][id] \in Limits
    BY Zenon DEF AllLimits
  <2>2. PICK x \in Times : x = DueAt(throttle[e][id])
    BY <2>1, DueAtIs, Zenon
  <2>3. DueAt(throttle'[e][id]) = x
    BY <2>2, Zenon
  <2>. QED BY <2>2, <2>3, LessNothing, Zenon
<1>. QED BY <1>1, Zenon DEF NoCloser

LEMMA LaterLimits ==
    ASSUME throttle \in AllLimits, throttle' \in AllLimits,
           \A e \in Endpoints, id \in MsgIds : DueAt(throttle[e][id]) <= DueAt(throttle'[e][id])
    PROVE  NoCloser(0)
<1>1. ASSUME NEW e \in Endpoints, NEW id \in MsgIds
      PROVE  DueAt(throttle[e][id]) - 0 <= DueAt(throttle'[e][id])
  <2>1. throttle[e][id] \in Limits /\ throttle'[e][id] \in Limits
    BY Zenon DEF AllLimits
  <2>2. PICK x \in Times, y \in Times : x = DueAt(throttle[e][id]) /\ y = DueAt(throttle'[e][id])
    BY <2>1, DueAtIs, Zenon
  <2>3. x <= y
    BY <2>2, Zenon
  <2>4. x - 0 <= y
    BY <2>3 DEF Times
  <2>. QED BY <2>2, <2>4, Zenon
<1>. QED BY <1>1, Zenon DEF NoCloser

LEMMA RouteTimer ==
    ASSUME CacheInv, NEW id \in MsgIds, NEW T \in SUBSET g_endpoints, T # {}, NEW r, RouteMsg(id, T, r)
    PROVE  Resets \/ (KeepsQueues /\ Passes)
<1>0. Types
  BY Zenon DEF CacheInv
<1>1. g_endpoints' = g_endpoints
  BY Zenon DEF RouteMsg
<1>2. PICK C : C = {e \in T : AcceptMsg(e, id) = "Cached"}
  BY Zenon
<1>3. timer' = IF C = {} THEN timer ELSE Rescheduled(g_endpoints, cache', throttle')
  BY <1>2, Zenon DEF RouteMsg, ScheduleResend
<1>4. CASE C # {}
  BY <1>1, <1>3, <1>4, Zenon DEF Resets
<1>5. CASE C = {}
  <2>1. ASSUME NEW e \in g_endpoints PROVE cache'[e] = cache[e]
    <3>1. e \in Endpoints
      BY <1>0, Zenon DEF Types
    <3>2. Routed(e, id, T, r)
      BY <1>0, <3>1, RouteParts, Zenon
    <3>3. ~Stores(e, id, T)
      BY <1>2, <1>5, Zenon DEF Stores
    <3>. QED BY <3>2, <3>3, Zenon DEF Routed
  <2>2. KeepsQueues
    BY <1>1, <2>1, Zenon DEF KeepsQueues
  <2>3. NoCloser(0)
    <3>1. /\ throttle' \in AllLimits
          /\ \A e \in Endpoints, i \in MsgIds : DueAt(throttle[e][i]) <= DueAt(throttle'[e][i])
      BY <1>0, RouteThrottle, Zenon
    <3>. QED BY <1>0, <3>1, LaterLimits, Zenon DEF Types
  <2>. QED BY <1>3, <1>5, <2>2, <2>3, Zenon DEF Passes
<1>. QED BY <1>4, <1>5

LEMMA ThrottleTimer ==
    ASSUME CacheInv, NEW e \in g_endpoints, NEW id \in Allowed[e], NEW period \in NewRates[e],
           Throttle(e, id, period)
    PROVE  KeepsQueues /\ Passes
<1>1. UNCHANGED <<g_endpoints, cache, timer>>
  BY Zenon DEF Throttle
<1>2. e \in Endpoints /\ id \in MsgIds /\ period \in 0..MaxPeriod
  BY ThrottleCommand, Zenon
<1>3. throttle \in AllLimits
  BY Zenon DEF CacheInv, Types
<1>4. /\ throttle' \in AllLimits
      /\ \A f \in Endpoints, i \in MsgIds :
            throttle'[f][i] = IF f = e /\ i = id THEN Limited(throttle[e][id], period)
                              ELSE throttle[f][i]
  <2>1. throttle' \in AllLimits /\ SetsLimit(e, id, period)
    BY <1>2, <1>3, ThrottleSets, Zenon
  <2>. QED BY <2>1, Zenon DEF SetsLimit
<1>5. ASSUME PeriodsKept, NEW f \in Endpoints, NEW i \in MsgIds
      PROVE  DueAt(throttle[f][i]) <= DueAt(throttle'[f][i])
  <2>0. \A x \in Times : x <= x
    BY DEF Times
  <2>1. DueAt(throttle[f][i]) \in Times
    BY <1>3, DueAtIs, Zenon DEF AllLimits
  <2>2. DueAt(throttle'[f][i]) = DueAt(throttle[f][i])
    <3>1. CASE f = e /\ i = id
      <4>1. PICK l \in Limits : l = throttle[e][id]
        BY <1>2, <1>3, Zenon DEF AllLimits
      <4>2. throttle'[f][i] = Limited(l, period) /\ throttle[f][i] = l
        BY <1>4, <3>1, <4>1, Zenon
      <4>3. Limited(l, period).period = period
        BY DEF Limited
      <4>4. period = l.period
        BY <1>2, <1>5, <3>1, <4>2, <4>3, Zenon DEF PeriodsKept
      <4>5. DueAt(Limited(l, period)) = DueAt(l)
        BY <4>4 DEF Limited, DueAt
      <4>. QED BY <4>2, <4>5, Zenon
    <3>2. CASE ~(f = e /\ i = id)
      BY <1>4, <3>2, Zenon
    <3>. QED BY <3>1, <3>2
  <2>. QED BY <2>0, <2>1, <2>2, Zenon
<1>6. PeriodsKept => NoCloser(0)
  BY <1>3, <1>4, <1>5, LaterLimits, Zenon
<1>7. KeepsQueues
  BY <1>1, Zenon DEF KeepsQueues
<1>. QED BY <1>1, <1>6, <1>7, Zenon DEF Passes

LEMMA QuietTimer ==
    ASSUME CacheInv, Quiet
    PROVE  KeepsQueues /\ Passes
<1>0. throttle \in AllLimits
  BY Zenon DEF CacheInv, Types
<1>1. CASE Tick
  <2>1. UNCHANGED <<g_endpoints, cache>> /\ timer' = TickedTimer
    BY <1>1, Zenon DEF Tick, TickedTimer
  <2>2. NoCloser(1)
    <3>1. \A e \in Endpoints, id \in MsgIds : throttle'[e][id] = Ticked(throttle[e][id])
      BY <1>0, <1>1, TickThrottle, Zenon
    <3>2. ASSUME NEW e \in Endpoints, NEW id \in MsgIds
          PROVE  DueAt(throttle[e][id]) - 1 <= DueAt(throttle'[e][id])
      <4>1. PICK l \in Limits : l = throttle[e][id]
        BY <1>0, Zenon DEF AllLimits
      <4>2. DueAt(l) - 1 <= DueAt(Ticked(l))
        BY TickedIs, Zenon
      <4>. QED BY <3>1, <4>1, <4>2, Zenon
    <3>. QED BY <3>2, Zenon DEF NoCloser
  <2>. QED BY <2>1, <2>2, Zenon DEF KeepsQueues, Passes
<1>2. CASE \E e \in Endpoints : Close(e) \/ Reopen(e)
  <2>1. UNCHANGED <<g_endpoints, throttle, cache, timer>>
    BY <1>2, Zenon DEF Close, Reopen
  <2>. QED BY <1>0, <2>1, SameLimits, Zenon DEF KeepsQueues, Passes
<1>3. CASE \E e \in g_endpoints : \E id \in Allowed[e], p \in NewRates[e] : Throttle(e, id, p)
  BY <1>3, ThrottleTimer, Zenon
<1>4. CASE UNCHANGED vars
  <2>1. UNCHANGED <<g_endpoints, throttle, cache, timer>>
    BY <1>4, Zenon DEF vars
  <2>. QED BY <1>0, <2>1, SameLimits, Zenon DEF KeepsQueues, Passes
<1>. QED BY <1>1, <1>2, <1>3, <1>4, Zenon DEF Quiet

LEMMA RemoveTimer ==
    ASSUME CacheInv, NEW x \in Endpoints, RemoveEndpoint(x)
    PROVE  KeepsQueues /\ Passes
<1>0. throttle \in AllLimits /\ cache \in AllCaches /\ g_endpoints \in SUBSET Endpoints
  BY Zenon DEF CacheInv, Types
<1>1. g_endpoints' = g_endpoints \ {x} /\ throttle' = throttle /\ timer' = timer
  BY Zenon DEF RemoveEndpoint
<1>2. PICK d : cache' = [cache EXCEPT ![x] = d]
  BY Zenon DEF RemoveEndpoint
<1>3. ASSUME NEW e \in g_endpoints' PROVE cache'[e] = cache[e]
  <2>1. e \in Endpoints /\ e # x
    BY <1>0, <1>1, Zenon
  <2>. QED BY <1>0, <1>2, <2>1, Zenon DEF AllCaches
<1>4. KeepsQueues
  BY <1>1, <1>3, Zenon DEF KeepsQueues
<1>. QED BY <1>0, <1>1, <1>4, SameLimits, Zenon DEF Passes

LEMMA TimerStep ==
    ASSUME CacheInv, [Next]_vars
    PROVE  Resets \/ (KeepsQueues /\ Passes)
<1>1. CASE \E id, T, r : Routes(id, T) /\ RouteMsg(id, T, r)
  <2>1. PICK id, T, r : Routes(id, T) /\ RouteMsg(id, T, r)
    BY <1>1
  <2>. QED BY <2>1, RouteTimer, Zenon DEF Routes
<1>2. CASE \E r \in AllResults : ResendTimeout(r)
  BY <1>2, Zenon DEF ResendTimeout, Resets
<1>3. CASE \E e \in Endpoints : RemoveEndpoint(e)
  BY <1>3, RemoveTimer, Zenon
<1>4. CASE Quiet
  BY <1>4, QuietTimer, Zenon
<1>. QED BY <1>1, <1>2, <1>3, <1>4, StepIs, Zenon

\* A queue that waits after the step waited before it.
LEMMA StillWaits ==
    ASSUME CacheInv, KeepsQueues, NEW e \in g_endpoints', NEW id \in MsgIds, cache'[e][id] # <<>>
    PROVE  Waits(g_endpoints, cache, e) /\ e \in Endpoints /\ cache[e][id] # <<>>
<1>1. e \in g_endpoints /\ cache'[e] = cache[e]
  BY Zenon DEF KeepsQueues
<1>2. cache[e][id] # <<>>
  BY <1>1, Zenon
<1>. QED BY <1>1, <1>2, Zenon DEF Waits, CacheInv, Types

\* As long as a message waits in the cache of an endpoint of the list, the
\* resend timer runs.
TimerArmed == \A e : Waits(g_endpoints, cache, e) => timer # Off

LEMMA ResetsArmed ==
    ASSUME CacheInv', Resets
    PROVE  /\ TimerArmed'
           /\ \A e : Waits(g_endpoints', cache', e) => timer' <= Bound(Deadline(e, cache', throttle'))
<1>1. throttle' \in AllLimits /\ g_endpoints' \in SUBSET Endpoints
  BY Zenon DEF CacheInv, Types
<1>2. PICK t \in AllLimits, g \in SUBSET Endpoints : t = throttle' /\ g = g_endpoints'
  BY <1>1, Zenon
<1>3. PICK c : c = cache'
  BY Zenon
<1>4. timer' = Rescheduled(g, c, t)
  BY <1>2, <1>3, Zenon DEF Resets
<1>5. ASSUME NEW e, Waits(g, c, e) PROVE timer' # Off /\ timer' <= Bound(Deadline(e, c, t))
  BY <1>4, <1>5, RescheduledIs, Zenon
<1>. QED BY <1>2, <1>3, <1>5, Zenon DEF TimerArmed

LEMMA TicksOn == \A x \in Int : x >= Off /\ x # Off =>
                    LET y == IF x > 0 THEN x - 1 ELSE x IN y \in Nat /\ y # Off /\ (y = 0 \/ y = x - 1)
  BY DEF Off

LEMMA PassesArmed ==
    ASSUME CacheInv, TimerArmed, KeepsQueues, Passes
    PROVE  TimerArmed'
<1> SUFFICES ASSUME NEW e, Waits(g_endpoints', cache', e) PROVE timer' # Off
  BY Zenon DEF TimerArmed
<1>1. PICK id \in MsgIds : e \in g_endpoints' /\ cache'[e][id] # <<>>
  BY Zenon DEF Waits
<1>2. Waits(g_endpoints, cache, e)
  BY <1>1, StillWaits, Zenon
<1>3. timer # Off /\ timer \in Int /\ timer >= Off
  BY <1>2, Zenon DEF TimerArmed, CacheInv, Types
<1>4. TickedTimer # Off
  BY <1>3, TicksOn, Zenon DEF TickedTimer
<1>5. timer' = timer \/ timer' = TickedTimer
  BY Zenon DEF Passes
<1>. QED BY <1>3, <1>4, <1>5, Zenon

\* The one resend timer of the main loop is never left off while a message
\* waits for it, whatever the throttle command does to the rates.
THEOREM TimerStaysArmed == Spec => []TimerArmed
<1>1. Init => TimerArmed
  <2>1. SUFFICES ASSUME Init, NEW e, Waits(g_endpoints, cache, e) PROVE FALSE
    BY Zenon DEF TimerArmed
  <2>2. PICK id \in MsgIds : e \in g_endpoints /\ cache[e][id] # <<>>
    BY <2>1, Zenon DEF Waits
  <2>3. e \in Endpoints
    BY <2>1, <2>2, InitCache, Zenon DEF CacheInv, Types
  <2>. QED BY <2>1, <2>2, <2>3, Zenon DEF Init
<1>2. ASSUME CacheInv, CacheInv', TimerArmed, [Next]_vars PROVE TimerArmed'
  <2>1. Resets \/ (KeepsQueues /\ Passes)
    BY <1>2, TimerStep, Zenon
  <2>. QED BY <1>2, <2>1, ResetsArmed, PassesArmed, Zenon
<1>3. CacheInv /\ CacheInv' /\ TimerArmed /\ [Next]_vars => TimerArmed'
  BY <1>2
<1>. QED BY <1>1, <1>3, CacheAlways, PTL DEF Spec

\* The deadlines after a step that leaves the queues alone.
LEMMA DeadlineLater ==
    ASSUME CacheInv, CacheInv', KeepsQueues, NEW t \in {0, 1}, NoCloser(t), NEW e,
           Waits(g_endpoints', cache', e)
    PROVE  /\ Waits(g_endpoints, cache, e)
           /\ Deadline(e, cache, throttle) \in Int /\ Deadline(e, cache', throttle') \in Int
           /\ Deadline(e, cache, throttle) - t <= Deadline(e, cache', throttle')
<1>1. PICK i \in MsgIds : e \in g_endpoints' /\ cache'[e][i] # <<>>
  BY Zenon DEF Waits
<1>2. Waits(g_endpoints, cache, e) /\ e \in Endpoints /\ cache[e][i] # <<>>
  BY <1>1, StillWaits, Zenon
<1>3. PICK a \in AllLimits, b \in AllLimits : a = throttle /\ b = throttle'
  BY Zenon DEF CacheInv, Types
<1>4. PICK c, d : c = cache /\ d = cache'
  BY Zenon
<1>5. /\ Deadline(e, c, a) \in Times
      /\ \A id \in MsgIds : c[e][id] # <<>> => Deadline(e, c, a) <= DueAt(a[e][id])
  BY <1>2, <1>4, DeadlineIs, Zenon
<1>6. /\ Deadline(e, d, b) \in Times
      /\ \E id \in MsgIds : d[e][id] # <<>> /\ Deadline(e, d, b) = DueAt(b[e][id])
  BY <1>1, <1>2, <1>4, DeadlineIs, Zenon
<1>7. PICK id \in MsgIds : d[e][id] # <<>> /\ Deadline(e, d, b) = DueAt(b[e][id])
  BY <1>6
<1>8. c[e][id] # <<>>
  BY <1>1, <1>4, <1>7, StillWaits, Zenon
<1>9. a[e][id] \in Limits /\ b[e][id] \in Limits
  BY <1>2, Zenon DEF AllLimits
<1>10. PICK x \in Times, y \in Times, u \in Times, v \in Times :
          /\ x = Deadline(e, c, a) /\ y = Deadline(e, d, b)
          /\ u = DueAt(a[e][id]) /\ v = DueAt(b[e][id])
  BY <1>5, <1>6, <1>9, DueAtIs, Zenon
<1>11. x <= u /\ y = v /\ u - t <= v
  BY <1>2, <1>3, <1>5, <1>7, <1>8, <1>10, Zenon DEF NoCloser
<1>12. x \in Int /\ y \in Int /\ x - t <= y
  BY <1>11 DEF Times
<1>. QED BY <1>2, <1>3, <1>4, <1>10, <1>12, Zenon

LEMMA BoundBefore ==
    ASSUME NEW d \in Int
    PROVE  Bound(d) - 1 <= Bound(d - 1)
<1>1. PICK c \in Int : c = d - 1
  OBVIOUS
<1>2. TicksPerMs \in Nat
  BY Constants
<1>3. PICK t \in Nat, w \in Nat \ {0} : t = TicksPerMs /\ w = RetryMs * TicksPerMs
  BY <1>2, BoundIs, Zenon
<1>4. PICK a \in Int, b \in Int : a = Bound(d) /\ b = Bound(c)
  BY BoundIs, Zenon
<1>5. a = d + t - 1 \/ a = w
  BY <1>3, <1>4, BoundIs, Zenon
<1>6. b >= c + t - 1 /\ b >= w
  BY <1>3, <1>4, BoundIs, Zenon
<1>7. a - 1 <= b
  BY <1>1, <1>5, <1>6
<1>. QED BY <1>1, <1>4, <1>7, Zenon

LEMMA InTimeIs ==
    InTime <=> \A e : Waits(g_endpoints, cache, e) =>
                         timer # Off /\ timer <= Bound(Deadline(e, cache, throttle))
  BY Zenon DEF InTime, Waits, HasCached, Bound

LEMMA PassesInTime ==
    ASSUME CacheInv, CacheInv', InTime, KeepsQueues, PeriodsKept, Passes, NEW e,
           Waits(g_endpoints', cache', e)
    PROVE  timer' # Off /\ timer' <= Bound(Deadline(e, cache', throttle'))
<1>0. timer \in Int /\ timer >= Off
  BY Zenon DEF CacheInv, Types
<1>1. ASSUME NEW t \in {0, 1}, NoCloser(t)
      PROVE  \E x, y \in Int : /\ y = Deadline(e, cache', throttle')
                               /\ x - t <= y /\ timer # Off /\ timer <= Bound(x)
  <2>1. /\ Waits(g_endpoints, cache, e)
        /\ Deadline(e, cache, throttle) \in Int /\ Deadline(e, cache', throttle') \in Int
        /\ Deadline(e, cache, throttle) - t <= Deadline(e, cache', throttle')
    BY <1>1, DeadlineLater, Zenon
  <2>2. timer # Off /\ timer <= Bound(Deadline(e, cache, throttle))
    BY <2>1, InTimeIs, Zenon
  <2>. QED BY <2>1, <2>2, Zenon
<1>2. CASE timer' = TickedTimer /\ NoCloser(1)
  <2>1. PICK x, y \in Int : /\ y = Deadline(e, cache', throttle')
                            /\ x - 1 <= y /\ timer # Off /\ timer <= Bound(x)
    BY <1>1, <1>2, Zenon
  <2>2. timer' \in Nat /\ timer' # Off /\ (timer' = 0 \/ timer' = timer - 1)
    BY <1>0, <1>2, <2>1, TicksOn, Zenon DEF TickedTimer
  <2>3. PICK z \in Int : z = x - 1
    OBVIOUS
  <2>4. PICK p \in Int, q \in Int, u \in Int : p = Bound(x) /\ q = Bound(y) /\ u = Bound(z)
    BY BoundIs, Zenon
  <2>5. p - 1 <= u
    BY <2>3, <2>4, BoundBefore, Zenon
  <2>6. u <= q
    <3>1. z <= y
      BY <2>1, <2>3, Zenon
    <3>. QED BY <2>4, <3>1, BoundGrows, Zenon
  <2>7. q >= 0
    <3>1. PICK w \in Nat \ {0} : q >= w
      BY <2>4, BoundIs, Zenon
    <3>. QED BY <3>1
  <2>8. PICK m \in Int, n \in Nat : m = timer /\ n = timer'
    BY <1>0, <2>2, Zenon
  <2>9. m <= p /\ (n = 0 \/ n = m - 1)
    BY <2>1, <2>2, <2>4, <2>8, Zenon
  <2>10. n <= q
    BY <2>5, <2>6, <2>7, <2>9
  <2>. QED BY <2>1, <2>2, <2>4, <2>8, <2>10, Zenon
<1>3. CASE timer' = timer /\ (PeriodsKept => NoCloser(0))
  <2>1. PICK x, y \in Int : /\ y = Deadline(e, cache', throttle')
                            /\ x - 0 <= y /\ timer # Off /\ timer <= Bound(x)
    BY <1>1, <1>3, Zenon
  <2>2. x <= y
    BY <2>1
  <2>3. PICK p \in Int, q \in Int : p = Bound(x) /\ q = Bound(y)
    BY BoundIs, Zenon
  <2>4. p <= q
    BY <2>2, <2>3, BoundGrows, Zenon
  <2>5. PICK m \in Int : m = timer /\ m <= p
    BY <1>0, <2>1, <2>3, Zenon
  <2>6. m <= q
    BY <2>4, <2>5
  <2>. QED BY <1>3, <2>1, <2>3, <2>5, <2>6, Zenon
<1>. QED BY <1>2, <1>3, Zenon DEF Passes

LEMMA InTimeStep ==
    ASSUME CacheInv, CacheInv', [Next]_vars, InTime, PeriodsKept
    PROVE  InTime'
<1>1. ASSUME NEW e, Waits(g_endpoints', cache', e)
      PROVE  timer' # Off /\ timer' <= Bound(Deadline(e, cache', throttle'))
  <2>1. CASE Resets
    BY <1>1, <2>1, ResetsArmed, Zenon DEF TimerArmed
  <2>2. CASE KeepsQueues /\ Passes
    BY <1>1, <2>2, PassesInTime, Zenon
  <2>. QED BY <2>1, <2>2, TimerStep, Zenon
<1>2. \A e \in g_endpoints' : HasCached(e)' => Waits(g_endpoints', cache', e)
  BY Zenon DEF Waits, HasCached
<1>. QED BY <1>1, <1>2, Zenon DEF InTime, Bound

\* As long as the periods are left alone, no step lets the timer fall behind:
\* it fires before the earliest deadline of the cached messages of all
\* endpoints, but for the rounding to milliseconds and the retry delay.
THEOREM TimerKeepsUp == Spec => TimerInTime
<1>1. CacheInv /\ CacheInv' /\ [Next]_vars => [InTime /\ PeriodsKept => InTime']_vars
  BY InTimeStep
<1>. QED BY <1>1, CacheAlways, PTL DEF Spec, TimerInTime
=============================================================================
