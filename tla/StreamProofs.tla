---------------------------- MODULE StreamProofs ----------------------------
(***************************************************************************)
(* Dedup implements DedupAbs, for every period and every set of packets;   *)
(* the rate limit holds for every rate; and both hold when they are put    *)
(* together.                                                               *)
(*                                                                         *)
(* The inductive invariant of Dedup says what the queue holds: entries in  *)
(* order of time, one per hash, all of them packets reported new, and      *)
(* among them every packet reported new within the period.  The invariant  *)
(* behind the rate limit: after a message was let through, next_timestamp  *)
(* is at most one period behind it, and every later message moves          *)
(* next_timestamp by a period or more.                                     *)
(***************************************************************************)
EXTENDS Stream, SequenceTheorems, FiniteSetTheorems, TLAPS

AcceptedPast == \A p \in accepted : p[1] <= now

EntriesAccepted == Entries \subseteq accepted

RecentQueued ==
    Period > 0 => \A p \in accepted : now <= p[1] + Period => p \in Entries

Inv == /\ TypeOK /\ SetMatchesQueue /\ QueueInOrder
       /\ AcceptedPast /\ EntriesAccepted /\ RecentQueued

-----------------------------------------------------------------------------
LEMMA InitInv == Init => Inv
  <1> SUFFICES ASSUME Init PROVE Inv
    OBVIOUS
  <1>1. Entries = {}
    BY DEF Init, Entries
  <1> QED
    BY <1>1, DedupAssumption DEF Init, Inv, TypeOK, SetMatchesQueue, QueueInOrder,
       AcceptedPast, EntriesAccepted, RecentQueued

LEMMA TickInv == ASSUME Inv, Tick PROVE Inv'
  <1>1. Entries' = Entries
    BY DEF Tick, Entries
  <1>2. TypeOK' /\ AcceptedPast'
    BY DedupAssumption DEF Inv, Tick, PassTime, TypeOK, AcceptedPast
  <1>3. RecentQueued'
    BY <1>1, DedupAssumption DEF Inv, Tick, PassTime, TypeOK, RecentQueued
  <1> QED
    BY <1>1, <1>2, <1>3
       DEF Inv, Tick, SetMatchesQueue, QueueInOrder, EntriesAccepted

\* What is left of the queue when k entries are popped.
LEMMA RemainingFacts ==
    ASSUME Inv, NEW k \in 0..Len(time_hash_queue)
    PROVE  /\ Remaining(k) \in Seq(Nat \X Hashes)
           /\ Len(Remaining(k)) = Len(time_hash_queue) - k
           /\ \A i \in 1..Len(Remaining(k)) : Remaining(k)[i] = time_hash_queue[i + k]
  <1>1. \A i \in (k + 1)..Len(time_hash_queue) : time_hash_queue[i] \in Nat \X Hashes
    BY DEF Inv, TypeOK
  <1>2. Len(time_hash_queue) \in Nat
    BY DEF Inv, TypeOK
  <1> QED
    BY <1>1, <1>2, SubSeqProperties DEF Remaining

LEMMA LaterNotOlder ==
    ASSUME NEW n \in Nat, NEW a \in Nat, NEW b \in Nat, NEW p \in Nat,
           a <= b, ~(n > a + p)
    PROVE  ~(n > b + p)
  OBVIOUS

\* The loop pops exactly the entries that are too old, because the queue is in
\* order of time.
LEMMA PopsExactly ==
    ASSUME Inv, NEW k \in 0..Len(time_hash_queue), PopsExpired(k)
    PROVE  \A i \in 1..Len(time_hash_queue) :
              Expired(time_hash_queue[i]) <=> i <= k
  <1>1. ASSUME NEW i \in 1..Len(time_hash_queue), i > k
        PROVE  ~Expired(time_hash_queue[i])
    <2>1. k + 1 \in 1..Len(time_hash_queue) /\ k + 1 <= i
      BY <1>1 DEF Inv, TypeOK
    <2>2. ~(now > time_hash_queue[k + 1][1] + Period)
      BY <2>1 DEF PopsExpired, Expired, Inv, TypeOK
    <2>3. time_hash_queue[k + 1][1] <= time_hash_queue[i][1]
      BY <2>1 DEF Inv, TypeOK, QueueInOrder
    <2>4. /\ time_hash_queue[k + 1][1] \in Nat /\ time_hash_queue[i][1] \in Nat
          /\ now \in Nat /\ Period \in Nat
      BY <2>1, DedupAssumption DEF Inv, TypeOK
    <2>5. ~(now > time_hash_queue[i][1] + Period)
      BY <2>2, <2>3, <2>4, LaterNotOlder
    <2> QED
      BY <2>5 DEF Expired
  <1> QED
    BY <1>1 DEF PopsExpired, Inv, TypeOK
Kept(k) == {Remaining(k)[i] : i \in 1..Len(Remaining(k))}

LEMMA KeptEntries ==
    ASSUME Inv, NEW k \in 0..Len(time_hash_queue), PopsExpired(k)
    PROVE  Kept(k) = {e \in Entries : ~Expired(e)}
  <1>1. Len(time_hash_queue) \in Nat
    BY DEF Inv, TypeOK
  <1>2. ASSUME NEW e \in Kept(k)
        PROVE  e \in Entries /\ ~Expired(e)
    <2>1. PICK i \in 1..Len(Remaining(k)) : e = Remaining(k)[i]
      BY DEF Kept
    <2>2. i + k \in 1..Len(time_hash_queue) /\ i + k > k /\ e = time_hash_queue[i + k]
      BY <1>1, <2>1, RemainingFacts
    <2>3. ~(i + k <= k)
      BY <1>1, <2>1
    <2> QED
      BY <2>2, <2>3, PopsExactly DEF Entries
  <1>3. ASSUME NEW e \in Entries, ~Expired(e)
        PROVE  e \in Kept(k)
    <2>1. PICK i \in 1..Len(time_hash_queue) : e = time_hash_queue[i]
      BY DEF Entries
    <2>2. ~(i <= k)
      BY <1>3, <2>1, PopsExactly
    <2>3. i - k \in 1..Len(Remaining(k)) /\ (i - k) + k = i
      BY <1>1, <2>1, <2>2, RemainingFacts
    <2>4. Remaining(k)[i - k] = time_hash_queue[(i - k) + k]
      BY <2>3, RemainingFacts, Zenon
    <2> QED
      BY <2>1, <2>3, <2>4 DEF Kept
  <1> QED
    BY <1>2, <1>3

\* The set without the popped hashes holds the hashes that are still queued.
LEMMA KeptHashes ==
    ASSUME Inv, NEW k \in 0..Len(time_hash_queue), PopsExpired(k)
    PROVE  packet_hash_set \ Popped(k) = {e[2] : e \in Kept(k)}
  <1>1. Len(time_hash_queue) \in Nat
    BY DEF Inv, TypeOK
  <1>2. ASSUME NEW i \in 1..Len(time_hash_queue)
        PROVE  time_hash_queue[i][2] \in Popped(k) <=> i <= k
    BY <1>1, <1>2 DEF Inv, SetMatchesQueue, Popped
  <1>3. ASSUME NEW i \in 1..Len(time_hash_queue)
        PROVE  time_hash_queue[i] \in Kept(k) <=> ~(i <= k)
    BY <1>3, KeptEntries, PopsExactly DEF Entries
  <1>4. packet_hash_set = {time_hash_queue[i][2] : i \in 1..Len(time_hash_queue)}
    BY DEF Inv, SetMatchesQueue, Entries
  <1>5. ASSUME NEW h \in packet_hash_set, h \notin Popped(k)
        PROVE  h \in {e[2] : e \in Kept(k)}
    <2>1. PICK i \in 1..Len(time_hash_queue) : h = time_hash_queue[i][2]
      BY <1>4
    <2> QED
      BY <1>2, <1>3, <1>5, <2>1
  <1>6. ASSUME NEW e \in Kept(k)
        PROVE  e[2] \in packet_hash_set /\ e[2] \notin Popped(k)
    <2>1. PICK i \in 1..Len(time_hash_queue) : e = time_hash_queue[i]
      BY KeptEntries DEF Entries
    <2> QED
      BY <1>2, <1>3, <1>4, <1>6, <2>1
  <1> QED
    BY <1>5, <1>6

\* A hash is in that set exactly when a packet with it was reported new within
\* the period.
LEMMA KeptIsRecent ==
    ASSUME Inv, Period > 0, NEW k \in 0..Len(time_hash_queue), PopsExpired(k), NEW h
    PROVE  h \in packet_hash_set \ Popped(k) <=> Abs!AcceptedWithin(h)
  <1>1. now \in Nat /\ Period \in Nat /\ \A p \in accepted : p[1] \in Nat
    BY DedupAssumption DEF Inv, TypeOK
  <1>2. ASSUME NEW e \in Kept(k), h = e[2]
        PROVE  Abs!AcceptedWithin(h)
    BY <1>1, <1>2, KeptEntries DEF Inv, EntriesAccepted, Expired, Abs!AcceptedWithin
  <1>3. ASSUME NEW p \in accepted, p[2] = h, now <= p[1] + Period
        PROVE  \E e \in Kept(k) : h = e[2]
    BY <1>1, <1>3, KeptEntries DEF Inv, RecentQueued, Expired
  <1> QED
    BY <1>2, <1>3, KeptHashes DEF Abs!AcceptedWithin

\* What is left of the queue is in order and has every hash once.
LEMMA RemainingInOrder ==
    ASSUME Inv, NEW k \in 0..Len(time_hash_queue),
           NEW i \in 1..Len(Remaining(k)), NEW j \in 1..Len(Remaining(k))
    PROVE  /\ i < j => Remaining(k)[i][1] <= Remaining(k)[j][1]
           /\ Remaining(k)[i][2] = Remaining(k)[j][2] => i = j
  <1>0. Len(time_hash_queue) \in Nat /\ Len(Remaining(k)) = Len(time_hash_queue) - k
    BY RemainingFacts DEF Inv, TypeOK
  <1>1. /\ i + k \in 1..Len(time_hash_queue) /\ j + k \in 1..Len(time_hash_queue)
        /\ i < j => i + k < j + k
        /\ i + k = j + k => i = j
    BY <1>0
  <1> QED
    BY <1>1, RemainingFacts, Zenon DEF Inv, SetMatchesQueue, QueueInOrder

LEMMA DuplicateInv ==
    ASSUME Inv, Period > 0, NEW k \in 0..Len(time_hash_queue), PopsExpired(k),
           packet_hash_set' = packet_hash_set \ Popped(k),
           time_hash_queue' = Remaining(k),
           UNCHANGED <<now, accepted>>
    PROVE  Inv'
  <1>1. Entries' = Kept(k)
    BY DEF Entries, Kept
  <1>2. TypeOK'
    BY RemainingFacts DEF Inv, TypeOK
  <1>3. SetMatchesQueue' /\ QueueInOrder'
    BY <1>1, KeptHashes, RemainingInOrder DEF SetMatchesQueue, QueueInOrder
  <1>4. AcceptedPast' /\ EntriesAccepted'
    BY <1>1, KeptEntries DEF Inv, AcceptedPast, EntriesAccepted
  <1>5. now \in Nat /\ Period \in Nat /\ \A p \in accepted : p[1] \in Nat
    BY DedupAssumption DEF Inv, TypeOK
  <1>6. RecentQueued'
    BY <1>1, <1>5, KeptEntries DEF Inv, RecentQueued, Expired
  <1> QED
    BY <1>2, <1>3, <1>4, <1>6 DEF Inv

LEMMA NewInv ==
    ASSUME Inv, Period > 0, NEW k \in 0..Len(time_hash_queue), PopsExpired(k),
           NEW h \in Hashes, h \notin packet_hash_set \ Popped(k),
           packet_hash_set' = (packet_hash_set \ Popped(k)) \cup {h},
           time_hash_queue' = Append(Remaining(k), <<now, h>>),
           accepted' = accepted \cup {<<now, h>>},
           UNCHANGED now
    PROVE  Inv'
  <1> DEFINE R == Remaining(k)
             n == Len(R)
  <1>0. now \in Nat /\ Period \in Nat /\ \A p \in accepted : p[1] \in Nat
    BY DedupAssumption DEF Inv, TypeOK
  <1>1. R \in Seq(Nat \X Hashes) /\ n \in Nat
    BY RemainingFacts
  <1>2. /\ Len(time_hash_queue') = n + 1
        /\ \A i \in 1..n : time_hash_queue'[i] = R[i]
        /\ time_hash_queue'[n + 1] = <<now, h>>
        /\ time_hash_queue' \in Seq(Nat \X Hashes)
    BY <1>0, <1>1, AppendProperties
  <1>3. Entries' = Kept(k) \cup {<<now, h>>}
    <2>1. 1..(n + 1) = (1..n) \cup {n + 1}
      BY <1>1
    <2> QED
      BY <1>2, <2>1 DEF Entries, Kept
  <1>4. \A i \in 1..n : R[i] \in Kept(k)
    BY DEF Kept
  <1>5. \A e \in Kept(k) : e[2] # h /\ e[1] <= now
    BY KeptHashes, KeptEntries DEF Inv, EntriesAccepted, AcceptedPast
  <1>6. TypeOK'
    BY <1>0, <1>2 DEF Inv, TypeOK
  <1>7. SetMatchesQueue'
    <2>1. packet_hash_set' = {e[2] : e \in Entries'}
      <3>1. <<now, h>>[2] = h
        OBVIOUS
      <3>2. ASSUME NEW S
            PROVE  {e[2] : e \in S \cup {<<now, h>>}} = {e[2] : e \in S} \cup {h}
        BY <3>1, Zenon
      <3>3. {e[2] : e \in Entries'} = {e[2] : e \in Kept(k)} \cup {h}
        BY <1>3, <3>2, Zenon
      <3> QED
        BY <3>3, KeptHashes, Zenon
    <2>2. ASSUME NEW i \in 1..(n + 1), NEW j \in 1..(n + 1),
                 time_hash_queue'[i][2] = time_hash_queue'[j][2]
          PROVE  i = j
      <3>1. CASE i \in 1..n /\ j \in 1..n
        BY <1>2, <2>2, <3>1, RemainingInOrder
      <3>2. CASE i \in 1..n /\ j = n + 1
        BY <1>2, <1>4, <1>5, <2>2, <3>2
      <3>3. CASE i = n + 1 /\ j \in 1..n
        BY <1>2, <1>4, <1>5, <2>2, <3>3
      <3> QED
        BY <1>1, <3>1, <3>2, <3>3
    <2> QED
      BY <1>2, <2>1, <2>2 DEF SetMatchesQueue, Entries
  <1>8. QueueInOrder'
    <2>1. ASSUME NEW i \in 1..(n + 1), NEW j \in 1..(n + 1), i < j
          PROVE  time_hash_queue'[i][1] <= time_hash_queue'[j][1]
      <3>1. CASE j \in 1..n
        <4>1. i \in 1..n
          BY <1>1, <2>1, <3>1
        <4> QED
          BY <1>2, <2>1, <3>1, <4>1, RemainingInOrder
      <3>2. CASE j = n + 1
        <4>1. i \in 1..n
          BY <1>1, <2>1, <3>2
        <4>2. time_hash_queue'[i] = R[i] /\ time_hash_queue'[j] = <<now, h>>
          BY <1>2, <3>2, <4>1
        <4>3. R[i][1] <= now /\ <<now, h>>[1] = now
          BY <1>4, <1>5, <4>1
        <4> QED
          BY <4>2, <4>3
      <3> QED
        BY <1>1, <3>1, <3>2
    <2> QED
      BY <1>2, <2>1, Zenon DEF QueueInOrder
  <1>9. AcceptedPast' /\ EntriesAccepted'
    BY <1>0, <1>3, KeptEntries DEF Inv, AcceptedPast, EntriesAccepted
  <1>10. RecentQueued'
    BY <1>0, <1>3, KeptEntries DEF Inv, RecentQueued, Expired
  <1> QED
    BY <1>6, <1>7, <1>8, <1>9, <1>10 DEF Inv

LEMMA NextInv == ASSUME Inv, [Next]_vars PROVE Inv'
  <1>1. CASE Tick
    BY <1>1, TickInv
  <1>2. ASSUME NEW h \in Hashes, CheckPacket(h)
        PROVE  Inv'
    <2>1. PICK k \in 0..Len(time_hash_queue) :
             /\ PopsExpired(k)
             /\ IF h \in packet_hash_set \ Popped(k)
                THEN /\ AlreadyExists(h)
                     /\ packet_hash_set' = packet_hash_set \ Popped(k)
                     /\ time_hash_queue' = Remaining(k)
                ELSE /\ NewPacket(h)
                     /\ packet_hash_set' = (packet_hash_set \ Popped(k)) \cup {h}
                     /\ time_hash_queue' = Append(Remaining(k), <<now, h>>)
      BY <1>2 DEF CheckPacket
    <2>2. Period > 0 /\ UNCHANGED now
      BY <1>2, DedupAssumption DEF CheckPacket
    <2>3. CASE h \in packet_hash_set \ Popped(k)
      BY <2>1, <2>2, <2>3, DuplicateInv DEF AlreadyExists
    <2>4. CASE h \notin packet_hash_set \ Popped(k)
      BY <2>1, <2>2, <2>4, NewInv DEF NewPacket
    <2> QED
      BY <2>3, <2>4
  <1>3. CASE UNCHANGED vars
    BY <1>3 DEF vars, Inv, TypeOK, SetMatchesQueue, QueueInOrder, AcceptedPast,
       EntriesAccepted, RecentQueued, Entries
  <1> QED
    BY <1>1, <1>2, <1>3 DEF Next

\* Every step of the queue and the set is a step of the specification.
LEMMA NextRefines == ASSUME Inv, [Next]_vars PROVE [Abs!Next]_(Abs!vars)
  <1>1. CASE Tick
    BY <1>1 DEF Tick, PassTime, Abs!Next, Abs!Tick
  <1>2. ASSUME NEW h \in Hashes, CheckPacket(h)
        PROVE  Abs!CheckPacket(h)
    <2>1. PICK k \in 0..Len(time_hash_queue) :
             /\ PopsExpired(k)
             /\ IF h \in packet_hash_set \ Popped(k) THEN AlreadyExists(h)
                                                     ELSE NewPacket(h)
      BY <1>2 DEF CheckPacket
    <2>2. Period > 0 /\ UNCHANGED now
      BY <1>2, DedupAssumption DEF CheckPacket
    <2>3. h \in packet_hash_set \ Popped(k) <=> Abs!AcceptedWithin(h)
      BY <2>1, <2>2, KeptIsRecent
    <2> QED
      BY <2>1, <2>2, <2>3 DEF Abs!CheckPacket, AlreadyExists, NewPacket
  <1>3. CASE UNCHANGED vars
    BY <1>3 DEF vars, Abs!vars
  <1> QED
    BY <1>1, <1>2, <1>3 DEF Next, Abs!Next

\* In every reachable state the queue and the set hold the same hashes, each
\* once, so erasing a popped hash never erases one that is still queued.
THEOREM QueueAndSet == Spec => [](TypeOK /\ SetMatchesQueue /\ QueueInOrder)
  <1>1. Inv => TypeOK /\ SetMatchesQueue /\ QueueInOrder
    BY DEF Inv
  <1> QED
    BY <1>1, InitInv, NextInv, PTL DEF Spec

\* DedupImpl::check_packet implements the specification of the duplicate check:
\* a packet is reported as a duplicate exactly when an equal one was reported
\* as new at most one period earlier.
THEOREM Refinement == Spec => Implements
  <1>1. Init => Abs!Init
    BY DEF Init, Abs!Init
  <1> QED
    BY <1>1, InitInv, NextInv, NextRefines, PTL DEF Spec, Implements, Abs!Spec

-----------------------------------------------------------------------------
\* No two copies of a packet are reported as new within one period.
THEOREM Apart == Spec => []AcceptedApart
  <1>1. Init => AcceptedApart
    BY DEF Init, AcceptedApart, Abs!AcceptedApart
  <1>2. ASSUME Inv, AcceptedApart, [Next]_vars
        PROVE  AcceptedApart'
    <2>1. now \in Nat /\ Period \in Nat /\ \A p \in accepted : p[1] \in Nat /\ p[1] <= now
      BY <1>2, DedupAssumption DEF Inv, TypeOK, AcceptedPast
    <2>2. CASE UNCHANGED accepted
      BY <1>2, <2>2 DEF AcceptedApart, Abs!AcceptedApart
    <2>3. ASSUME NEW h \in Hashes, accepted' = accepted \cup {<<now, h>>},
                 Period > 0 => ~Abs!AcceptedWithin(h)
          PROVE  AcceptedApart'
      <3>1. ASSUME NEW p \in accepted', NEW q \in accepted', p[2] = q[2], p[1] < q[1]
            PROVE  p[1] + Period < q[1]
        <4>1. CASE p \in accepted /\ q \in accepted
          BY <1>2, <3>1, <4>1 DEF AcceptedApart, Abs!AcceptedApart
        <4>2. CASE p \in accepted /\ q = <<now, h>>
          BY <2>1, <2>3, <3>1, <4>2 DEF Abs!AcceptedWithin
        <4>3. CASE p = <<now, h>>
          BY <2>1, <2>3, <3>1, <4>3
        <4> QED
          BY <2>3, <4>1, <4>2, <4>3
      <3> QED
        BY <3>1 DEF AcceptedApart, Abs!AcceptedApart
    <2>4. [Abs!Next]_(Abs!vars)
      BY <1>2, NextRefines
    <2> QED
      BY <2>2, <2>3, <2>4 DEF Abs!Next, Abs!vars, Abs!Tick, Abs!CheckPacket
  <1> QED
    BY <1>1, <1>2, InitInv, NextInv, PTL DEF Spec

-----------------------------------------------------------------------------
RateTypeOK ==
    /\ now \in Nat
    /\ next_timestamp \in Nat
    /\ sent \in Seq(Nat)

\* Each message already let through is paid for by next_timestamp.
PaidFor ==
    \A i \in 1..Len(sent) :
        /\ sent[i] <= now
        /\ next_timestamp >= sent[i] + (Len(sent) - i - 1) * RatePeriod

RateInv == RateTypeOK /\ WaitsOnePeriod /\ PaidFor /\ RateHeld

LEMMA OneMore == ASSUME NEW m \in Int, NEW p \in Nat
                 PROVE  (m + 1) * p = m * p + p /\ m * p \in Int
  OBVIOUS

LEMMA Later == ASSUME NEW t \in Nat, NEW u \in Nat, NEW s \in Nat, NEW x \in Int, NEW p \in Nat,
                      t >= s + x, u >= t + p
               PROVE  u >= s + (x + p)
  OBVIOUS

LEMMA NotBefore == ASSUME NEW t \in Nat, NEW u \in Nat, NEW s \in Nat, NEW x \in Int,
                          t >= s + x, t <= u
                   PROVE  u >= s + x
  OBVIOUS

LEMMA RateInitInv == StreamInit => RateInv
  BY ThrottleAssumption DEF StreamInit, Init, ThrottleInit, RateInv, RateTypeOK, WaitsOnePeriod, PaidFor, RateHeld

LEMMA SendInv == ASSUME RateInv, Send PROVE RateInv'
  <1> DEFINE n == Len(sent)
  <1>1. /\ RatePeriod \in Nat /\ now \in Nat /\ next_timestamp \in Nat /\ n \in Nat
        /\ sent \in Seq(Nat) /\ next_timestamp <= now
        /\ now' = now
    BY ThrottleAssumption DEF RateInv, RateTypeOK, Send, ShouldThrottle
  <1>2. /\ next_timestamp' \in Nat
        /\ next_timestamp' >= next_timestamp + RatePeriod
        /\ next_timestamp' >= now - RatePeriod
        /\ next_timestamp' <= now + RatePeriod
    BY <1>1 DEF Send, UpdateThrottleInfo
  <1>3. /\ sent' \in Seq(Nat) /\ Len(sent') = n + 1
        /\ \A i \in 1..n : sent'[i] = sent[i]
        /\ sent'[n + 1] = now
    BY <1>1, AppendProperties DEF Send
  <1>4. ASSUME NEW i \in 1..n
        PROVE  /\ sent[i] \in Nat /\ sent[i] <= now
               /\ next_timestamp >= sent[i] + (n - i - 1) * RatePeriod
               /\ (n - i - 1) * RatePeriod \in Int
               /\ (n - i) * RatePeriod = (n - i - 1) * RatePeriod + RatePeriod
    <2>1. n - i - 1 \in Int /\ (n - i - 1) + 1 = n - i
      BY <1>1
    <2> QED
      BY <1>1, <2>1, OneMore DEF RateInv, PaidFor
  <1>5. RateTypeOK' /\ WaitsOnePeriod'
    BY <1>1, <1>2, <1>3 DEF RateTypeOK, WaitsOnePeriod
  <1>6. PaidFor'
    <2>1. ASSUME NEW i \in 1..n
          PROVE  /\ sent'[i] <= now'
                 /\ next_timestamp' >= sent'[i] + ((n + 1) - i - 1) * RatePeriod
      <3>1. (n + 1) - i - 1 = n - i
        BY <1>1
      <3>2. ((n + 1) - i - 1) * RatePeriod = (n - i - 1) * RatePeriod + RatePeriod
        BY <1>4, <3>1
      <3>3. sent'[i] = sent[i] /\ sent'[i] <= now'
        BY <1>1, <1>3, <1>4
      <3>4. next_timestamp' >= sent[i] + ((n - i - 1) * RatePeriod + RatePeriod)
        <4> DEFINE x == (n - i - 1) * RatePeriod
        <4>1. /\ sent[i] \in Nat /\ sent[i] <= now
              /\ next_timestamp >= sent[i] + x /\ x \in Int
          BY <1>4, Zenon
        <4> HIDE DEF x
        <4>2. next_timestamp' >= sent[i] + (x + RatePeriod)
          BY <1>1, <1>2, <4>1, Later, Zenon
        <4> QED
          BY <4>2 DEF x
      <3> QED
        BY <3>2, <3>3, <3>4
    <2>2. /\ sent'[n + 1] <= now'
          /\ next_timestamp' >= sent'[n + 1] + ((n + 1) - (n + 1) - 1) * RatePeriod
      <3>1. ((n + 1) - (n + 1) - 1) * RatePeriod = -RatePeriod
        BY <1>1
      <3> QED
        BY <1>1, <1>2, <1>3, <3>1
    <2>3. \A i \in 1..(n + 1) : i \in 1..n \/ i = n + 1
      BY <1>1
    <2> QED
      BY <1>3, <2>1, <2>2, <2>3 DEF PaidFor
  <1>7. RateHeld'
    <2>1. ASSUME NEW i \in 1..(n + 1), NEW j \in 1..(n + 1), i < j
          PROVE  sent'[j] >= sent'[i] + (j - i - 2) * RatePeriod
      <3>1. CASE j \in 1..n
        <4>1. i \in 1..n
          BY <1>1, <2>1, <3>1
        <4> QED
          BY <1>3, <2>1, <3>1, <4>1 DEF RateInv, RateHeld
      <3>2. CASE j = n + 1
        <4>1. i \in 1..n /\ j - i - 2 = n - i - 1
          BY <1>1, <2>1, <3>2
        <4> DEFINE x == (n - i - 1) * RatePeriod
        <4>2. (j - i - 2) * RatePeriod = x
          BY <4>1, Zenon
        <4>3. next_timestamp >= sent[i] + x /\ x \in Int /\ sent[i] \in Nat
          BY <1>4, <4>1, Zenon
        <4>4. sent'[j] = now /\ sent'[i] = sent[i]
          BY <1>3, <3>2, <4>1, Zenon
        <4> HIDE DEF x
        <4>5. now >= sent[i] + x
          BY <1>1, <4>3, NotBefore, Zenon
        <4> QED
          BY <4>2, <4>4, <4>5, Zenon
      <3> QED
        BY <1>1, <3>1, <3>2
    <2> QED
      BY <1>3, <2>1 DEF RateHeld
  <1> QED
    BY <1>5, <1>6, <1>7 DEF RateInv

\* A step passes time, lets one message through, or leaves the rate limit alone.
LEMMA StreamSteps ==
    ASSUME [StreamNext]_streamVars
    PROVE  \/ PassTime /\ UNCHANGED throttleVars
           \/ Send
           \/ UNCHANGED <<now, throttleVars>>
  <1>1. CASE StreamTick
    BY <1>1 DEF StreamTick, Tick
  <1>2. ASSUME NEW h \in Hashes, Arrive(h)
        PROVE  Send \/ UNCHANGED <<now, throttleVars>>
    <2>1. UNCHANGED now
      BY <1>2 DEF Arrive, CheckPacket
    <2>2. UNCHANGED throttleVars \/ Send
      BY <1>2 DEF Arrive, Accept
    <2> QED
      BY <2>1, <2>2
  <1>3. CASE Resend
    BY <1>3 DEF Resend
  <1>4. CASE UNCHANGED streamVars
    BY <1>4 DEF streamVars
  <1> QED
    BY <1>1, <1>2, <1>3, <1>4 DEF StreamNext

LEMMA RateNextInv == ASSUME RateInv, [StreamNext]_streamVars PROVE RateInv'
  <1>1. CASE PassTime /\ UNCHANGED throttleVars
    <2>1. \A i \in 1..Len(sent) : sent[i] \in Nat
      BY DEF RateInv, RateTypeOK
    <2> QED
      BY <1>1, <2>1, ThrottleAssumption
         DEF PassTime, throttleVars, RateInv, RateTypeOK, WaitsOnePeriod, PaidFor, RateHeld
  <1>2. CASE Send
    BY <1>2, SendInv
  <1>3. CASE UNCHANGED <<now, throttleVars>>
    BY <1>3 DEF throttleVars, RateInv, RateTypeOK, WaitsOnePeriod, PaidFor, RateHeld
  <1> QED
    BY <1>1, <1>2, <1>3, StreamSteps

\* Endpoint::update_throttle_info keeps the configured rate, up to a burst of
\* three messages, for every rate and however the messages arrive.
THEOREM Rate == StreamSpec => []RateHeld
  <1>1. RateInv => RateHeld
    BY DEF RateInv
  <1> QED
    BY <1>1, RateInitInv, RateNextInv, PTL DEF StreamSpec

\* Endpoint::should_throttle_msg never holds a message back for more than one
\* period.
THEOREM Waits == StreamSpec => []WaitsOnePeriod
  <1>1. RateInv => WaitsOnePeriod
    BY DEF RateInv
  <1> QED
    BY <1>1, RateInitInv, RateNextInv, PTL DEF StreamSpec

-----------------------------------------------------------------------------
\* Behind the rate limit the duplicate check does what it does alone.
LEMMA StreamStepsDedup == ASSUME [StreamNext]_streamVars PROVE [Next]_vars
  <1>1. CASE StreamTick
    BY <1>1 DEF StreamTick, Next
  <1>2. ASSUME NEW h \in Hashes, Arrive(h)
        PROVE  Next
    BY <1>2 DEF Arrive, Next
  <1>3. CASE Resend
    BY <1>3 DEF Resend, Send, dedupVars, vars
  <1>4. CASE UNCHANGED streamVars
    BY <1>4 DEF streamVars, dedupVars, vars
  <1> QED
    BY <1>1, <1>2, <1>3, <1>4 DEF StreamNext

\* Every behaviour of the stream is one of Dedup: what the rate limit and the
\* cache do is invisible to check_packet.
THEOREM StreamIsDedup == StreamSpec => Spec
  <1>1. StreamInit => Init
    BY DEF StreamInit
  <1> QED
    BY <1>1, StreamStepsDedup, PTL DEF StreamSpec, Spec

\* The routed stream satisfies the specification of the duplicate check, for
\* every period, whatever the rate limit and the cache do.
THEOREM StreamImplements == StreamSpec => Implements
  BY StreamIsDedup, Refinement, PTL

\* No two copies of a packet pass the duplicate check within one period.
THEOREM StreamApart == StreamSpec => []AcceptedApart
  BY StreamIsDedup, Apart, PTL

-----------------------------------------------------------------------------
\* Every message let through, and every message that waits, is one of those
\* reported new.
Counted ==
    /\ IsFiniteSet(accepted) /\ waiting \in Nat /\ sent \in Seq(Nat)
    /\ PassedOnce

LEMMA CountedInit == StreamInit => Counted
  <1> SUFFICES ASSUME StreamInit PROVE Counted
    OBVIOUS
  <1>1. accepted = {} /\ sent = <<>> /\ waiting = 0
    BY DEF StreamInit, Init, ThrottleInit
  <1>2. IsFiniteSet(accepted) /\ Cardinality(accepted) = 0
    BY <1>1, FS_EmptySet
  <1> QED
    BY <1>1, <1>2 DEF Counted, PassedOnce

LEMMA LetThrough ==
    ASSUME Counted, now \in Nat, Send
    PROVE  sent' \in Seq(Nat) /\ Len(sent') = Len(sent) + 1
  BY DEF Counted, Send

\* A packet that is reported new was not reported new at the same time before.
LEMMA NewIsNew ==
    ASSUME Inv, IsFiniteSet(accepted), NEW h \in Hashes, CheckPacket(h),
           last'.status # "ALREADY_EXISTS_IN_BUFFER"
    PROVE  /\ IsFiniteSet(accepted')
           /\ Cardinality(accepted') = Cardinality(accepted) + 1
  <1>1. PICK k \in 0..Len(time_hash_queue) :
           /\ PopsExpired(k)
           /\ IF h \in packet_hash_set \ Popped(k) THEN AlreadyExists(h)
                                                   ELSE NewPacket(h)
    BY DEF CheckPacket
  <1>2. ~AlreadyExists(h)
    BY DEF AlreadyExists, Abs!Verdict
  <1>3. Period > 0 /\ Period \in Nat /\ now \in Nat
    BY DedupAssumption DEF Inv, TypeOK
  <1>4. ~Abs!AcceptedWithin(h)
    BY <1>1, <1>2, <1>3, KeptIsRecent
  <1>5. <<now, h>> \notin accepted
    BY <1>3, <1>4 DEF Abs!AcceptedWithin
  <1>6. accepted' = accepted \cup {<<now, h>>}
    BY <1>1, <1>2 DEF NewPacket
  <1> QED
    BY <1>5, <1>6, FS_AddElement, Zenon

LEMMA CountedNext ==
    ASSUME Inv, Counted, [StreamNext]_streamVars
    PROVE  Counted'
  <1>0. /\ now \in Nat /\ waiting \in Nat /\ Len(sent) \in Nat
        /\ Cardinality(accepted) \in Nat /\ IsFiniteSet(accepted)
    BY FS_CardinalityType DEF Inv, TypeOK, Counted
  <1>1. CASE UNCHANGED <<sent, waiting, accepted>>
    BY <1>1 DEF Counted, PassedOnce
  <1>2. ASSUME NEW h \in Hashes, Arrive(h)
        PROVE  Counted'
    <2>1. CASE last'.status = "ALREADY_EXISTS_IN_BUFFER"
      <3>1. UNCHANGED accepted
        BY <1>2, <2>1 DEF Arrive, CheckPacket, AlreadyExists, NewPacket, Abs!Verdict
      <3> QED
        BY <1>1, <1>2, <2>1, <3>1 DEF Arrive, throttleVars
    <2>2. CASE last'.status # "ALREADY_EXISTS_IN_BUFFER"
      <3>1. IsFiniteSet(accepted') /\ Cardinality(accepted') = Cardinality(accepted) + 1
        BY <1>0, <1>2, <2>2, NewIsNew DEF Arrive
      <3>2. CASE UNCHANGED throttleVars /\ waiting' \in {waiting, waiting + 1}
        BY <1>0, <3>1, <3>2 DEF Counted, PassedOnce, throttleVars
      <3>3. CASE Send /\ UNCHANGED waiting
        BY <1>0, <3>1, <3>3, LetThrough DEF Counted, PassedOnce
      <3>4. (UNCHANGED throttleVars /\ waiting' \in {waiting, waiting + 1})
               \/ (Send /\ UNCHANGED waiting)
        BY <1>2, <2>2 DEF Arrive, Accept
      <3> QED
        BY <3>2, <3>3, <3>4
    <2> QED
      BY <2>1, <2>2
  <1>3. CASE Resend
    <2>1. UNCHANGED accepted /\ waiting' = waiting - 1 /\ waiting > 0 /\ Send
      BY <1>3 DEF Resend, dedupVars
    <2> QED
      BY <1>0, <2>1, LetThrough DEF Counted, PassedOnce
  <1>4. CASE StreamTick
    BY <1>1, <1>4 DEF StreamTick, Tick, throttleVars
  <1>5. CASE UNCHANGED streamVars
    BY <1>1, <1>5 DEF streamVars, dedupVars, throttleVars
  <1> QED
    BY <1>2, <1>3, <1>4, <1>5 DEF StreamNext

\* Of the copies of a packet that Endpoint::handle_read sees within a period at
\* most one uses up the rate limit or a place in the cache.
THEOREM Once == StreamSpec => []PassedOnce
  <1>1. StreamInit => Inv
    BY InitInv DEF StreamInit
  <1>2. ASSUME Inv, [StreamNext]_streamVars
        PROVE  Inv'
    BY <1>2, StreamStepsDedup, NextInv
  <1>3. Counted => PassedOnce
    BY DEF Counted
  <1> QED
    BY <1>1, <1>2, <1>3, CountedInit, CountedNext, PTL DEF StreamSpec
=============================================================================
