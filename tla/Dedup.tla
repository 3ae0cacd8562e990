------------------------------- MODULE Dedup -------------------------------
(***************************************************************************)
(* Dedup::check_packet and DedupImpl::check_packet: a queue of (time, hash)*)
(* pairs in order of arrival and a set with the same hashes.  Every call   *)
(* first drops what is too old from the front of the queue.                *)
(*                                                                         *)
(* A packet stands for its hash: packets with equal hashes are the same    *)
(* packet to this code.  With a period of 0 Dedup::check_packet reports    *)
(* every packet as new; Router has that case.                              *)
(***************************************************************************)
EXTENDS Clock, Sequences

CONSTANTS
    Hashes,    \* hash values of the packets in play
    Period     \* _dedup_period_ms

VARIABLES
    time_hash_queue,   \* _time_hash_queue, of <<time, hash>>
    packet_hash_set,   \* _packet_hash_set
    accepted,          \* history: <<time, hash>> of the packets reported new
    last               \* history: the last packet and its verdict

vars == <<now, time_hash_queue, packet_hash_set, accepted, last>>

Abs == INSTANCE DedupAbs WITH accepted <- accepted, last <- last

ASSUME DedupAssumption == Period \in Nat \ {0} /\ MaxTime \in Nat

-----------------------------------------------------------------------------
\* Mutant: the loop also pops the entry that is exactly one period old.
ExpiredEarly(entry) == now >= entry[1] + Period

Expired(entry) == now > entry[1] + Period

\* The loop pops k entries: it stops at the first one that is not old.
PopsExpired(k) ==
    /\ \A i \in 1..k : Expired(time_hash_queue[i])
    /\ k < Len(time_hash_queue) => ~Expired(time_hash_queue[k + 1])

Popped(k) == {time_hash_queue[i][2] : i \in 1..k}

Remaining(k) == SubSeq(time_hash_queue, k + 1, Len(time_hash_queue))

Init ==
    /\ now = 0
    /\ time_hash_queue = <<>>
    /\ packet_hash_set = {}
    /\ accepted = {}
    /\ last = Abs!None

Tick ==
    /\ PassTime
    /\ UNCHANGED <<time_hash_queue, packet_hash_set, accepted, last>>

AlreadyExists(h) ==
    /\ last' = Abs!Verdict(h, "ALREADY_EXISTS_IN_BUFFER")
    /\ UNCHANGED accepted

NewPacket(h) ==
    /\ last' = Abs!Verdict(h, "NEW_PACKET_OR_TIMED_OUT")
    /\ accepted' = accepted \cup {<<now, h>>}

CheckPacket(h) ==
    /\ \E k \in 0..Len(time_hash_queue) :
          /\ PopsExpired(k)
          /\ IF h \in packet_hash_set \ Popped(k)
             THEN /\ AlreadyExists(h)
                  /\ packet_hash_set' = packet_hash_set \ Popped(k)
                  /\ time_hash_queue' = Remaining(k)
             ELSE /\ NewPacket(h)
                  /\ packet_hash_set' = (packet_hash_set \ Popped(k)) \cup {h}
                  /\ time_hash_queue' = Append(Remaining(k), <<now, h>>)
    /\ UNCHANGED now

Next == Tick \/ \E h \in Hashes : CheckPacket(h)

Spec == Init /\ [][Next]_vars

-----------------------------------------------------------------------------
Entries == {time_hash_queue[i] : i \in 1..Len(time_hash_queue)}

TypeOK ==
    /\ now \in 0..MaxTime
    /\ time_hash_queue \in Seq(Nat \X Hashes)
    /\ packet_hash_set \in SUBSET Hashes
    /\ accepted \in SUBSET (Nat \X Hashes)

\* Queue and set hold the same hashes, each hash once: erasing the hash of a
\* popped entry always finds it, and erases no hash that is still queued.
SetMatchesQueue ==
    /\ packet_hash_set = {entry[2] : entry \in Entries}
    /\ \A i, j \in 1..Len(time_hash_queue) :
          time_hash_queue[i][2] = time_hash_queue[j][2] => i = j

\* The front of the queue is its oldest entry, so dropping from the front drops
\* everything that is too old.
QueueInOrder ==
    \A i, j \in 1..Len(time_hash_queue) :
        i < j => time_hash_queue[i][1] <= time_hash_queue[j][1]

\* Two copies of a packet that are both reported as new are more than a period
\* apart: no message is routed twice within the period.
AcceptedApart == Abs!AcceptedApart

\* The queue and the set do what the specification of the de-duplication says:
\* a packet is a duplicate exactly when it was reported new within the period.
Implements == Abs!Spec
=============================================================================
