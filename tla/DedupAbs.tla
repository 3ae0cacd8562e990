------------------------------ MODULE DedupAbs ------------------------------
(***************************************************************************)
(* What the de-duplication promises: a packet is a duplicate exactly when  *)
(* a packet with the same hash was reported as new at most Period          *)
(* milliseconds ago.  Period 0 turns the check off.                        *)
(***************************************************************************)
EXTENDS Naturals

CONSTANTS
    Hashes,    \* hash values of the packets in play
    Period,    \* DeduplicationPeriod, in milliseconds
    MaxTime    \* bound: the last millisecond of a behaviour

VARIABLES
    now,       \* milliseconds since the start
    accepted,  \* <<t, h>>: a packet with hash h was reported as new at t
    last       \* the last packet: its hash, when it came, and the verdict

vars == <<now, accepted, last>>

None == [status |-> "NONE"]

Verdict(h, status) == [status |-> status, hash |-> h, time |-> now]

AcceptedWithin(h) == \E p \in accepted : p[2] = h /\ now <= p[1] + Period

Init == now = 0 /\ accepted = {} /\ last = None

Tick == /\ now < MaxTime
        /\ now' = now + 1
        /\ UNCHANGED <<accepted, last>>

CheckPacket(h) ==
    /\ IF Period > 0 /\ AcceptedWithin(h)
       THEN /\ last' = Verdict(h, "ALREADY_EXISTS_IN_BUFFER")
            /\ UNCHANGED accepted
       ELSE /\ last' = Verdict(h, "NEW_PACKET_OR_TIMED_OUT")
            /\ accepted' = accepted \cup {<<now, h>>}
    /\ UNCHANGED now

Next == Tick \/ \E h \in Hashes : CheckPacket(h)

Spec == Init /\ [][Next]_vars

-----------------------------------------------------------------------------
\* Two packets with the same hash that Dedup::check_packet reports as new are
\* more than a period apart: no message is routed twice within the period.
AcceptedApart ==
    \A p, q \in accepted :
        p[2] = q[2] /\ p[1] < q[1] => p[1] + Period < q[1]
=============================================================================
