------------------------------- MODULE Stream -------------------------------
(***************************************************************************)
(* One message id on its way to one endpoint: the duplicate check of       *)
(* Endpoint::handle_read, then the rate limit of Endpoint::accept_msg, and *)
(* the cache from which the resend timer sends later.                      *)
(*                                                                         *)
(* A tick is a millisecond of the duplicate check; the rate limit counts   *)
(* microseconds in the code, here its period is a number of ticks.  Which  *)
(* messages wait, and when the timer rings, is the subject of              *)
(* ThrottleCache: here they are counted, and may leave whenever one is due.*)
(***************************************************************************)
EXTENDS Dedup, Throttle, FiniteSets

CONSTANT CacheMax    \* MSG_CACHE_MAX_SIZE

ASSUME StreamAssumption == CacheMax \in Nat

VARIABLES
    cacheable,       \* CacheMsgIds has the id; fixed at the start
    waiting          \* number of messages in the cache

dedupVars == <<time_hash_queue, packet_hash_set, accepted, last>>

streamVars == <<now, dedupVars, throttleVars, cacheable, waiting>>

StreamInit ==
    /\ Init
    /\ ThrottleInit
    /\ cacheable \in BOOLEAN
    /\ waiting = 0

StreamTick == Tick /\ UNCHANGED <<throttleVars, cacheable, waiting>>

\* The message is new: it waits, is discarded, or is written.
Accept ==
    CASE cacheable /\ (ShouldThrottle \/ waiting > 0) ->
             /\ waiting' = IF waiting < CacheMax THEN waiting + 1 ELSE waiting
             /\ UNCHANGED throttleVars
      [] ~cacheable /\ ShouldThrottle -> UNCHANGED <<throttleVars, waiting>>
      [] OTHER -> Send /\ UNCHANGED waiting

\* Mutant: duplicates are counted, and routed like the others.
ArriveCounted(h) ==
    /\ CheckPacket(h)
    /\ Accept
    /\ UNCHANGED cacheable

Arrive(h) ==
    /\ CheckPacket(h)
    /\ IF last'.status = "ALREADY_EXISTS_IN_BUFFER"
       THEN UNCHANGED <<throttleVars, waiting>>
       ELSE Accept
    /\ UNCHANGED cacheable

\* resend_queued_msgs sends a cached message that is due.
Resend ==
    /\ waiting > 0
    /\ Send
    /\ waiting' = waiting - 1
    /\ UNCHANGED <<dedupVars, cacheable>>

StreamNext == StreamTick \/ (\E h \in Hashes : Arrive(h)) \/ Resend

StreamSpec == StreamInit /\ [][StreamNext]_streamVars

-----------------------------------------------------------------------------
\* Of all the copies of a packet that arrive within one period at most one
\* uses up the rate limit and leaves: what was let through or waits was
\* reported new, one for one.
PassedOnce == Len(sent) + waiting <= Cardinality(accepted)
=============================================================================
