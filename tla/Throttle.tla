------------------------------ MODULE Throttle ------------------------------
(***************************************************************************)
(* The rate limit of one message id on one endpoint, in absolute time:     *)
(* should_throttle_msg and update_throttle_info, with the times at which   *)
(* messages were let through.  ThrottleCache has the same limit next to    *)
(* the cache.                                                              *)
(***************************************************************************)
EXTENDS Clock, Integers, Sequences

CONSTANT RatePeriod    \* 1 / rate

ASSUME ThrottleAssumption == RatePeriod \in Nat

VARIABLES
    next_timestamp,
    sent              \* history: when messages were let through

throttleVars == <<next_timestamp, sent>>

ThrottleInit == next_timestamp = 0 /\ sent = <<>>

ShouldThrottle == now < next_timestamp

\* Mutant: an idle endpoint may catch up on everything it missed.
UpdateThrottleInfoNoReset == next_timestamp' = next_timestamp + RatePeriod

UpdateThrottleInfo ==
    next_timestamp' =
        (IF now > next_timestamp + 2 * RatePeriod THEN now ELSE next_timestamp) + RatePeriod

\* route_msg or resend_queued_msgs lets a message through.
Send ==
    /\ ~ShouldThrottle
    /\ UpdateThrottleInfo
    /\ sent' = Append(sent, now)
    /\ UNCHANGED now

-----------------------------------------------------------------------------
\* The rate limit: of any n + 1 messages let through one after the other, the
\* last comes at least (n - 2) periods after the first.  However long the id
\* was silent, no more than three messages pass in one instant.
RateHeld ==
    \A i, j \in 1..Len(sent) : i < j => sent[j] >= sent[i] + (j - i - 2) * RatePeriod

\* No message is held back longer than one period.
WaitsOnePeriod == next_timestamp <= now + RatePeriod
=============================================================================
