--------------------------- MODULE ThrottleCache ---------------------------
(***************************************************************************)
(* Outgoing message throttling, the cache of messages that throttling must *)
(* not lose, and the one resend timer of the main loop that drains the     *)
(* caches of all endpoints.                                                *)
(*                                                                         *)
(* Clocks are kept relative to the present, so behaviours are unbounded in *)
(* time: a next_timestamp is the number of ticks until it is reached, and  *)
(* is cut off below at Floor, where update_throttle_info resets it anyway. *)
(* A tick is a fraction of the timer's millisecond.  What write_msg does   *)
(* with a message is the subject of TxPath; here it takes the message,     *)
(* takes it and reports an error, refuses it with -ENOBUFS, or closes the  *)
(* connection.                                                             *)
(***************************************************************************)
EXTENDS Integers, Sequences, FiniteSets, FiniteSetsExt

CONSTANTS
    Endpoints,
    Lists,         \* the lists of endpoints a behaviour may start with
    CanClose,      \* the TCP endpoints: a write may close their connection
    Allowed,       \* per endpoint, the message ids its filters let out
    MsgIds,        \* naturals: _msg_cache is ordered by message id
    Cacheable,     \* per endpoint, _throttle_cache_msg_ids
    Rates,         \* per endpoint and message id, the configured period (0: not throttled)
    NewRates,      \* per endpoint, periods the throttle command may set (0: un-throttle)
    MaxPeriod,     \* bound on all periods, in ticks
    CacheMax,      \* MSG_CACHE_MAX_SIZE
    TicksPerMs,
    RetryMs,       \* RESEND_RETRY_MS
    MaxMsgs        \* bound, per endpoint: messages routed while it is in the list

ASSUME ThrottleCacheAssumption ==
    /\ MsgIds \subseteq Nat
    /\ CanClose \subseteq Endpoints
    /\ Cacheable \in [Endpoints -> SUBSET MsgIds]
    /\ Rates \in [Endpoints -> [MsgIds -> 0..MaxPeriod]]
    /\ NewRates \in [Endpoints -> SUBSET (0..MaxPeriod)]
    /\ Lists \subseteq SUBSET Endpoints
    /\ Allowed \in [Endpoints -> SUBSET MsgIds]
    /\ MaxMsgs \in [Endpoints -> Nat]
    /\ {MaxPeriod, CacheMax, TicksPerMs, RetryMs} \subseteq Nat \ {0}

VARIABLES
    g_endpoints,   \* the endpoints in the main loop's list
    open,          \* those with fd >= 0
    throttle,      \* _message_throttle_map; period 0: no entry
    cache,         \* _msg_cache, a queue of message numbers per id
    timer,         \* ticks until the resend timer fires, or Off
    ids,           \* history: the message ids routed, in order of arrival
    fate           \* history: what became of every message on every endpoint

vars == <<g_endpoints, open, throttle, cache, timer, ids, fate>>

Off == -1

Floor == -(2 * MaxPeriod + 1)

Messages == UNION {1..MaxMsgs[e] : e \in Endpoints}

-----------------------------------------------------------------------------
IsThrottlingEnabled(e, id) == throttle[e][id].period > 0

ShouldThrottle(e, id) == IsThrottlingEnabled(e, id) /\ throttle[e][id].next > 0

\* update_throttle_info, on the relative clock.
Updated(t) == (IF t.next < -2 * t.period THEN 0 ELSE t.next) + t.period

HasCached(e) == \E id \in MsgIds : cache[e][id] # <<>>

\* The places of the queues c, one for every message they hold.
Slots(c) == UNION {{id} \X (1..Len(c[id])) : id \in MsgIds}

CacheSize(e) == Cardinality(Slots(cache[e]))

\* next_resend_deadline, for the caches c and throttle maps t: a queue whose id
\* is no longer throttled is due.
Deadline(e, c, t) ==
    Min({IF t[e][id].period = 0 THEN Floor ELSE t[e][id].next :
            id \in {i \in MsgIds : c[e][i] # <<>>}})

\* Mutant: a deadline less than a millisecond away is rounded down.
DelayTruncated(d) == TicksPerMs * (IF d <= 0 THEN RetryMs ELSE d \div TicksPerMs)

\* The delay for a deadline in d ticks.
Delay(d) ==
    TicksPerMs * (IF d <= 0 THEN RetryMs ELSE (d + TicksPerMs - 1) \div TicksPerMs)

\* timerfd_settime: a delay of zero disarms the timer.
Armed(delay) == IF delay = 0 THEN Off ELSE delay

\* Mutant: the latest deadline counts.
RescheduledLatest(g, c, t) ==
    LET waiting == {e \in g : \E id \in MsgIds : c[e][id] # <<>>}
    IN  IF waiting = {} THEN Off
        ELSE Armed(Delay(Max({Deadline(e, c, t) : e \in waiting})))

\* _reschedule_resend: the earliest deadline over all endpoints.
Rescheduled(g, c, t) ==
    LET waiting == {e \in g : \E id \in MsgIds : c[e][id] # <<>>}
    IN  IF waiting = {} THEN Off
        ELSE Armed(Delay(Min({Deadline(e, c, t) : e \in waiting})))

\* schedule_resend, which creates the timer if there is none and sets it anew.
ScheduleResend(g, c, t) == Rescheduled(g, c, t)

-----------------------------------------------------------------------------
Init ==
    /\ g_endpoints \in Lists
    /\ open = g_endpoints
    /\ throttle = [e \in Endpoints |->
                      [id \in MsgIds |-> [period |-> Rates[e][id], next |-> 0]]]
    /\ cache = [e \in Endpoints |-> [id \in MsgIds |-> <<>>]]
    /\ timer = Off
    /\ ids = <<>>
    /\ fate = [e \in Endpoints |-> [n \in Messages |-> "none"]]

Tick ==
    /\ throttle' = [e \in Endpoints |-> [id \in MsgIds |->
           [throttle[e][id] EXCEPT
               !.next = IF throttle[e][id].period = 0 THEN 0 ELSE Max({@ - 1, Floor})]]]
    /\ timer' = IF timer > 0 THEN timer - 1 ELSE timer
    /\ UNCHANGED <<g_endpoints, open, cache, ids, fate>>

\* Mutant: a message that is due is sent even if older ones are still queued.
AcceptMsgDueFirst(e, id) ==
    IF ShouldThrottle(e, id)
    THEN IF id \in Cacheable[e] THEN "Cached" ELSE "Throttled"
    ELSE "Accepted"

\* The throttling part of Endpoint::accept_msg.
AcceptMsg(e, id) ==
    CASE /\ IsThrottlingEnabled(e, id)
         /\ id \in Cacheable[e]
         /\ ShouldThrottle(e, id) \/ cache[e][id] # <<>>           -> "Cached"
      [] ShouldThrottle(e, id) /\ id \notin Cacheable[e]           -> "Throttled"
      [] OTHER                                                     -> "Accepted"

CacheFull(e) == CacheSize(e) >= CacheMax

WriteResults(e) == {"taken", "refused"} \cup IF e \in CanClose THEN {"closed"} ELSE {}

\* What becomes of a message with this id on e, if write_msg does r with it.
FateOf(e, id, r) ==
    CASE AcceptMsg(e, id) = "Cached" /\ ~CacheFull(e)  -> "cached"
      [] AcceptMsg(e, id) = "Accepted" /\ r = "taken"  -> "handed"
      [] OTHER                                         -> "dropped"

\* Mainloop::route_msg for a message that the endpoints T would accept; r is
\* what write_msg does with it on each of them.
RouteMsg(id, T, r) ==
    LET n == Len(ids) + 1
        Cached == {e \in T : AcceptMsg(e, id) = "Cached"}
        Written == {e \in T : AcceptMsg(e, id) = "Accepted"}
    IN  /\ \A e \in g_endpoints : n <= MaxMsgs[e]
        /\ ids' = Append(ids, id)
        /\ fate' = [e \in Endpoints |->
               IF e \in T THEN [fate[e] EXCEPT ![n] = FateOf(e, id, r[e])] ELSE fate[e]]
        /\ cache' = [e \in Endpoints |->
               IF e \in Cached /\ ~CacheFull(e)
               THEN [cache[e] EXCEPT ![id] = Append(@, n)] ELSE cache[e]]
        /\ throttle' = [e \in Endpoints |->
               IF e \in Written /\ IsThrottlingEnabled(e, id)
               THEN [throttle[e] EXCEPT ![id].next = Updated(throttle[e][id])]
               ELSE throttle[e]]
        /\ open' = open \ {e \in Written : r[e] = "closed"}
        /\ timer' = IF Cached = {} THEN timer
                    ELSE ScheduleResend(g_endpoints, cache', throttle')
        /\ UNCHANGED g_endpoints

-----------------------------------------------------------------------------
\* next_timestamp after k messages of the queue were sent.
NextAfter(t) ==
    LET f[k \in 0..CacheMax] ==
            IF k = 0 THEN t.next ELSE Updated([t EXCEPT !.next = f[k - 1]])
    IN  f

\* How many messages resend_queued_msgs sends if every write succeeds: it stops
\* at the first one that is not due.
Due(e, id) ==
    LET t == throttle[e][id]
        n == Len(cache[e][id])
    IN  IF t.period = 0 THEN n
        ELSE Min({k \in 0..n : k = n \/ NextAfter(t)[k] > 0})

\* The queues before id are drained as far as due, of id's queue k messages are
\* sent, and the queues after it are left alone.
SentUpTo(e, id, k) ==
    [i \in MsgIds |-> IF i < id THEN Due(e, i) ELSE IF i = id THEN k ELSE 0]

\* Endpoint::resend_cached_msgs when every write succeeds; a closed endpoint
\* drops its cache.
Drained(e) ==
    IF e \in open THEN [sent |-> [i \in MsgIds |-> Due(e, i)], open |-> TRUE]
    ELSE [sent |-> [i \in MsgIds |-> 0], open |-> FALSE]

\* ... and its other results: it stops at a write that reports an error (the
\* message is sent), is refused (it stays), or closes the connection.
ResendResults(e) ==
    {Drained(e)} \cup
    IF e \notin open THEN {} ELSE
    UNION {{[sent |-> SentUpTo(e, id, k), open |-> TRUE] : k \in 0..Due(e, id)} \cup
           {[sent |-> SentUpTo(e, id, k), open |-> FALSE] :
               k \in IF e \in CanClose THEN 0..(Due(e, id) - 1) ELSE {}}
              : id \in {i \in MsgIds : Due(e, i) > 0}}

\* Mutant: a message whose write reported an error stays queued.
LeftKeepsLast(q, k) == SubSeq(q, IF k = 0 THEN 1 ELSE k, Len(q))

\* The queue q after its first k messages were popped.
Left(q, k) == SubSeq(q, k + 1, Len(q))

\* Mainloop::_resend_timeout; r is the result of every endpoint.
ResendTimeout(r) ==
    LET Sent(e) == UNION {{cache[e][id][i] : i \in 1..r[e].sent[id]} : id \in MsgIds}
    IN  /\ timer = 0
        /\ cache' = [e \in Endpoints |-> [id \in MsgIds |->
               IF e \notin g_endpoints THEN cache[e][id]
               ELSE IF r[e].open THEN Left(cache[e][id], r[e].sent[id]) ELSE <<>>]]
        /\ throttle' = [e \in Endpoints |-> [id \in MsgIds |->
               IF e \in g_endpoints /\ IsThrottlingEnabled(e, id)
               THEN [throttle[e][id] EXCEPT
                        !.next = NextAfter(throttle[e][id])[r[e].sent[id]]]
               ELSE throttle[e][id]]]
        /\ open' = open \ {e \in g_endpoints : ~r[e].open}
        /\ fate' = [e \in Endpoints |-> [n \in Messages |->
               CASE e \in g_endpoints /\ n \in Sent(e)                   -> "handed"
                 [] e \in g_endpoints /\ n \notin Sent(e)
                    /\ ~r[e].open /\ fate[e][n] = "cached"               -> "dropped"
                 [] OTHER                                                -> fate[e][n]]]
        /\ timer' = Rescheduled(g_endpoints, cache', throttle')
        /\ UNCHANGED <<g_endpoints, ids>>

AllResults ==
    {r \in [g_endpoints -> UNION {ResendResults(e) : e \in g_endpoints}] :
        \A e \in g_endpoints : r[e] \in ResendResults(e)}

-----------------------------------------------------------------------------
\* A TCP connection ends, and is established again.
Close(e) ==
    /\ e \in CanClose \cap open \cap g_endpoints
    /\ open' = open \ {e}
    /\ UNCHANGED <<g_endpoints, throttle, cache, timer, ids, fate>>

Reopen(e) ==
    /\ e \in (CanClose \cap g_endpoints) \ open
    /\ open' = open \cup {e}
    /\ UNCHANGED <<g_endpoints, throttle, cache, timer, ids, fate>>

\* The endpoint leaves the list and takes its cache along.
RemoveEndpoint(e) ==
    /\ e \in g_endpoints
    /\ g_endpoints' = g_endpoints \ {e}
    /\ open' = open \ {e}
    /\ cache' = [cache EXCEPT ![e] = [id \in MsgIds |-> <<>>]]
    /\ fate' = [fate EXCEPT ![e] = [n \in Messages |->
                   IF @[n] = "cached" THEN "dropped" ELSE @[n]]]
    /\ UNCHANGED <<throttle, timer, ids>>

\* The throttle command: set_message_throttling.  The timer is not touched.
Throttle(e, id, period) ==
    /\ e \in g_endpoints
    /\ throttle' = [throttle EXCEPT ![e][id] =
           [period |-> period,
            next |-> IF period = 0 \/ @.period = 0 THEN 0 ELSE @.next]]
    /\ UNCHANGED <<g_endpoints, open, cache, timer, ids, fate>>

Traffic ==
    \/ \E id \in MsgIds :
       \E T \in (SUBSET {e \in g_endpoints \cap open : id \in Allowed[e]}) \ {{}} :
          \E r \in [T -> {"taken", "refused", "closed"}] :
             /\ \A e \in T : r[e] \in WriteResults(e)
             /\ RouteMsg(id, T, r)
    \/ timer = 0 /\ \E r \in AllResults : ResendTimeout(r)

Next ==
    \/ Tick
    \/ Traffic
    \/ \E e \in Endpoints : Close(e) \/ Reopen(e) \/ RemoveEndpoint(e)
    \/ \E e \in g_endpoints : \E id \in Allowed[e], p \in NewRates[e] : Throttle(e, id, p)

\* Time passes, the expired timer is served, and an endpoint does not refuse
\* its messages for ever: again and again all that is due is written.
Fairness ==
    /\ WF_vars(Tick)
    /\ WF_vars(timer = 0 /\ \E r \in AllResults : ResendTimeout(r))
    /\ \A e \in Endpoints :
          SF_vars(/\ timer = 0 /\ e \in g_endpoints
                  /\ \E r \in AllResults : r[e] = Drained(e) /\ ResendTimeout(r))

Spec == Init /\ [][Next]_vars

FairSpec == Spec /\ Fairness

-----------------------------------------------------------------------------
\* Every queue holds, in order of arrival, the messages of its id that were
\* cached and neither handed to write_msg nor dropped since: none is lost,
\* none stays to be sent twice.  No cache grows past MSG_CACHE_MAX_SIZE.
CacheExact ==
    /\ \A e \in Endpoints, id \in MsgIds :
          LET q == cache[e][id]
          IN  /\ \A i, j \in 1..Len(q) : i < j => q[i] < q[j]
              /\ {q[i] : i \in 1..Len(q)} =
                    {n \in 1..Len(ids) : ids[n] = id /\ fate[e][n] = "cached"}
    /\ \A e \in Endpoints : CacheSize(e) <= CacheMax

\* The timer fires before the deadline of every cached message, but for the
\* rounding to milliseconds and the retry delay.
InTime ==
    \A e \in g_endpoints : HasCached(e) =>
        /\ timer # Off
        /\ timer <= Max({Deadline(e, cache, throttle) + TicksPerMs - 1, RetryMs * TicksPerMs})

PeriodsKept ==
    \A e \in Endpoints, id \in MsgIds : throttle'[e][id].period = throttle[e][id].period

\* The timer never sleeps past the deadline of a cached message, however many
\* endpoints and ids share it.  Only the throttle command can make it late: it
\* moves deadlines and leaves the timer alone.
TimerInTime == [][InTime /\ PeriodsKept => InTime']_vars

\* A message never overtakes an older one with the same id that waits in the
\* cache of the same endpoint, as long as the id has a rate limit.
NoOvertaking ==
    [][\A e \in Endpoints, n \in 1..Len(ids') :
          /\ fate[e][n] # "handed" /\ fate'[e][n] = "handed"
          /\ IsThrottlingEnabled(e, ids'[n])
          => \A m \in 1..(n - 1) : ids'[m] = ids'[n] => fate'[e][m] # "cached"]_vars

\* Every cached message is eventually handed to write_msg, or dropped with its
\* connection or endpoint.  A behaviour routes at most MaxMsgs messages and a
\* message is cached at most once, so this says that in the end no cache holds
\* anything, whatever the timer, the rates and the refused writes did before.
CachedLeaves == <>[](\A e \in Endpoints, n \in Messages : fate[e][n] # "cached")
=============================================================================
