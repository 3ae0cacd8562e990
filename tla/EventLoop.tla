----------------------------- MODULE EventLoop -----------------------------
(***************************************************************************)
(* Mainloop::loop and the lifetime of endpoints: batches of epoll          *)
(* events, endpoints that become invalid while their events are handled,   *)
(* timers that are deleted after the batch, reconnection, the TCP server   *)
(* and the remove command.                                                 *)
(*                                                                         *)
(* ep[e] is the endpoint object with its connection as the kernel sees it  *)
(* (external): "up"; "fin" after the peer shut down; "rst" after a reset   *)
(* that no system call has reported yet, when epoll adds EPOLLERR; "dead"  *)
(* once it was reported, when reads see the end of the stream and writes   *)
(* fail with EPIPE; "none" without an fd.  tx is "empty", "queued" while   *)
(* the coalescing timer runs, "blocked" while EPOLLOUT is armed.           *)
(***************************************************************************)
EXTENDS Naturals, FiniteSets

CONSTANTS
    Clients,     \* TCP client endpoints; they reconnect
    Incoming,    \* objects for connections accepted by the TCP server
    Udps,        \* UDP endpoints: always "up"
    Held,        \* configured endpoints that a member of their group refers to
    Resets,      \* endpoints whose peer may reset the connection
    Removed,     \* endpoints the command pipe is told to remove
    MaxEvents    \* max_events

Endpoints == Clients \cup Incoming \cup Udps

ASSUME EventLoopAssumption ==
    /\ Clients \cap Incoming = {} /\ Udps \cap (Clients \cup Incoming) = {}
    /\ Held \subseteq Clients \cup Udps
    /\ Resets \subseteq Endpoints \ Udps
    /\ Removed \subseteq Endpoints
    /\ {"retry", "flush", "accept", "pipe", "link"} \cap Endpoints = {}
    /\ MaxEvents \in Nat \ {0}

VARIABLES
    ep,            \* the endpoint objects
    g_endpoints,   \* those in the main loop's list
    created,       \* those whose constructor ran
    freed,         \* those whose destructor ran
    retries,       \* number of reconnect timers per endpoint
    hangups,       \* should_process_tcp_hangups
    batch,         \* events still to be handled: <<target, bits>>
    waiting,       \* the loop is in epoll_wait
    misused        \* history: freed objects a handler was called on

vars == <<ep, g_endpoints, created, freed, retries, hangups, batch, waiting, misused>>

Conns == {"none", "up", "fin", "rst", "dead"}

Objects == [conn : Conns, valid : BOOLEAN, tx : {"empty", "queued", "blocked"}]

NoConnection == [conn |-> "none", valid |-> TRUE, tx |-> "empty"]

Connected == [NoConnection EXCEPT !.conn = "up"]

-----------------------------------------------------------------------------
\* TcpEndpoint's reaction to the end of a connection: a client closes the fd
\* and starts a reconnect timer, an accepted connection becomes invalid.
Ended(e, s) ==
    IF e \in Clients THEN NoConnection ELSE [s EXCEPT !.valid = FALSE, !.tx = "empty"]

\* The results of TcpEndpoint::_read_msg.
Reads(e, s) ==
    CASE s.conn = "rst"           -> {[s EXCEPT !.conn = "dead"]}
      [] s.conn \in {"fin", "dead"} -> {Ended(e, s)}
      [] OTHER                    -> {s}

\* The results of flush_pending_msgs on a buffer that is not empty.
Sends(e, s) ==
    CASE s.conn \in {"up", "fin"} -> {[s EXCEPT !.tx = "empty"], s}
      [] s.conn = "rst"           -> {[s EXCEPT !.conn = "dead", !.tx = "empty"]}
      [] s.conn = "dead"          -> {Ended(e, s)}
      [] OTHER                    -> {s}

\* The results of TcpEndpoint::write_msg: the message is coalesced, or sent at
\* once, when a connection that is up may be busy.
Writes(e, s) ==
    IF s.conn = "none" THEN {s}
    ELSE {[s EXCEPT !.tx = IF @ = "blocked" THEN @ ELSE "queued"]}
         \cup Sends(e, [s EXCEPT !.tx = "blocked"])

Flushes(e, s) == IF s.tx = "empty" THEN {s} ELSE Sends(e, s)

\* _schedule_reconnect starts a timer whenever a client's connection ended.
Retries(new) ==
    [e \in Endpoints |->
        IF e \in Clients /\ ep[e].conn # "none" /\ new[e].conn = "none"
        THEN retries[e] + 1 ELSE retries[e]]

-----------------------------------------------------------------------------
Init ==
    /\ ep \in [Endpoints -> {NoConnection, Connected}]
    /\ \A e \in Incoming : ep[e] = NoConnection
    /\ \A e \in Udps : ep[e] = Connected
    /\ g_endpoints = Clients \cup Udps
    /\ created = Clients \cup Udps
    /\ freed = {}
    /\ retries = [e \in Endpoints |-> IF e \in Clients /\ ep[e].conn = "none" THEN 1 ELSE 0]
    /\ hangups = FALSE
    /\ batch = {}
    /\ waiting = TRUE
    /\ misused = {}

\* The network: a peer shuts a connection down, or resets it.
PeerCloses(e) ==
    /\ e \notin Udps /\ ep[e].conn = "up"
    /\ ep' = [ep EXCEPT ![e].conn = "fin"]
    /\ UNCHANGED <<g_endpoints, created, freed, retries, hangups, batch, waiting, misused>>

PeerResets(e) ==
    /\ e \in Resets
    /\ ep[e].conn \in {"up", "fin"}
    /\ ep' = [ep EXCEPT ![e].conn = "rst"]
    /\ UNCHANGED <<g_endpoints, created, freed, retries, hangups, batch, waiting, misused>>

\* Registered with epoll: an object that has an fd and was not destroyed.
Polled(e) == e \in created \ freed /\ ep[e].conn # "none"

\* The events epoll may report.
ReadyBits(e) ==
    LET out == IF ep[e].tx = "blocked" THEN {"OUT"} ELSE {}
    IN  CASE ep[e].conn = "up"  -> (SUBSET ({"IN"} \cup out)) \ {{}}
          [] ep[e].conn = "rst" -> {{"IN", "ERR"} \cup out}
          [] OTHER              -> {{"IN"} \cup out}

Ready ==
    (UNION {{<<e, bits>> : bits \in ReadyBits(e)} : e \in {x \in Endpoints : Polled(x)}})
    \cup {<<"retry", e>> : e \in {x \in Endpoints : retries[x] > 0}}
    \cup {<<"flush", e>> : e \in {x \in created \ freed : ep[x].tx = "queued"}}
    \cup {<<"accept", e>> : e \in Incoming \ created}
    \cup {<<"pipe", e>> : e \in Removed \cap g_endpoints}
    \cup {<<"link", 0>>}

\* epoll_wait returns up to max_events events, at most one per object.
EpollWait(events) ==
    /\ waiting
    /\ Cardinality(events) \in 1..MaxEvents
    /\ \A x, y \in events : x # y => x[1] # y[1] \/ x[1] \in {"retry", "flush"}
    /\ batch' = events
    /\ waiting' = FALSE
    /\ UNCHANGED <<ep, g_endpoints, created, freed, retries, hangups, misused>>

Handles(event) == ~waiting /\ event \in batch /\ batch' = batch \ {event} /\ UNCHANGED waiting

\* A message is written to the endpoints X: their possible new states.
Routes(X) ==
    {[e \in Endpoints |-> IF e \in X THEN w[e] ELSE ep[e]] :
        w \in {f \in [X -> UNION {Writes(e, ep[e]) : e \in X}] :
                  \A e \in X : f[e] \in Writes(e, ep[e])}}

\* -EPIPE reaches route_msg unless it came from the flush that makes room.
Flagged(X) ==
    \/ UNCHANGED hangups
    \/ hangups' = TRUE /\ \E e \in X : ep[e].conn = "dead"

\* A message arrives on another endpoint.
HandleLink ==
    /\ Handles(<<"link", 0>>)
    /\ \E X \in SUBSET g_endpoints :
          \E new \in Routes(X) : ep' = new /\ retries' = Retries(new) /\ Flagged(X)
    /\ UNCHANGED <<g_endpoints, created, freed, misused>>

\* Mutant: only the read that makes the endpoint invalid counts.
ReadHangupOnce(s, t) == s.conn # "up" /\ s.valid /\ ~t.valid

\* The read from s to t failed and the endpoint is not valid.
ReadHangup(s, t) == s.conn # "up" /\ ~t.valid

\* The events of one endpoint: handle_read, handle_canwrite, then EPOLLERR.
HandleEndpoint(e, bits) ==
    /\ Handles(<<e, bits>>)
    /\ IF e \in freed
       THEN misused' = misused \cup {e} /\ UNCHANGED <<ep, retries, hangups>>
       ELSE /\ \E X \in IF "IN" \in bits /\ ep[e].conn = "up"
                        THEN SUBSET (g_endpoints \ {e}) ELSE {{}} :
               \E new \in Routes(X),
                  r \in IF "IN" \in bits THEN Reads(e, ep[e]) ELSE {ep[e]} :
               \E w \in IF "OUT" \in bits THEN Flushes(e, r) ELSE {r} :
                  LET all == [new EXCEPT ![e] = [w EXCEPT !.valid = @ /\ "ERR" \notin bits]]
                  IN  /\ ep' = all
                      /\ retries' = Retries(all)
                      /\ IF "ERR" \in bits \/ ("IN" \in bits /\ ReadHangup(ep[e], r))
                         THEN hangups' = TRUE ELSE Flagged(X)
            /\ UNCHANGED misused
    /\ UNCHANGED <<g_endpoints, created, freed>>

\* The coalescing timer of e: the destructor has marked it, so it is ignored
\* once e was destroyed.
HandleFlushTimer(e) ==
    /\ Handles(<<"flush", e>>)
    /\ \E t \in IF e \in freed THEN {ep[e]} ELSE Flushes(e, ep[e]) :
          LET new == [ep EXCEPT ![e] = t]
          IN  ep' = new /\ retries' = Retries(new)
    /\ UNCHANGED <<g_endpoints, created, freed, hangups, misused>>

\* Mutants: the timer goes on after it has connected; the timer gives up when it
\* cannot connect.
HandleRetryTimerKept(e) ==
    /\ Handles(<<"retry", e>>)
    /\ ep' = [ep EXCEPT ![e] = Connected]
    /\ UNCHANGED <<g_endpoints, created, freed, retries, hangups, misused>>

HandleRetryTimerOnce(e) ==
    /\ Handles(<<"retry", e>>)
    /\ ep' \in {ep, [ep EXCEPT ![e] = Connected]}
    /\ retries' = [retries EXCEPT ![e] = @ - 1]
    /\ UNCHANGED <<g_endpoints, created, freed, hangups, misused>>

\* A reconnect timer of e: _retry_timeout_cb tries to connect again.  The
\* destructor does not know of these timers.
HandleRetryTimer(e) ==
    /\ Handles(<<"retry", e>>)
    /\ IF e \in freed
       THEN misused' = misused \cup {e} /\ UNCHANGED <<ep, retries>>
       ELSE /\ \/ /\ ep' = [ep EXCEPT ![e] = Connected]
                  /\ retries' = [retries EXCEPT ![e] = @ - 1]
               \/ UNCHANGED <<ep, retries>>
            /\ UNCHANGED misused
    /\ UNCHANGED <<g_endpoints, created, freed, hangups>>

\* Mainloop::handle_tcp_connection.
HandleAccept(e) ==
    /\ Handles(<<"accept", e>>)
    /\ ep' = [ep EXCEPT ![e] = Connected]
    /\ g_endpoints' = g_endpoints \cup {e}
    /\ created' = created \cup {e}
    /\ UNCHANGED <<freed, retries, hangups, misused>>

\* The destructors of the endpoints in E: the fd is closed.
Destroy(E) ==
    /\ freed' = freed \cup E
    /\ ep' = [e \in Endpoints |-> IF e \in E THEN NoConnection ELSE ep[e]]

\* The remove command: it unlinks the endpoint from the groups and erases it
\* from the list at once.
HandleRemove(e) ==
    /\ Handles(<<"pipe", e>>)
    /\ g_endpoints' = g_endpoints \ {e}
    /\ IF e \in g_endpoints THEN Destroy({e}) ELSE UNCHANGED <<ep, freed>>
    /\ UNCHANGED <<created, retries, hangups, misused>>

\* Mutants: hangups are processed while events wait; the object is erased from
\* the list but not destroyed.
EndBatchEarly ==
    LET invalid == {e \in g_endpoints : hangups /\ ~ep[e].valid}
    IN  /\ ~waiting /\ (hangups \/ batch = {})
        /\ waiting' = (batch = {})
        /\ g_endpoints' = g_endpoints \ invalid
        /\ Destroy(invalid \ Held)
        /\ hangups' = FALSE
        /\ UNCHANGED <<created, retries, batch, misused>>

EndBatchKeepsFd ==
    /\ ~waiting /\ batch = {}
    /\ waiting' = TRUE
    /\ g_endpoints' = g_endpoints \ {e \in g_endpoints : hangups /\ ~ep[e].valid}
    /\ hangups' = FALSE
    /\ UNCHANGED <<ep, created, freed, retries, batch, misused>>

\* Mainloop::process_tcp_hangups, after the batch.  A group member's reference
\* keeps an endpoint that left the list alive.
EndBatch ==
    LET invalid == {e \in g_endpoints : hangups /\ ~ep[e].valid}
    IN  /\ ~waiting /\ batch = {}
        /\ waiting' = TRUE
        /\ g_endpoints' = g_endpoints \ invalid
        /\ Destroy(invalid \ Held)
        /\ hangups' = FALSE
        /\ UNCHANGED <<created, retries, batch, misused>>

Handle(event) ==
    \/ \E e \in Endpoints : event = <<"flush", e>> /\ HandleFlushTimer(e)
    \/ \E e \in Endpoints : event = <<"retry", e>> /\ HandleRetryTimer(e)
    \/ \E e \in Incoming : event = <<"accept", e>> /\ HandleAccept(e)
    \/ \E e \in Endpoints, bits \in SUBSET {"IN", "OUT", "ERR"} :
          event = <<e, bits>> /\ HandleEndpoint(e, bits)
    \/ \E e \in Removed : event = <<"pipe", e>> /\ HandleRemove(e)
    \/ event = <<"link", 0>> /\ HandleLink

Network == \E e \in Endpoints : PeerCloses(e) \/ PeerResets(e)

Next ==
    \/ \E events \in SUBSET Ready : EpollWait(events)
    \/ \E event \in batch : Handle(event)
    \/ EndBatch
    \/ Network

Spec == Init /\ [][Next]_vars

\* epoll_wait returns with one of the events E.
Reports(E) == waiting /\ \E events \in SUBSET Ready : events \cap E # {} /\ EpollWait(events)

\* The loop runs, epoll reports every object that stays ready again and again,
\* and a server that is asked again and again accepts a connection.
Fairness ==
    /\ WF_vars(\E event \in batch : Handle(event))
    /\ WF_vars(EndBatch)
    /\ \A e \in Clients \cup Incoming : SF_vars(Reports({<<e, bits>> : bits \in ReadyBits(e)}))
    /\ \A e \in Clients :
          /\ SF_vars(Reports({<<"retry", e>>}))
          /\ SF_vars(HandleRetryTimer(e) /\ ep'[e].conn = "up")

FairSpec == Spec /\ Fairness

-----------------------------------------------------------------------------
\* No handler and no timer callback runs on a destroyed endpoint: endpoints are
\* destroyed after the batch, and their timers with them.  Only the remove
\* command destroys an endpoint at once, while its event may be waiting.
NoUseAfterFree == misused \subseteq Removed

\* A TCP client without a connection has one reconnect timer, one with a
\* connection has none: it never connects twice and never gives up.
OneReconnect ==
    \A e \in Clients : retries[e] = IF ep[e].conn = "none" THEN 1 ELSE 0

\* "UART, UDP and TCP client endpoints are never destroyed during runtime"
\* (README.md).
ClientsStay == Clients \subseteq g_endpoints

\* "If a pollabe isn't valid anymore, it should be removed from poll"
\* (pollable.h): between two batches, an endpoint outside the list is not polled.
UnlistedNotPolled == waiting => \A e \in Endpoints \ g_endpoints : ~Polled(e)

\* An accepted connection that is lost leaves the list: the hangup is not missed
\* even when its error was swallowed by a coalescing timer.
LostLeaves ==
    \A e \in Incoming :
        (e \in g_endpoints /\ ep[e].conn \in {"fin", "rst", "dead"}) ~> e \notin g_endpoints

\* A TCP client that lost its connection gets a new one.
ClientReconnects ==
    \A e \in Clients : ep[e].conn \in {"none", "fin"} ~> ep[e].conn = "up"
=============================================================================
