--------------------------- MODULE LifetimeProofs ---------------------------
(***************************************************************************)
(* What the router holds on to, and when it lets go of it.                 *)
(*                                                                         *)
(* The endpoints in the event loop, for any number of endpoints and        *)
(* events: while no peer of a TCP client resets its connection and the     *)
(* remove command names no TCP client, no handler runs on an endpoint that *)
(* was destroyed for a hangup, clients are never destroyed, and each has   *)
(* one reconnect timer while it is not connected.  (With a reset, a run    *)
(* shows that this fails.)                                                 *)
(*                                                                         *)
(* The log directory of LogFiles for any number of loggers, any limits and *)
(* any device: the open files stay, finished files are marked, and the     *)
(* oldest files are deleted first.                                         *)
(***************************************************************************)
EXTENDS EventLoop, LogFiles, FiniteSetTheorems, TLAPS

-----------------------------------------------------------------------------
\* The endpoints.

\* An endpoint object a client, and one a UDP endpoint can be.
Good(e, s) ==
    /\ s \in Objects
    /\ e \in Clients => s.valid = TRUE /\ s.conn \in {"none", "up", "fin"}
    /\ e \in Udps => s.valid = TRUE /\ s.conn \in {"none", "up"}

AllGood == ep \in [Endpoints -> Objects] /\ \A e \in Endpoints : Good(e, ep[e])

\* Who was destroyed: no client, and everybody who left the list.
Lifetimes ==
    /\ Clients \subseteq g_endpoints
    /\ g_endpoints \subseteq created /\ created \subseteq Endpoints
    /\ freed \subseteq Endpoints \ Clients
    /\ created \ freed \subseteq g_endpoints

Timers ==
    /\ retries \in [Endpoints -> Nat]
    /\ \A e \in Endpoints : retries[e] = IF e \in Clients /\ ep[e].conn = "none" THEN 1 ELSE 0

\* Events of the batch are for live endpoints; a reconnect timer's client is not
\* connected, and no event of a client reports an error.
Events ==
    /\ \A ev \in batch : ev = <<ev[1], ev[2]>> /\ ev[1] \notin freed \ Removed
    /\ \A ev \in batch : ev[1] = "retry" => ev[2] \in Clients /\ ep[ev[2]].conn = "none"
    /\ \A ev \in batch : ev[1] \in Clients \cup Udps => "ERR" \notin ev[2]
    /\ waiting = TRUE => batch = {}

Inv == AllGood /\ Lifetimes /\ Timers /\ Events /\ misused \subseteq Removed

\* What a read, a flush or a write can do to an endpoint.
Keeps(e, s, t) == Good(e, t) /\ (s.conn = "none" => t.conn = "none")

LEMMA ObjectFacts == NoConnection \in Objects /\ Connected \in Objects
  BY Zenon DEF NoConnection, Connected, Objects, Conns

LEMMA ReadsKeep ==
    ASSUME NEW e, NEW s, Good(e, s), NEW t \in Reads(e, s)
    PROVE  Keeps(e, s, t)
  BY ObjectFacts, ZenonT(60) DEF Reads, Ended, Keeps, Good, Objects, Conns, NoConnection

LEMMA SendsKeep ==
    ASSUME NEW e, NEW s, Good(e, s), NEW t \in Sends(e, s)
    PROVE  Keeps(e, s, t)
  BY ObjectFacts, ZenonT(60) DEF Sends, Ended, Keeps, Good, Objects, Conns, NoConnection

LEMMA FlushesKeep ==
    ASSUME NEW e, NEW s, Good(e, s), NEW t \in Flushes(e, s)
    PROVE  Keeps(e, s, t)
  BY SendsKeep DEF Flushes, Keeps

LEMMA WritesKeep ==
    ASSUME NEW e, NEW s, Good(e, s), NEW t \in Writes(e, s)
    PROVE  Keeps(e, s, t)
<1> DEFINE b == [s EXCEPT !.tx = "blocked"]
<1>1. Good(e, b) /\ b.conn = s.conn
  BY DEF Good, Objects
<1>2. t \in Sends(e, b) => Keeps(e, s, t)
  BY <1>1, SendsKeep, Zenon DEF Keeps
<1>3. t = [s EXCEPT !.tx = IF @ = "blocked" THEN @ ELSE "queued"] => Keeps(e, s, t)
  BY DEF Keeps, Good, Objects
<1>4. t = s => Keeps(e, s, t)
  BY DEF Keeps
<1>. QED BY <1>2, <1>3, <1>4 DEF Writes

\* A message written to the endpoints X.
LEMMA RoutesKeep ==
    ASSUME AllGood, NEW X, NEW new \in Routes(X)
    PROVE  new \in [Endpoints -> Objects] /\ \A e \in Endpoints : Keeps(e, ep[e], new[e])
<1>0. PICK w : /\ new = [e \in Endpoints |-> IF e \in X THEN w[e] ELSE ep[e]]
               /\ \A e \in X : w[e] \in Writes(e, ep[e])
  BY Zenon DEF Routes
<1>1. ASSUME NEW e \in Endpoints PROVE Keeps(e, ep[e], new[e])
  <2>1. Good(e, ep[e]) /\ (new[e] \in Writes(e, ep[e]) \/ new[e] = ep[e])
    BY <1>0 DEF AllGood
  <2>. QED BY <2>1, WritesKeep DEF Keeps
<1>2. new \in [Endpoints -> Objects]
  <2>1. DOMAIN new = Endpoints /\ new = [e \in Endpoints |-> new[e]]
    BY <1>0
  <2>2. \A e \in Endpoints : new[e] \in Objects
    BY <1>1, Zenon DEF Keeps, Good
  <2>. QED BY <2>1, <2>2
<1>. QED BY <1>1, <1>2

\* A step that moves the endpoints so, counts the reconnect timers and takes an
\* event out of the batch.
LEMMA StepKeeps ==
    ASSUME Inv, NEW new \in [Endpoints -> Objects], \A e \in Endpoints : Keeps(e, ep[e], new[e]),
           ep' = new, retries' = Retries(new),
           batch' \subseteq batch, UNCHANGED <<g_endpoints, created, freed, waiting, misused>>
    PROVE  Inv'
<1>1. AllGood'
  BY DEF AllGood, Keeps
<1>2. Lifetimes'
  BY DEF Inv, Lifetimes
<1>3. Timers'
  <2>1. retries \in [Endpoints -> Nat]
    BY DEF Inv, Timers
  <2>2. retries' \in [Endpoints -> Nat]
    BY <2>1 DEF Retries
  <2>3. ASSUME NEW e \in Endpoints
        PROVE  retries'[e] = IF e \in Clients /\ new[e].conn = "none" THEN 1 ELSE 0
    <3>1. retries[e] = IF e \in Clients /\ ep[e].conn = "none" THEN 1 ELSE 0
      BY DEF Inv, Timers
    <3>2. ep[e].conn = "none" => new[e].conn = "none"
      BY DEF Keeps
    <3>. QED BY <3>1, <3>2 DEF Retries
  <2>. QED BY <2>2, <2>3 DEF Timers
<1>4. Events'
  <2>1. \A ev \in batch : ev[1] = "retry" => ev[2] \in Endpoints /\ new[ev[2]].conn = "none"
    BY DEF Inv, Events, Keeps, Endpoints
  <2>. QED BY <2>1 DEF Inv, Events
<1>. QED BY <1>1, <1>2, <1>3, <1>4 DEF Inv

\* What epoll reports fits the state it reports it in.
LEMMA ReadyFits ==
    ASSUME Inv, Resets \cap Clients = {}, NEW ev \in Ready
    PROVE  /\ ev = <<ev[1], ev[2]>> /\ ev[1] \notin freed
           /\ ev[1] = "retry" => ev[2] \in Clients /\ ep[ev[2]].conn = "none"
           /\ ev[1] \in Clients \cup Udps => "ERR" \notin ev[2]
<1>0. /\ {"retry", "flush", "accept", "pipe", "link"} \cap Endpoints = {}
      /\ freed \subseteq Endpoints /\ Clients \cup Udps \subseteq Endpoints
  BY EventLoopAssumption DEF Inv, Lifetimes, Endpoints
<1>1. CASE \E e \in Endpoints : Polled(e) /\ \E bits \in ReadyBits(e) : ev = <<e, bits>>
  <2>1. PICK e \in Endpoints : Polled(e) /\ \E bits \in ReadyBits(e) : ev = <<e, bits>>
    BY <1>1
  <2>2. PICK bits \in ReadyBits(e) : ev = <<e, bits>>
    BY <2>1
  <2>3. ev[1] = e /\ ev[2] = bits /\ e \notin freed /\ e # "retry"
    BY <1>0, <2>1, <2>2 DEF Polled
  <2>4. e \in Clients \cup Udps => ep[e].conn # "rst"
    BY DEF Inv, AllGood, Good
  <2>5. e \in Clients \cup Udps => "ERR" \notin bits
    BY <2>2, <2>4 DEF ReadyBits
  <2>6. ev = <<ev[1], ev[2]>>
    BY <2>2
  <2>. QED BY <2>3, <2>5, <2>6
<1>2. CASE \E e \in Endpoints : retries[e] > 0 /\ ev = <<"retry", e>>
  <2>1. PICK e \in Endpoints : retries[e] > 0 /\ ev = <<"retry", e>>
    BY <1>2
  <2>2. e \in Clients /\ ep[e].conn = "none"
    BY <2>1 DEF Inv, Timers
  <2>3. ev[1] = "retry" /\ ev[2] = e
    BY <2>1
  <2>4. ev = <<ev[1], ev[2]>> /\ "retry" \notin Endpoints
    BY <1>0, <2>1
  <2>. QED BY <1>0, <2>2, <2>3, <2>4
<1>3. CASE ev = <<ev[1], ev[2]>> /\ ev[1] \in {"flush", "accept", "pipe", "link"}
  BY <1>0, <1>3
<1>. QED BY <1>1, <1>2, <1>3 DEF Ready

LEMMA Inductive ==
    ASSUME Resets \cap Clients = {}, Removed \cap Clients = {}
    PROVE  Inv /\ [Next]_vars => Inv'
<1> SUFFICES ASSUME Inv, [Next]_vars PROVE Inv'
  OBVIOUS
<1>g. \A e \in Endpoints : Good(e, ep[e]) /\ Keeps(e, ep[e], ep[e])
  BY DEF Inv, AllGood, Keeps
<1>t. ep \in [Endpoints -> Objects]
  BY DEF Inv, AllGood
<1>1. ASSUME NEW events \in SUBSET Ready, EpollWait(events) PROVE Inv'
  <2>1. \A ev \in batch' : /\ ev = <<ev[1], ev[2]>> /\ ev[1] \notin freed
                           /\ ev[1] = "retry" => ev[2] \in Clients /\ ep[ev[2]].conn = "none"
                           /\ ev[1] \in Clients \cup Udps => "ERR" \notin ev[2]
    BY <1>1, ReadyFits DEF EpollWait
  <2>2. waiting' = FALSE
    BY <1>1 DEF EpollWait
  <2>3. Events'
    BY <1>1, <2>1, <2>2 DEF EpollWait, Events
  <2>4. AllGood' /\ Lifetimes' /\ Timers' /\ misused' \subseteq Removed
    BY <1>1 DEF EpollWait, Inv, AllGood, Lifetimes, Timers
  <2>. QED BY <2>3, <2>4 DEF Inv
<1>2. ASSUME NEW e \in Endpoints, HandleFlushTimer(e) PROVE Inv'
  <2>1. PICK t \in IF e \in freed THEN {ep[e]} ELSE Flushes(e, ep[e]) :
            ep' = [ep EXCEPT ![e] = t] /\ retries' = Retries([ep EXCEPT ![e] = t])
    BY <1>2, Zenon DEF HandleFlushTimer
  <2> DEFINE new == [ep EXCEPT ![e] = t]
  <2>2. Keeps(e, ep[e], t)
    BY <1>g, <2>1, FlushesKeep
  <2>3. new \in [Endpoints -> Objects] /\ \A x \in Endpoints : Keeps(x, ep[x], new[x])
    BY <1>g, <1>t, <2>2 DEF Keeps, Good
  <2>4. batch' \subseteq batch /\ UNCHANGED <<g_endpoints, created, freed, waiting, misused>>
    BY <1>2 DEF HandleFlushTimer, Handles
  <2>. QED BY <2>1, <2>3, <2>4, StepKeeps, Zenon
<1>3. ASSUME NEW e \in Endpoints, HandleRetryTimer(e) PROVE Inv'
  <2>1. <<"retry", e>> \in batch /\ batch' = batch \ {<<"retry", e>>} /\ waiting' = waiting
    BY <1>3 DEF HandleRetryTimer, Handles
  <2>2. <<"retry", e>>[1] = "retry" /\ <<"retry", e>>[2] = e
    OBVIOUS
  <2>3. e \in Clients /\ ep[e].conn = "none"
    BY <2>1, <2>2 DEF Inv, Events
  <2>4. e \notin freed
    BY <2>3 DEF Inv, Lifetimes
  <2>5. UNCHANGED <<g_endpoints, created, freed, hangups, misused>>
    BY <1>3, <2>4 DEF HandleRetryTimer
  <2>6. CASE UNCHANGED <<ep, retries>>
    BY <2>1, <2>5, <2>6 DEF Inv, AllGood, Lifetimes, Timers, Events
  <2>7. CASE ep' = [ep EXCEPT ![e] = Connected] /\ retries' = [retries EXCEPT ![e] = @ - 1]
    <3>1. AllGood'
      BY <1>g, <1>t, <2>7, ObjectFacts DEF AllGood, Good, Connected, NoConnection
    <3>2. retries[e] = 1 /\ ep'[e].conn = "up"
      BY <1>t, <2>3, <2>7 DEF Inv, Timers, Connected, NoConnection
    <3>3. Timers'
      BY <1>t, <2>7, <3>2 DEF Inv, Timers
    <3>4. Events'
      <4>1. ASSUME NEW ev \in batch', ev[1] = "retry"
            PROVE  ev[2] \in Clients /\ ep'[ev[2]].conn = "none"
        <5>1. ev = <<ev[1], ev[2]>> /\ ev # <<"retry", e>> /\ ev[2] \in Clients /\ ep[ev[2]].conn = "none"
          BY <2>1, <4>1 DEF Inv, Events
        <5>2. CASE ev[2] # e
          BY <1>t, <2>7, <5>1, <5>2 DEF Endpoints
        <5>3. CASE ev[2] = e
          BY <5>1, <5>3, <4>1
        <5>. QED BY <5>2, <5>3
      <4>. QED BY <2>1, <2>5, <4>1 DEF Inv, Events
    <3>. QED BY <2>5, <3>1, <3>3, <3>4 DEF Inv, Lifetimes
  <2>. QED BY <1>3, <2>4, <2>6, <2>7 DEF HandleRetryTimer
<1>4. ASSUME NEW e \in Incoming, HandleAccept(e) PROVE Inv'
  <2>1. e \in Endpoints /\ e \notin Clients \cup Udps
    BY EventLoopAssumption DEF Endpoints
  <2>2. AllGood'
    BY <1>4, <1>g, <1>t, <2>1, ObjectFacts DEF HandleAccept, AllGood, Good
  <2>3. Timers' /\ Lifetimes' /\ misused' \subseteq Removed
    BY <1>4, <1>t, <2>1 DEF HandleAccept, Inv, Timers, Lifetimes
  <2>4. \A c \in Clients : c \in Endpoints /\ ep'[c] = ep[c]
    BY <1>4, <1>t, <2>1 DEF HandleAccept, Endpoints
  <2>5. Events'
    BY <1>4, <2>4 DEF HandleAccept, Handles, Inv, Events
  <2>. QED BY <2>2, <2>3, <2>5 DEF Inv
<1>5. ASSUME NEW e \in Endpoints, NEW bits \in SUBSET {"IN", "OUT", "ERR"}, HandleEndpoint(e, bits)
      PROVE  Inv'
  <2>1. <<e, bits>> \in batch /\ batch' \subseteq batch /\ waiting' = waiting
    BY <1>5 DEF HandleEndpoint, Handles
  <2>2. <<e, bits>>[1] = e /\ <<e, bits>>[2] = bits
    OBVIOUS
  <2>3. e \notin freed \ Removed /\ (e \in Clients \cup Udps => "ERR" \notin bits)
    BY <2>1, <2>2 DEF Inv, Events
  <2>f. CASE e \in freed
    <3>1. /\ misused' = misused \cup {e}
          /\ UNCHANGED <<ep, retries, g_endpoints, created, freed>>
      BY <1>5, <2>f DEF HandleEndpoint
    <3>. QED BY <2>1, <2>3, <2>f, <3>1 DEF Inv, AllGood, Lifetimes, Timers, Events
  <2> SUFFICES ASSUME e \notin freed PROVE Inv'
    BY <2>f
  <2>4. UNCHANGED <<g_endpoints, created, freed, misused>>
    BY <1>5 DEF HandleEndpoint
  <2> DEFINE After(new, w) == [new EXCEPT ![e] = [w EXCEPT !.valid = @ /\ "ERR" \notin bits]]
             Steps(new, r) == \E w \in IF "OUT" \in bits THEN Flushes(e, r) ELSE {r} :
                                 ep' = After(new, w) /\ retries' = Retries(After(new, w))
  <2>a. PICK X : \E new \in Routes(X), r \in IF "IN" \in bits THEN Reads(e, ep[e]) ELSE {ep[e]} :
                    Steps(new, r)
    BY <1>5, <2>3, ZenonT(30) DEF HandleEndpoint
  <2>b. PICK new \in Routes(X), r \in IF "IN" \in bits THEN Reads(e, ep[e]) ELSE {ep[e]} :
                    Steps(new, r)
    BY <2>a, Zenon
  <2>5. PICK w \in IF "OUT" \in bits THEN Flushes(e, r) ELSE {r} :
                    ep' = After(new, w) /\ retries' = Retries(After(new, w))
    BY <2>b, Zenon
  <2> DEFINE v == [w EXCEPT !.valid = @ /\ "ERR" \notin bits]
             all == [new EXCEPT ![e] = v]
  <2>6. Keeps(e, ep[e], r)
    BY <1>g, <2>b, ReadsKeep
  <2>7. Keeps(e, ep[e], w)
    BY <2>5, <2>6, FlushesKeep DEF Keeps
  <2>8. Keeps(e, ep[e], v)
    <3>1. w \in Objects
      BY <2>7 DEF Keeps, Good
    <3>2. v \in Objects /\ v.conn = w.conn /\ v.valid = (w.valid /\ "ERR" \notin bits)
      BY <3>1, Zenon DEF Objects
    <3>. QED BY <2>3, <2>7, <3>2, Zenon DEF Keeps, Good
  <2>9. all \in [Endpoints -> Objects] /\ \A x \in Endpoints : Keeps(x, ep[x], all[x])
    <3>1. new \in [Endpoints -> Objects] /\ \A x \in Endpoints : Keeps(x, ep[x], new[x])
      BY <2>b, RoutesKeep DEF Inv
    <3>2. v \in Objects
      BY <2>8 DEF Keeps, Good
    <3> HIDE DEF v
    <3>. QED BY <2>8, <3>1, <3>2
  <2>10. ep' = all /\ retries' = Retries(all)
    BY <2>5
  <2> HIDE DEF all
  <2>. QED BY <2>1, <2>4, <2>9, <2>10, StepKeeps
<1>6. ASSUME HandleLink PROVE Inv'
  <2>a. PICK X : \E new \in Routes(X) : ep' = new /\ retries' = Retries(new)
    BY <1>6, Zenon DEF HandleLink
  <2>1. PICK new \in Routes(X) : ep' = new /\ retries' = Retries(new)
    BY <2>a, Zenon
  <2>2. new \in [Endpoints -> Objects] /\ \A x \in Endpoints : Keeps(x, ep[x], new[x])
    BY <2>1, RoutesKeep DEF Inv
  <2>3. batch' \subseteq batch /\ UNCHANGED <<g_endpoints, created, freed, waiting, misused>>
    BY <1>6 DEF HandleLink, Handles
  <2>. QED BY <2>1, <2>2, <2>3, StepKeeps
<1>7. ASSUME EndBatch PROVE Inv'
  <2> DEFINE invalid == {e \in g_endpoints : hangups /\ ~ep[e].valid}
  <2>1. invalid \cap (Clients \cup Udps) = {}
    BY <1>g DEF Good, Endpoints
  <2>2. /\ g_endpoints' = g_endpoints \ invalid /\ freed' = freed \cup (invalid \ Held)
        /\ ep' = [e \in Endpoints |-> IF e \in invalid \ Held THEN NoConnection ELSE ep[e]]
        /\ batch' = {} /\ UNCHANGED <<created, retries, misused>>
    BY <1>7 DEF EndBatch, Destroy
  <2> HIDE DEF invalid
  <2>3. AllGood'
    BY <1>g, <1>t, <2>1, <2>2, ObjectFacts DEF AllGood, Good
  <2>4. Lifetimes'
    <3>1. invalid \subseteq Endpoints
      BY DEF invalid, Inv, Lifetimes
    <3>2. invalid \cap Held = {}
      BY <2>1, EventLoopAssumption
    <3>. QED BY <2>1, <2>2, <3>1, <3>2 DEF Inv, Lifetimes
  <2>5. Timers'
    BY <2>1, <2>2 DEF Inv, Timers
  <2>. QED BY <2>2, <2>3, <2>4, <2>5 DEF Inv, Events
<1>8. ASSUME NEW e \in Endpoints, PeerCloses(e) \/ PeerResets(e) PROVE Inv'
  <2>1. PICK c \in {"fin", "rst"} : /\ ep' = [ep EXCEPT ![e].conn = c]
                                    /\ ep[e].conn # "none" /\ (e \in Clients => c = "fin")
                                    /\ e \notin Udps
    BY <1>8, EventLoopAssumption DEF PeerCloses, PeerResets
  <2>2. UNCHANGED <<g_endpoints, created, freed, retries, batch, waiting, misused>>
    BY <1>8 DEF PeerCloses, PeerResets
  <2>3. ep[e] \in Objects
    BY <1>t
  <2>4. ep'[e] \in Objects /\ ep'[e].conn = c /\ ep'[e].valid = ep[e].valid
    BY <1>t, <2>1, <2>3 DEF Objects, Conns
  <2>5. ep' \in [Endpoints -> Objects] /\ \A x \in Endpoints \ {e} : ep'[x] = ep[x]
    BY <1>t, <2>1, <2>4
  <2>6. AllGood'
    BY <1>g, <2>1, <2>4, <2>5 DEF AllGood, Good
  <2>7. \A x \in Endpoints : (ep'[x].conn = "none") = (ep[x].conn = "none")
    BY <2>1, <2>4, <2>5
  <2>8. Timers'
    BY <2>2, <2>7 DEF Inv, Timers
  <2>9. Events'
    BY <2>2, <2>7 DEF Inv, Events, Endpoints
  <2>. QED BY <2>2, <2>6, <2>8, <2>9 DEF Inv, Lifetimes
<1>9. ASSUME NEW e \in Removed, HandleRemove(e) PROVE Inv'
  <2>1. e \in Endpoints /\ e \notin Clients
    BY EventLoopAssumption
  <2>2. /\ g_endpoints' = g_endpoints \ {e}
        /\ freed' = IF e \in g_endpoints THEN freed \cup {e} ELSE freed
        /\ ep' \in {ep, [x \in Endpoints |-> IF x \in {e} THEN NoConnection ELSE ep[x]]}
        /\ batch' \subseteq batch /\ UNCHANGED <<created, retries, waiting, misused>>
    BY <1>9 DEF HandleRemove, Handles, Destroy
  <2>3. \A c \in Clients : c \in Endpoints /\ ep'[c] = ep[c]
    BY <1>t, <2>1, <2>2 DEF Endpoints
  <2>4. AllGood'
    <3>1. Good(e, NoConnection)
      BY <2>1, ObjectFacts DEF Good, NoConnection
    <3>. QED BY <1>g, <1>t, <2>2, <3>1, ObjectFacts DEF AllGood
  <2>5. Lifetimes' /\ Timers'
    BY <2>1, <2>2, <2>3 DEF Inv, Lifetimes, Timers
  <2>6. Events'
    BY <2>2, <2>3 DEF Inv, Events
  <2>. QED BY <2>2, <2>4, <2>5, <2>6 DEF Inv
<1>10. ASSUME UNCHANGED vars PROVE Inv'
  BY <1>10 DEF vars, Inv, AllGood, Lifetimes, Timers, Events
<1>. QED BY <1>1, <1>2, <1>3, <1>4, <1>5, <1>6, <1>7, <1>8, <1>9, <1>10 DEF Next, Handle, Network

LEMMA Initially == Init => Inv
<1> SUFFICES ASSUME Init PROVE Inv
  OBVIOUS
<1>1. ep \in [Endpoints -> Objects]
  BY ObjectFacts DEF Init
<1>2. AllGood
  <2>1. \A e \in Endpoints : ep[e] = NoConnection \/ ep[e] = Connected
    BY DEF Init
  <2>2. \A e \in Udps : ep[e] = Connected
    BY DEF Init
  <2>. QED BY <1>1, <2>1, <2>2 DEF AllGood, Good, NoConnection, Connected
<1>3. Timers
  BY DEF Init, Timers
<1>. QED BY <1>2, <1>3 DEF Init, Inv, Lifetimes, Events, Endpoints

\* Mainloop::loop and process_tcp_hangups: no handler or timer callback runs on
\* a destroyed endpoint unless the remove command names it, and TCP clients stay
\* in the list.
THEOREM NoStaleHandlers ==
    ASSUME Resets \cap Clients = {}, Removed \cap Clients = {}
    PROVE  Spec => [](NoUseAfterFree /\ ClientsStay)
<1>1. Inv => NoUseAfterFree /\ ClientsStay
  BY DEF Inv, Lifetimes, NoUseAfterFree, ClientsStay
<1>. QED BY <1>1, Initially, Inductive, PTL DEF Spec

\* TcpEndpoint::_schedule_reconnect and _retry_timeout_cb: a client has exactly
\* one reconnect timer while it has no connection, and none while it has one.
THEOREM ReconnectsOnce ==
    ASSUME Resets \cap Clients = {}, Removed \cap Clients = {}
    PROVE  Spec => []OneReconnect
<1>1. Inv => OneReconnect
  BY DEF Inv, Timers, OneReconnect, Endpoints
<1>. QED BY <1>1, Initially, Inductive, PTL DEF Spec

\* process_tcp_hangups and the remove command: an endpoint that left the list
\* was destroyed, and so is no longer registered with epoll.
THEOREM Unpolled ==
    ASSUME Resets \cap Clients = {}, Removed \cap Clients = {}
    PROVE  Spec => []UnlistedNotPolled
<1>1. Inv => UnlistedNotPolled
  BY DEF Inv, Lifetimes, UnlistedNotPolled, Polled
<1>. QED BY <1>1, Initially, Inductive, PTL DEF Spec

-----------------------------------------------------------------------------
\* The log directory.

File == [units : SUBSET Device, readonly : BOOLEAN]

TypeInv ==
    /\ Indexes \subseteq 0..MaxIndex
    /\ dir \in [Indexes -> File]
    /\ open \in [Loggers -> Indexes \cup {NoFile}]
    /\ running \in BOOLEAN

\* The names of the files are in the order of their ages.
ByAge == \A i, j : <<i, j>> \in before => i \in Indexes /\ j \in Indexes /\ i < j

FilesInv ==
    /\ TypeInv
    /\ OpenNotDeleted
    /\ FinishedAreMarked
    /\ ~running => \A l \in Loggers : open[l] = NoFile
    /\ ByAge

-----------------------------------------------------------------------------
LEMMA Least ==
    ASSUME NEW T \in SUBSET Nat, T # {}
    PROVE  \E x \in T : \A y \in T : x <= y
<1> DEFINE Less == {ss \in Nat \X Nat : ss[1] < ss[2]}
<1>1. IsWellFoundedOn(Less, Nat)
  BY NatLessThanWellFounded, Zenon DEF OpToRel
<1>2. PICK x \in T : \A y \in T : ~ (<<y, x>> \in Less)
  BY <1>1, WFMin, Zenon
<1>3. ASSUME NEW y \in T PROVE x <= y
  <2>1. <<y, x>> \notin Less /\ <<y, x>> \in Nat \X Nat
    BY <1>2
  <2>. QED BY <2>1
<1>. QED BY <1>3

\* A set of indexes has a largest one.
LEMMA Largest ==
    ASSUME NEW V \in SUBSET (0..MaxIndex), V # {}
    PROVE  Max(V) \in V /\ \A y \in V : y <= Max(V)
<1> DEFINE T == {MaxIndex - x : x \in V}
<1>1. MaxIndex \in Nat
  BY LogFilesAssumption
<1>2. T \in SUBSET Nat /\ T # {}
  <2>1. \A x \in V : MaxIndex - x \in Nat
    BY <1>1
  <2>. QED BY <2>1, Zenon
<1>3. PICK t \in T : \A y \in T : t <= y
  BY <1>2, Least, Zenon
<1>4. PICK x \in V : t = MaxIndex - x
  OBVIOUS
<1>5. ASSUME NEW y \in V PROVE x >= y
  <2>1. t <= MaxIndex - y
    BY <1>3
  <2>. QED BY <1>1, <1>4, <2>1
<1>6. Max(V) \in V /\ \A y \in V : Max(V) >= y
  BY <1>5, Zenon DEF Max
<1>. QED BY <1>1, <1>6

\* _get_prefix returns an index behind the ones in use.
LEMMA NextIndex ==
    ASSUME NEW I \in SUBSET (0..MaxIndex)
    PROVE  GetPrefix(I) \in Nat /\ \A j \in I : j < GetPrefix(I)
<1>1. CASE I = {}
  BY <1>1 DEF GetPrefix
<1>2. CASE I # {}
  <2>1. Max(I) \in I /\ \A y \in I : y <= Max(I)
    BY <1>2, Largest
  <2>2. GetPrefix(I) = Max(I) + 1
    BY <1>2, Zenon DEF GetPrefix
  <2>3. Max(I) \in Nat /\ \A j \in I : j \in Nat
    <3>1. MaxIndex \in Nat /\ \A j \in I : j \in 0..MaxIndex
      BY LogFilesAssumption
    <3>2. \A j \in I : j \in Nat
      BY <3>1
    <3>. QED BY <2>1, <3>2, Zenon
  <2>4. ASSUME NEW j \in I PROVE j < Max(I) + 1
    BY <2>1, <2>3
  <2>. QED BY <2>2, <2>3, <2>4
<1>. QED BY <1>1, <1>2

\* Only finished files are deleted, and no open one.
LEMMA OpenSpared ==
    ASSUME FilesInv, running, NEW D, NEW measured, DeleteOldLogs(D, measured)
    PROVE  D \subseteq Candidates /\ \A l \in Loggers : open[l] \notin D
<1>1. D \subseteq Candidates
  BY DEF DeleteOldLogs
<1>2. \A l \in Loggers : open[l] \notin Candidates
  BY DEF FilesInv, FinishedAreMarked, Candidates
<1>. QED BY <1>1, <1>2

\* Logger l has created file i, once only the files kept were left.
Created(l, i, kept) ==
    /\ i \notin kept /\ \A j \in kept : j < i
    /\ Indexes' = kept \cup {i}
    /\ dir' = [j \in kept \cup {i} |->
                  IF j = i THEN [units |-> {}, readonly |-> FALSE] ELSE dir[j]]
    /\ open' = [open EXCEPT ![l] = i] /\ running' = running
    /\ running /\ open[l] = NoFile
    /\ before' = (before \cap (kept \X kept)) \cup (kept \X {i})

\* LogEndpoint::start: what it changes.
LEMMA Started ==
    ASSUME FilesInv, NEW l \in Loggers, NEW D \in SUBSET Indexes, Start(l, D)
    PROVE  \E i \in 0..MaxIndex : Created(l, i, Indexes \ D)
<1> DEFINE kept == Indexes \ D
           i == GetPrefix(kept)
<1>1. kept \in SUBSET (0..MaxIndex) /\ MaxIndex \in Nat
  BY LogFilesAssumption DEF FilesInv, TypeInv
<1>2. i \in Nat /\ \A j \in kept : j < i
  BY <1>1, NextIndex
<1>3. i \notin kept
  <2> HIDE DEF kept, i
  <2>. QED BY <1>1, <1>2
<1>4. i <= MaxIndex /\ i \in 0..MaxIndex
  <2>1. i <= MaxIndex
    BY DEF Start
  <2> HIDE DEF i
  <2>. QED BY <1>1, <1>2, <2>1
<1>5. /\ dir' = [j \in kept \cup {i} |->
                     IF j = i THEN [units |-> {}, readonly |-> FALSE] ELSE dir[j]]
      /\ open' = [open EXCEPT ![l] = i] /\ running' = running
      /\ running /\ open[l] = NoFile
      /\ before' = (before \cap (kept \X kept)) \cup (kept \X {i})
  BY DEF Start
<1> HIDE DEF i
<1>6. Indexes' = kept \cup {i}
  BY <1>5 DEF Indexes
<1>7. Created(l, i, kept)
  BY <1>2, <1>3, <1>5, <1>6 DEF Created
<1>. QED BY <1>4, <1>7

LEMMA StartKeeps ==
    ASSUME FilesInv, NEW l \in Loggers, NEW D \in SUBSET Indexes, NEW measured,
           DeleteOldLogs(D, measured), Start(l, D)
    PROVE  FilesInv'
<1> DEFINE kept == Indexes \ D
<1>0. PICK i \in 0..MaxIndex : Created(l, i, kept)
  BY Started
<1>1. /\ i \notin kept /\ \A j \in kept : j < i
      /\ Indexes' = kept \cup {i}
      /\ dir' = [j \in kept \cup {i} |->
                    IF j = i THEN [units |-> {}, readonly |-> FALSE] ELSE dir[j]]
      /\ open' = [open EXCEPT ![l] = i] /\ running' = running
      /\ running /\ open[l] = NoFile
      /\ before' = (before \cap (kept \X kept)) \cup (kept \X {i})
  BY <1>0 DEF Created
<1>2. D \subseteq Candidates /\ \A m \in Loggers : open[m] \notin D
  BY <1>1, OpenSpared
<1>3. /\ kept \subseteq Indexes /\ Indexes \subseteq 0..MaxIndex
      /\ open \in [Loggers -> Indexes \cup {NoFile}]
      /\ \A m \in Loggers : open[m] = NoFile \/ open[m] \in kept
  BY <1>2 DEF FilesInv, TypeInv
<1>4. /\ open' \in [Loggers -> Indexes' \cup {NoFile}] /\ open'[l] = i
      /\ \A m \in Loggers : m # l => open'[m] = open[m]
  BY <1>1, <1>3
<1>5. i # NoFile /\ NoFile \notin kept
  BY <1>3, LogFilesAssumption DEF NoFile
<1>6. TypeInv'
  <2>1. \A j \in kept : dir[j] \in File
    BY <1>3 DEF FilesInv, TypeInv
  <2>2. [units |-> {}, readonly |-> FALSE] \in File
    BY DEF File
  <2>3. dir' \in [Indexes' -> File]
    <3> HIDE DEF File
    <3>. QED BY <1>1, <2>1, <2>2
  <2>. QED BY <1>1, <1>3, <1>4, <2>3 DEF FilesInv, TypeInv, File
<1>7. OpenNotDeleted'
  <2>1. ASSUME NEW m \in Loggers, NEW o \in Loggers \ {m}, open'[m] # NoFile
        PROVE  open'[m] \in Indexes' /\ open'[o] # open'[m]
    BY <1>1, <1>3, <1>4, <1>5, <2>1 DEF FilesInv, OpenNotDeleted
  <2>2. \A m \in Loggers : open'[m] # NoFile => open'[m] \in Indexes'
    BY <1>4
  <2>. QED BY <2>1, <2>2 DEF OpenNotDeleted, NoFile
<1>8. FinishedAreMarked'
  <2> SUFFICES ASSUME NEW j \in Indexes'
               PROVE  dir'[j].readonly <=> \A m \in Loggers : open'[m] # j
    BY DEF FinishedAreMarked
  <2>1. CASE j = i
    BY <1>1, <1>4, <2>1
  <2>2. CASE j # i
    <3>1. j \in kept /\ dir'[j] = dir[j]
      BY <1>1, <2>2
    <3>2. dir[j].readonly <=> \A m \in Loggers : open[m] # j
      BY <1>1, <3>1 DEF FilesInv, FinishedAreMarked
    <3>3. \A m \in Loggers : open'[m] # j <=> open[m] # j
      BY <1>1, <1>4, <1>5, <2>2, <3>1
    <3>. QED BY <3>1, <3>2, <3>3
  <2>. QED BY <2>1, <2>2
<1>9. ByAge'
  <2> SUFFICES ASSUME NEW j, NEW k, <<j, k>> \in before'
               PROVE  j \in Indexes' /\ k \in Indexes' /\ j < k
    BY DEF ByAge
  <2>1. CASE <<j, k>> \in before \cap (kept \X kept)
    BY <1>1, <2>1 DEF FilesInv, ByAge
  <2>2. CASE <<j, k>> \in kept \X {i}
    BY <1>1, <2>2
  <2>. QED BY <1>1, <2>1, <2>2
<1>. QED BY <1>1, <1>6, <1>7, <1>8, <1>9 DEF FilesInv

\* The units of fewer files are fewer.
LEMMA SmallerSize ==
    ASSUME FilesInv, NEW A, NEW B \in SUBSET Indexes, A \subseteq B
    PROVE  SizeOf(A) \in Nat /\ SizeOf(B) \in Nat /\ SizeOf(A) <= SizeOf(B)
<1>1. Units(A) \subseteq Units(B)
  BY DEF Units
<1>2. Units(B) \subseteq Device
  BY DEF FilesInv, TypeInv, File, Units
<1>3. IsFiniteSet(Units(A)) /\ IsFiniteSet(Units(B))
  BY <1>1, <1>2, FS_Subset, LogFilesAssumption
<1>4. Cardinality(Units(A)) \in Nat /\ Cardinality(Units(B)) \in Nat
  BY <1>3, FS_CardinalityType
<1>5. Cardinality(Units(A)) <= Cardinality(Units(B))
  BY <1>1, <1>3, FS_Subset
<1>. QED BY <1>4, <1>5 DEF SizeOf

\* What is not enough after more deletions was not enough after fewer.
LEMMA EnoughGrows ==
    ASSUME FilesInv, NEW A, NEW B \in SUBSET Indexes, A \subseteq B, NEW measured, Enough(A, measured)
    PROVE  Enough(B, measured)
<1>1. SizeOf(A) \in Nat /\ SizeOf(B) \in Nat /\ SizeOf(A) <= SizeOf(B)
  BY SmallerSize
<1>2. MaxIndex \in Nat /\ min_free_space \in Nat /\ max_log_files \in Nat
  BY LogFilesAssumption
<1>3. IsFiniteSet(0..MaxIndex) /\ Indexes \subseteq 0..MaxIndex
  BY <1>2, FS_Interval DEF FilesInv, TypeInv
<1>4. IsFiniteSet(A) /\ IsFiniteSet(B) /\ IsFiniteSet(Candidates)
  <2>1. Candidates \subseteq Indexes
    BY DEF Candidates
  <2>. QED BY <1>3, <2>1, FS_Subset, Zenon
<1>5. /\ Cardinality(A) \in Nat /\ Cardinality(B) \in Nat /\ Cardinality(Candidates) \in Nat
      /\ Cardinality(A) <= Cardinality(B)
  BY <1>4, FS_CardinalityType, FS_Subset
<1>6. BytesToDelete(measured) \in Int
  <2>1. IsFiniteSet(Device \ Units(Indexes))
    BY FS_Subset, LogFilesAssumption
  <2>2. FreeSpace \in Nat
    BY <2>1, FS_CardinalityType DEF FreeSpace
  <2>. QED BY <1>2, <2>2 DEF BytesToDelete
<1>7. CASE max_log_files = 0 /\ (~measured \/ FreeSpace > min_free_space)
  BY <1>7 DEF Enough
<1>8. CASE /\ BytesToDelete(measured) - SizeOf(A) <= 0
           /\ max_log_files > 0 => Cardinality(Candidates) - Cardinality(A) <= max_log_files
  <2>1. BytesToDelete(measured) - SizeOf(B) <= 0
    BY <1>1, <1>6, <1>8
  <2>2. max_log_files > 0 => Cardinality(Candidates) - Cardinality(B) <= max_log_files
    BY <1>2, <1>5, <1>8
  <2>. QED BY <2>1, <2>2 DEF Enough
<1>. QED BY <1>7, <1>8 DEF Enough

LEMMA WriteKeeps ==
    ASSUME FilesInv, NEW l \in Loggers, NEW unit \in Device, Write(l, unit)
    PROVE  FilesInv' /\ Indexes' = Indexes /\ open' = open
<1>1. /\ dir' = [dir EXCEPT ![open[l]].units = @ \cup {unit}]
      /\ open' = open /\ running' = running /\ before' = before
      /\ open[l] \in Indexes
  BY DEF Write, FilesInv, TypeInv
<1>2. dir \in [Indexes -> File] /\ Indexes' = Indexes
  BY <1>1 DEF FilesInv, TypeInv, Indexes
<1>3. dir' \in [Indexes -> File] /\ \A i \in Indexes : dir'[i].readonly = dir[i].readonly
  BY <1>1, <1>2 DEF File
<1>4. TypeInv'
  BY <1>1, <1>2, <1>3 DEF FilesInv, TypeInv, File
<1>5. OpenNotDeleted' /\ FinishedAreMarked' /\ ByAge'
  BY <1>1, <1>2, <1>3 DEF FilesInv, OpenNotDeleted, FinishedAreMarked, ByAge, NoFile
<1>. QED BY <1>1, <1>2, <1>4, <1>5 DEF FilesInv

LEMMA StopKeeps ==
    ASSUME FilesInv, NEW l \in Loggers, Stop(l)
    PROVE  FilesInv' /\ Indexes' = Indexes
           /\ \A m \in Loggers : open'[m] = NoFile \/ open'[m] = open[m]
<1>1. /\ dir' = [dir EXCEPT ![open[l]].readonly = TRUE]
      /\ open' = [open EXCEPT ![l] = NoFile] /\ running' = running /\ before' = before /\ running
      /\ open[l] \in Indexes /\ open[l] # NoFile
  BY DEF Stop, FilesInv, TypeInv
<1>2. dir \in [Indexes -> File] /\ Indexes' = Indexes /\ NoFile \notin Indexes
  BY <1>1, LogFilesAssumption DEF FilesInv, TypeInv, Indexes, NoFile
<1>3. /\ dir' \in [Indexes -> File] /\ dir'[open[l]].readonly = TRUE
      /\ \A i \in Indexes : i # open[l] => dir'[i] = dir[i]
  BY <1>1, <1>2, Zenon DEF File
<1>4. /\ open' \in [Loggers -> Indexes \cup {NoFile}] /\ open'[l] = NoFile
      /\ \A m \in Loggers : m # l => open'[m] = open[m]
  BY <1>1 DEF FilesInv, TypeInv
<1>5. TypeInv'
  BY <1>1, <1>2, <1>3, <1>4 DEF FilesInv, TypeInv, File
<1>6. OpenNotDeleted'
  <2>1. ASSUME NEW m \in Loggers, open'[m] # NoFile
        PROVE  open'[m] \in Indexes /\ \A o \in Loggers \ {m} : open'[o] # open'[m]
    BY <1>4, <2>1 DEF FilesInv, OpenNotDeleted
  <2>. QED BY <1>2, <2>1 DEF OpenNotDeleted, NoFile
<1>7. FinishedAreMarked'
  <2> SUFFICES ASSUME NEW j \in Indexes
               PROVE  dir'[j].readonly <=> \A m \in Loggers : open'[m] # j
    BY <1>2 DEF FinishedAreMarked
  <2>1. \A m \in Loggers : m # l => open[m] # open[l]
    BY <1>1 DEF FilesInv, OpenNotDeleted
  <2>2. CASE j = open[l]
    BY <1>2, <1>3, <1>4, <2>1, <2>2
  <2>3. CASE j # open[l]
    <3>1. dir[j].readonly <=> \A m \in Loggers : open[m] # j
      BY <1>1 DEF FilesInv, FinishedAreMarked
    <3>2. \A m \in Loggers : open'[m] # j <=> open[m] # j
      BY <1>2, <1>4, <2>3
    <3>. QED BY <1>3, <2>3, <3>1, <3>2
  <2>. QED BY <2>2, <2>3
<1>8. ByAge'
  BY <1>1, <1>2 DEF FilesInv, ByAge
<1>. QED BY <1>1, <1>2, <1>4, <1>5, <1>6, <1>7, <1>8 DEF FilesInv

LEMMA CrashKeeps ==
    ASSUME FilesInv, Crash
    PROVE  FilesInv' /\ Indexes' = Indexes /\ \A m \in Loggers : open'[m] = NoFile
<1>1. dir' = dir /\ before' = before /\ running' = FALSE /\ open' = [l \in Loggers |-> NoFile]
  BY DEF Crash
<1>2. Indexes' = Indexes
  BY <1>1 DEF Indexes
<1>. QED BY <1>1, <1>2, Zenon DEF FilesInv, TypeInv, File, OpenNotDeleted, FinishedAreMarked, ByAge, NoFile

LEMMA MarkKeeps ==
    ASSUME FilesInv, MarkUnfinishedLogs
    PROVE  FilesInv' /\ Indexes' = Indexes /\ open' = open
<1>1. /\ dir' = [i \in Indexes |-> [dir[i] EXCEPT !.readonly = TRUE]]
      /\ before' = before /\ running' = TRUE /\ open' = open /\ ~running
  BY DEF MarkUnfinishedLogs
<1>2. Indexes' = Indexes /\ dir \in [Indexes -> File] /\ NoFile \notin Indexes
  BY <1>1, LogFilesAssumption DEF FilesInv, TypeInv, Indexes, NoFile
<1>3. dir' \in [Indexes -> File] /\ \A i \in Indexes : dir'[i].readonly = TRUE
  BY <1>1, <1>2, Zenon DEF File
<1>4. \A l \in Loggers : open'[l] = NoFile
  BY <1>1 DEF FilesInv
<1>5. TypeInv'
  BY <1>1, <1>2, <1>3 DEF FilesInv, TypeInv, File
<1>6. OpenNotDeleted' /\ FinishedAreMarked'
  BY <1>2, <1>3, <1>4 DEF OpenNotDeleted, FinishedAreMarked, NoFile
<1>7. ByAge'
  BY <1>1, <1>2 DEF FilesInv, ByAge
<1>. QED BY <1>1, <1>2, <1>5, <1>6, <1>7 DEF FilesInv

LEMMA FilesInductive == FilesInv /\ [FilesNext]_filesVars => FilesInv'
<1> SUFFICES ASSUME FilesInv, [FilesNext]_filesVars PROVE FilesInv'
  OBVIOUS
<1>1. ASSUME NEW l \in Loggers, NEW D \in SUBSET Indexes, NEW measured \in {TRUE, ~StatFails},
             DeleteOldLogs(D, measured), Start(l, D)
      PROVE  FilesInv'
  BY <1>1, StartKeeps
<1>2. ASSUME NEW l \in Loggers, NEW unit \in Device, Write(l, unit) PROVE FilesInv'
  BY <1>2, WriteKeeps
<1>3. ASSUME NEW l \in Loggers, Stop(l) PROVE FilesInv'
  BY <1>3, StopKeeps
<1>4. CASE Crash
  BY <1>4, CrashKeeps
<1>5. CASE MarkUnfinishedLogs
  BY <1>5, MarkKeeps
<1>6. CASE UNCHANGED filesVars
  BY <1>6 DEF filesVars, FilesInv, TypeInv, File, Indexes, OpenNotDeleted, FinishedAreMarked, ByAge, NoFile
<1>. QED BY <1>1, <1>2, <1>3, <1>4, <1>5, <1>6, Zenon DEF FilesNext

LEMMA FilesInitially == FilesInit => FilesInv
<1> SUFFICES ASSUME FilesInit PROVE FilesInv
  OBVIOUS
<1>1. Indexes = {}
  BY DEF FilesInit, Indexes
<1>2. TypeInv
  BY <1>1 DEF FilesInit, TypeInv, Indexes
<1>. QED BY <1>1, <1>2 DEF FilesInit, FilesInv, OpenNotDeleted, FinishedAreMarked, ByAge

\* A file that a logger writes to stays in the directory, for any loggers, limits
\* and failures of remove and statvfs: _delete_old_logs only takes files marked
\* by stop or after a crash, and _get_prefix gives no two loggers the same name.
THEOREM OpenFilesStay == FilesSpec => []OpenNotDeleted
<1>1. FilesInv => OpenNotDeleted
  BY DEF FilesInv
<1>. QED BY <1>1, FilesInitially, FilesInductive, PTL DEF FilesSpec

\* While the router runs exactly the files that no logger writes to are marked:
\* stop marks its file, and mark_unfinished_logs those a crash left.
THEOREM AllFinishedMarked == FilesSpec => []FinishedAreMarked
<1>1. FilesInv => FinishedAreMarked
  BY DEF FilesInv
<1>. QED BY <1>1, FilesInitially, FilesInductive, PTL DEF FilesSpec

-----------------------------------------------------------------------------
\* What OldestFirst says of the deletion of file i.
RightToDelete(i) ==
    /\ \A j \in Older(i) : ~Survives(j) \/ j \in Stuck
    /\ \E measured \in {TRUE, ~StatFails} : ~Enough(Older(i) \ Stuck, measured)

\* _delete_old_logs visits the older files before it deletes one, and had not
\* deleted enough with them.
LEMMA OlderVisited ==
    ASSUME FilesInv, NEW D, NEW measured, DeleteOldLogs(D, measured), NEW i \in D
    PROVE  Older(i) \ Stuck \subseteq D /\ ~Enough(Older(i) \ Stuck, measured)
<1>1. PICK V \in SUBSET Candidates :
           /\ \A k \in V, j \in Candidates \ V : k < j
           /\ D = V \ Stuck
           /\ V # {} => ~Enough((V \ {Max(V)}) \ Stuck, measured)
  BY DEF DeleteOldLogs
<1>2. /\ i \in V /\ i \notin Stuck /\ V \subseteq Indexes /\ Indexes \subseteq 0..MaxIndex
      /\ Candidates \subseteq Indexes
  BY <1>1 DEF FilesInv, TypeInv, Candidates
<1>3. Max(V) \in V /\ i <= Max(V)
  BY <1>2, Largest
<1>4. ASSUME NEW j \in Older(i) PROVE j \in V /\ j # Max(V)
  <2>1. j \in Candidates /\ j < i
    BY DEF Older, FilesInv, ByAge
  <2>2. j \in Int /\ i \in Int /\ Max(V) \in Int
    <3>1. \A x \in Indexes : x \in Int
      BY <1>2, LogFilesAssumption
    <3>. QED BY <1>2, <1>3, <2>1, <3>1, Zenon
  <2>3. j \notin V => i < j
    BY <1>1, <1>2, <2>1
  <2> DEFINE m == Max(V)
  <2>4. i <= m /\ m \in Int
    BY <1>3, <2>2
  <2> HIDE DEF m
  <2>5. j # m
    BY <2>1, <2>2, <2>4
  <2>. QED BY <2>1, <2>2, <2>3, <2>5 DEF m
<1> DEFINE A == Older(i) \ Stuck
           B == (V \ {Max(V)}) \ Stuck
<1>5. A \subseteq B /\ B \subseteq Indexes /\ A \subseteq D
  BY <1>1, <1>2, <1>4, Zenon
<1>6. ~Enough(B, measured)
  BY <1>1, <1>2
<1> HIDE DEF A, B
<1>7. ~Enough(A, measured)
  BY <1>5, <1>6, EnoughGrows
<1>. QED BY <1>5, <1>7 DEF A

\* A file is lost by a start only, and only if that deletes it.
LEMMA StartDeletes ==
    ASSUME FilesInv, NEW l \in Loggers, NEW D \in SUBSET Indexes,
           NEW measured \in {TRUE, ~StatFails}, DeleteOldLogs(D, measured), Start(l, D),
           NEW i \in Indexes, ~Survives(i)
    PROVE  RightToDelete(i)
<1> DEFINE kept == Indexes \ D
<1>1. PICK n \in 0..MaxIndex : Created(l, n, kept)
  BY Started
<1>2. /\ n \notin kept /\ Indexes' = kept \cup {n} /\ open[l] = NoFile
      /\ open' = [open EXCEPT ![l] = n]
  BY <1>1 DEF Created
<1>3. open \in [Loggers -> Indexes \cup {NoFile}] /\ NoFile \notin Indexes
  BY LogFilesAssumption DEF FilesInv, TypeInv, NoFile
<1>4. ASSUME NEW j \in kept PROVE Survives(j)
  BY <1>2, <1>3 DEF Survives
<1>5. ASSUME NEW j \in D PROVE ~Survives(j)
  <2>1. CASE j # n
    BY <1>2, <2>1 DEF Survives
  <2>2. CASE j = n
    <3>1. open'[l] = j /\ open[l] # j
      BY <1>2, <1>3, <2>2
    <3>. QED BY <3>1 DEF Survives
  <2>. QED BY <2>1, <2>2
<1>6. i \in D
  BY <1>4
<1>7. Older(i) \ Stuck \subseteq D /\ ~Enough(Older(i) \ Stuck, measured)
  BY <1>6, OlderVisited
<1>. QED BY <1>5, <1>7, Zenon DEF RightToDelete

LEMMA OnlyStartDeletes ==
    ASSUME FilesInv, Indexes' = Indexes, NEW i \in Indexes,
           \A m \in Loggers : open'[m] = NoFile \/ open'[m] = open[m]
    PROVE  Survives(i)
<1>1. i # NoFile
  BY LogFilesAssumption DEF FilesInv, TypeInv, NoFile
<1>. QED BY <1>1 DEF Survives

\* _delete_old_logs deletes a file only after the older finished ones, those it
\* cannot remove excepted, and only if deleting these was not enough: over all
\* starts, stops, crashes and restarts the index in a name tells a file's age,
\* for any limits and any device.
THEOREM OldestAreFirst == FilesSpec => OldestFirst
<1> DEFINE A == \A i \in Indexes : ~Survives(i) => RightToDelete(i)
<1>1. ASSUME FilesInv, [FilesNext]_filesVars PROVE [A]_filesVars
  <2> SUFFICES ASSUME NEW i \in Indexes, ~Survives(i), FilesNext PROVE RightToDelete(i)
    BY <1>1
  <2>1. ASSUME NEW l \in Loggers, NEW D \in SUBSET Indexes, NEW measured \in {TRUE, ~StatFails},
               DeleteOldLogs(D, measured), Start(l, D)
        PROVE  RightToDelete(i)
    BY <1>1, <2>1, StartDeletes, Zenon
  <2>2. ASSUME NEW l \in Loggers, NEW unit \in Device, Write(l, unit) PROVE RightToDelete(i)
    BY <1>1, <2>2, WriteKeeps, OnlyStartDeletes
  <2>3. ASSUME NEW l \in Loggers, Stop(l) PROVE RightToDelete(i)
    BY <1>1, <2>3, StopKeeps, OnlyStartDeletes
  <2>4. CASE Crash
    BY <1>1, <2>4, CrashKeeps, OnlyStartDeletes
  <2>5. CASE MarkUnfinishedLogs
    BY <1>1, <2>5, MarkKeeps, OnlyStartDeletes
  <2>. QED BY <2>1, <2>2, <2>3, <2>4, <2>5, Zenon DEF FilesNext
<1>2. FilesInv /\ [FilesNext]_filesVars => [A]_filesVars
  BY <1>1
<1>3. FilesSpec => []FilesInv
  BY FilesInitially, FilesInductive, PTL DEF FilesSpec
<1>. QED BY <1>2, <1>3, PTL DEF FilesSpec, OldestFirst, RightToDelete
=============================================================================
