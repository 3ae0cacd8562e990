------------------------------- MODULE TxPath -------------------------------
(***************************************************************************)
(* The way of a message from Mainloop::write_msg to the kernel: the tx     *)
(* buffer of a UART, UDP or TCP client endpoint, the coalescing timer of   *)
(* UDP and TCP, and the EPOLLOUT event that resumes a blocked write.       *)
(* A UDP endpoint sends to its peer: the one it heard last, or the         *)
(* configured address.                                                     *)
(*                                                                         *)
(* A message is a number and has a size in units; unit <<m, i>> is the     *)
(* i-th one of message m.  A write to a stream may take any prefix of the  *)
(* buffer, a datagram goes out as a whole.                                 *)
(***************************************************************************)
EXTENDS Naturals, Sequences, FiniteSets

CONSTANTS
    Kinds,           \* the kinds of endpoint: "uart", "udp", "tcp"
    CoalesceSizes,   \* the values of CoalesceBytes, 0 if coalescing is off
    TxBufMax,        \* TX_BUF_MAX_SIZE
    Sizes,           \* the message sizes in play
    Errors,          \* BOOLEAN: do writes fail with other errors than EAGAIN?
    Modes,           \* the modes of a UDP endpoint: "client", "server", "receiver"
    Senders,         \* the addresses a UDP endpoint hears from
    MaxMsgs,         \* bound: number of messages in a behaviour
    MaxHeard         \* bound: number of datagrams received

ASSUME TxPathAssumption ==
    /\ Kinds \subseteq {"uart", "udp", "tcp"}
    /\ CoalesceSizes \subseteq Nat /\ TxBufMax \in Nat /\ MaxMsgs \in Nat
    /\ Sizes \subseteq Nat \ {0}
    /\ Errors \in BOOLEAN
    /\ Modes \subseteq {"client", "server", "receiver"}
    /\ {"none", "configured"} \cap Senders = {} /\ MaxHeard \in Nat

VARIABLES
    kind,             \* the class of the endpoint
    coalesce_bytes,   \* _coalesce_bytes
    mode,        \* _mode of a UDP endpoint
    peer,        \* sockaddr: where a UDP endpoint sends to
    nomessage,   \* nomessage_timeout is running
    heard,       \* number of datagrams received
    open,        \* fd >= 0
    tx,          \* tx_buf, a sequence of units
    scheduled,   \* _write_scheduled: the coalescing timer runs
    epollout,    \* EPOLLOUT is armed
    sizes,       \* history: the sizes of the messages given to write_msg
    refused,     \* history: the messages write_msg answered with -ENOBUFS
    lost,        \* history: the messages a failed write threw away
    written,     \* history: how many units of a message the kernel took
    cursor       \* history: the last unit the kernel took on this connection

config == <<kind, coalesce_bytes, mode>>

peerVars == <<peer, nomessage, heard>>

vars == <<config, peerVars, open, tx, scheduled, epollout, sizes, refused, lost, written, cursor>>

Messages == 1..MaxMsgs

Units(m, size) == [i \in 1..size |-> <<m, i>>]

MsgsOf(t) == {t[k][1] : k \in 1..Len(t)}

-----------------------------------------------------------------------------
\* UdpEndpoint::_has_peer: the port is set.
HasPeer == peer # "none"

\* UdpEndpoint::open: a client sends to the configured address, a bound socket
\* has no peer yet.
Opened(m) == IF m = "client" THEN "configured" ELSE "none"

\* UdpEndpoint::accept_msg, before the rules common to all endpoints.
Accepts == kind = "udp" => mode # "receiver" /\ HasPeer

\* What a write system call can do with n > 0 units.
Writes(n) ==
    {[r |-> "wrote", n |-> k] : k \in IF kind = "udp" THEN {n} ELSE 1..n}
    \cup {[r |-> "EAGAIN", n |-> 0]}
    \cup (IF Errors THEN {[r |-> "error", n |-> 0]} ELSE {})
    \cup (IF Errors /\ kind = "tcp" THEN {[r |-> "EPIPE", n |-> 0]} ELSE {})

Nothing == [r |-> "zero", n |-> 0]

NoOneToWriteFor == [r |-> "no peer", n |-> 0]

\* The results of flush_pending_msgs on the buffer t.
Flushes(t, isOpen) ==
    IF t = <<>> \/ ~isOpen THEN {Nothing}
    ELSE IF kind = "udp" /\ ~HasPeer THEN {NoOneToWriteFor}
    ELSE Writes(Len(t))

Fails(f) == f.r \in {"error", "EPIPE"}

\* The buffer is emptied without a write.
Drops(f) == Fails(f) \/ f = NoOneToWriteFor

\* The buffer that flush_pending_msgs leaves.
After(t, f) == IF Drops(f) THEN <<>> ELSE SubSeq(t, f.n + 1, Len(t))

\* The histories, when the buffer t was flushed with result f.
Count(w, t, f) == [m \in Messages |-> w[m] + Cardinality({k \in 1..f.n : t[k][1] = m})]

Cursor(c, t, f) == IF f.n = 0 THEN c ELSE t[f.n]

Lost(t, f) == IF Fails(f) THEN MsgsOf(t) ELSE {}

\* What write_msg returns: UartEndpoint reports a short write as -EAGAIN.
WriteReturn(f, t) == IF kind = "uart" /\ f.r = "wrote" /\ t # <<>> THEN "EAGAIN" ELSE f.r

\* Mainloop::write_msg arms EPOLLOUT; a new or closed fd has it disarmed.
Arm(ret, isOpen) == isOpen /\ (epollout \/ ret \in {"EAGAIN", "ENOBUFS"})

-----------------------------------------------------------------------------
\* Uarts do not coalesce.
Init ==
    /\ kind \in Kinds
    /\ coalesce_bytes \in (IF kind = "uart" THEN {0} ELSE CoalesceSizes)
    /\ mode \in (IF kind = "udp" THEN Modes ELSE {"none"})
    /\ peer = Opened(mode)
    /\ nomessage = FALSE
    /\ heard = 0
    /\ open = TRUE
    /\ tx = <<>>
    /\ scheduled = FALSE
    /\ epollout = FALSE
    /\ sizes = <<>>
    /\ refused = {}
    /\ lost = {}
    /\ written = [m \in Messages |-> 0]
    /\ cursor = <<0, 0>>

\* The buffer is flushed first if the new message does not fit the coalescence.
MustFlushFirst(size) == kind # "uart" /\ tx # <<>> /\ Len(tx) + size > coalesce_bytes

SendsAtOnce(size, nodelay) ==
    kind = "uart" \/ coalesce_bytes = 0 \/ nodelay \/ size > coalesce_bytes

\* Does the buffer take the message?
Fits(t, size) == Len(t) + size <= TxBufMax

\* The message does not fit any more after the flush f.
WriteFull(size, f, isOpen) ==
    /\ ~Fits(After(tx, f), size)
    /\ tx' = After(tx, f)
    /\ scheduled' = (scheduled /\ ~MustFlushFirst(size))
    /\ epollout' = Arm("ENOBUFS", isOpen)
    /\ refused' = refused \cup {Len(sizes) + 1}
    /\ open' = isOpen
    /\ lost' = lost \cup Lost(tx, f)
    /\ written' = Count(written, tx, f)
    /\ cursor' = Cursor(cursor, tx, f)

\* The message is appended and the buffer flushed.
WriteThrough(size, nodelay, f, isOpen) ==
    LET t == After(tx, f) \o Units(Len(sizes) + 1, size)
    IN  /\ Fits(After(tx, f), size)
        /\ SendsAtOnce(size, nodelay)
        /\ \E g \in Flushes(t, isOpen) :
              /\ tx' = After(t, g)
              /\ open' = (isOpen /\ g.r # "EPIPE")
              /\ epollout' = Arm(WriteReturn(g, After(t, g)), open')
              /\ lost' = lost \cup Lost(tx, f) \cup Lost(t, g)
              /\ written' = Count(Count(written, tx, f), t, g)
              /\ cursor' = Cursor(Cursor(cursor, tx, f), t, g)
        /\ scheduled' = FALSE
        /\ UNCHANGED refused

\* The message is appended and waits for the coalescing timer.
WriteCoalesced(size, nodelay, f, isOpen) ==
    LET t == After(tx, f) \o Units(Len(sizes) + 1, size)
    IN  /\ Fits(After(tx, f), size)
        /\ ~SendsAtOnce(size, nodelay)
        /\ tx' = t
        /\ scheduled' = TRUE
        /\ open' = isOpen
        /\ epollout' = (isOpen /\ epollout)
        /\ lost' = lost \cup Lost(tx, f)
        /\ written' = Count(written, tx, f)
        /\ cursor' = Cursor(cursor, tx, f)
        /\ UNCHANGED refused

\* Mainloop::write_msg for the next message; f is the flush that makes room.
WriteMsg(size, nodelay) ==
    /\ Len(sizes) < MaxMsgs
    /\ open /\ Accepts
    /\ sizes' = Append(sizes, size)
    /\ \E f \in IF MustFlushFirst(size) THEN Flushes(tx, open) ELSE {Nothing} :
          \/ WriteFull(size, f, f.r # "EPIPE")
          \/ WriteThrough(size, nodelay, f, f.r # "EPIPE")
          \/ WriteCoalesced(size, nodelay, f, f.r # "EPIPE")
    /\ UNCHANGED <<config, peerVars>>

Flushed(f) ==
    /\ tx' = After(tx, f)
    /\ open' = (open /\ f.r # "EPIPE")
    /\ scheduled' = FALSE
    /\ lost' = lost \cup Lost(tx, f)
    /\ written' = Count(written, tx, f)
    /\ cursor' = Cursor(cursor, tx, f)
    /\ UNCHANGED <<config, peerVars, sizes, refused>>

\* The coalescing timer: flush_pending_msgs, its result ignored.
CoalesceTimeout ==
    /\ scheduled
    /\ \E f \in Flushes(tx, open) :
          /\ Flushed(f)
          /\ epollout' = (epollout /\ open')

\* Mutant: a short write counts as done.
KeepsEpolloutEagain(f, t) == f.r = "EAGAIN"

\* Endpoint::handle_canwrite.
KeepsEpollout(f, t) == f.r = "EAGAIN" \/ (f.r = "wrote" /\ t # <<>>)

\* EPOLLOUT is reported and handle_canwrite flushes.
CanWrite(f) ==
    /\ open /\ epollout
    /\ Flushed(f)
    /\ epollout' = (open' /\ KeepsEpollout(f, tx'))

\* Mutant: the tx buffer survives the connection.
ClosedKeepsTx == UNCHANGED <<tx, lost>>

Closed ==
    /\ tx' = <<>>
    /\ lost' = lost \cup MsgsOf(tx)

\* TcpEndpoint::_read_msg sees the end of the stream: close.
Hangup ==
    /\ kind = "tcp" /\ Errors /\ open
    /\ open' = FALSE
    /\ Closed
    /\ epollout' = FALSE
    /\ UNCHANGED <<config, peerVars, scheduled, sizes, refused, written, cursor>>

\* TcpEndpoint::_retry_timeout_cb succeeds.
Reconnect ==
    /\ kind = "tcp" /\ ~open
    /\ open' = TRUE
    /\ epollout' = FALSE
    /\ cursor' = <<0, 0>>
    /\ UNCHANGED <<config, peerVars, tx, scheduled, sizes, refused, lost, written>>

\* Mutant: a server's timer is started as well.
StartsTimeoutAlways == TRUE

\* Only a client has a nomessage_timeout, which a datagram starts again.
StartsTimeout == mode = "client"

\* UdpEndpoint::_read_msg: recvfrom stores the sender where messages go to.
HandleDatagram(from) ==
    /\ kind = "udp" /\ heard < MaxHeard
    /\ heard' = heard + 1
    /\ peer' = from
    /\ nomessage' = (nomessage \/ StartsTimeout)
    /\ UNCHANGED <<config, open, tx, scheduled, epollout, sizes, refused, lost, written, cursor>>

\* Mutant: the timer is stopped and nothing else.
NomessageTimeoutStops ==
    /\ nomessage
    /\ nomessage' = FALSE
    /\ UNCHANGED <<config, peer, heard, open, tx, scheduled, epollout, sizes, refused, lost,
                   written, cursor>>

\* UdpEndpoint::_nomessage_timeout_cb: back to the address of the configuration.
NomessageTimeout ==
    /\ nomessage
    /\ nomessage' = FALSE
    /\ peer' = Opened(mode)
    /\ UNCHANGED <<config, heard, open, tx, scheduled, epollout, sizes, refused, lost, written,
                   cursor>>

Next ==
    \/ \E from \in Senders \cup {"configured"} : HandleDatagram(from)
    \/ NomessageTimeout
    \/ \E size \in Sizes, nodelay \in BOOLEAN : WriteMsg(size, nodelay)
    \/ CoalesceTimeout
    \/ \E f \in Flushes(tx, open) : CanWrite(f)
    \/ Hangup
    \/ Reconnect

\* Timers fire, and a link with EPOLLOUT armed takes some data again and again.
Fairness ==
    /\ WF_vars(CoalesceTimeout)
    /\ WF_vars(NomessageTimeout)
    /\ WF_vars(Reconnect)
    /\ SF_vars(\E f \in Flushes(tx, open) : f.r = "wrote" /\ CanWrite(f))

Spec == Init /\ [][Next]_vars

FairSpec == Spec /\ Fairness

-----------------------------------------------------------------------------
\* v may follow u on the wire: the next unit of the same message, or the first
\* one of a later message after a whole message or one a failed write cut.
Follows(u, v) ==
    \/ v = <<u[1], u[2] + 1>>
    \/ /\ v[1] > u[1] /\ v[2] = 1
       /\ u[1] = 0 \/ u[1] \in lost \/ u[2] = sizes[u[1]]

\* What is buffered continues what the kernel has taken: messages leave in
\* order, never interleaved, and a new connection starts with a whole message.
\* It never exceeds TX_BUF_MAX_SIZE.
Framing ==
    LET stream == <<cursor>> \o tx
    IN  /\ \A k \in 1..Len(tx) : Follows(stream[k], stream[k + 1])
        /\ Len(tx) <= TxBufMax

\* Every unit of a message that was not lost is in the buffer or with the
\* kernel, once; no unit of a refused one is, so its caller may try it again.
\* In particular the peer of a UDP endpoint does not vanish while messages wait
\* for it, which would drop them silently.
Accounted ==
    \A m \in 1..Len(sizes) :
        m \notin lost =>
            written[m] + Cardinality({k \in 1..Len(tx) : tx[k][1] = m}) =
                IF m \in refused THEN 0 ELSE sizes[m]

\* The endpoints whose every short or busy write is reported to write_msg's caller.
Reports == kind = "uart" \/ (kind = "udp" /\ coalesce_bytes = 0)

\* On a UART, and on UDP without coalescing, no message stays in the buffer for
\* ever: whatever is left waiting has EPOLLOUT armed, over short and busy writes.
TxDrains == \A m \in Messages : Reports /\ m \in MsgsOf(tx) ~> m \notin MsgsOf(tx)

\* A UDP client whose peer fell silent sends to the configured address again.
BackToConfigured == mode = "client" /\ heard = MaxHeard ~> peer = "configured"
=============================================================================
