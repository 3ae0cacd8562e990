----------------------------- MODULE RxFraming -----------------------------
(***************************************************************************)
(* Endpoint::read_msg and the loop of handle_read around it, on a byte     *)
(* stream (UART, TCP): finding the start of a packet, waiting for the rest *)
(* of it, the checksum, and the bytes left behind for the next call.       *)
(*                                                                         *)
(* The peer's packets are numbered.  A byte is <<p, k>>, the k-th byte of  *)
(* packet p; byte 1 is the start marker, and no other byte looks like one. *)
(* A packet is "ok"; "unknown" when its message id is in no dialect, so    *)
(* that its checksum is not verified; "bad" when its checksum is wrong;    *)
(* "cut" when its last byte was lost on the way; "tail" when its marker    *)
(* was lost.                                                               *)
(*                                                                         *)
(* What the buffer holds survives what happens to the link: a TCP          *)
(* connection that is established again, a UART that tries its next baud   *)
(* rate.  Both lose the bytes in the kernel.                               *)
(***************************************************************************)
EXTENDS Naturals, Sequences

CONSTANTS
    Sizes,        \* expected_size of packets
    Classes,      \* the kinds of packets the peer sends
    HdrLen,       \* sizeof(*hdr)
    MaxPacket,    \* MAVLINK_MAX_PACKET_LEN
    BufMax,       \* RX_BUF_MAX_SIZE
    Kinds,        \* the kinds of link: "tcp", "uart"
    Bauds,        \* _baudrates.size()
    MaxPackets,   \* bound on the packets sent
    MaxBreaks,    \* bound on reconnections and changes of the baud rate
    MaxKernel     \* bound on the bytes waiting in the kernel

ASSUME RxFramingAssumption ==
    /\ HdrLen \in Nat \ {0} /\ MaxPacket \in Nat \ {0} /\ BufMax \in Nat
    /\ MaxPackets \in Nat /\ MaxKernel \in Nat /\ MaxBreaks \in Nat
    /\ Kinds \subseteq {"tcp", "uart"} /\ Bauds \in Nat \ {0}
    /\ Sizes \subseteq (HdrLen + 1)..MaxPacket
    /\ Classes \subseteq {"ok", "unknown", "bad", "cut", "tail"}
    /\ MaxPacket < BufMax

VARIABLES
    packets,          \* the packets sent: [size, class]
    kernel,           \* bytes the kernel holds
    rx_buf,
    last_packet_len,  \* _last_packet_len
    reading,          \* handle_read is in its loop
    routed,           \* history: the packets handed to the router
    kind,             \* the kind of link
    peer_baud,        \* index of the rate the peer uses (external)
    current_baud_idx, \* _current_baud_idx
    baud_timer,       \* _change_baud_timeout is running
    breaks,           \* number of reconnections and changes of the rate
    behind            \* history: the rate changed with bytes left behind in rx_buf

baudVars == <<kind, peer_baud, current_baud_idx, breaks, behind>>

vars == <<packets, kernel, rx_buf, last_packet_len, reading, routed, baud_timer, baudVars>>

Byte(p, k) == <<p, k>>

IsStx(b) == b[2] = 1

Init ==
    /\ packets = <<>> /\ kernel = <<>> /\ rx_buf = <<>>
    /\ last_packet_len = 0
    /\ reading = FALSE
    /\ routed = <<>>
    /\ kind \in Kinds
    /\ peer_baud \in IF kind = "uart" THEN 0..(Bauds - 1) ELSE {0}
    /\ current_baud_idx = 0
    /\ baud_timer = (kind = "uart")
    /\ breaks = 0 /\ behind = FALSE

\* The bytes of packet p that arrive.
Bytes(p, size, class) ==
    CASE class = "cut"  -> [k \in 1..(size - 1) |-> Byte(p, k)]
      [] class = "tail" -> [k \in 1..(size - 1) |-> Byte(p, k + 1)]
      [] OTHER          -> [k \in 1..size |-> Byte(p, k)]

\* The peer.  At another rate its packets are noise, which at best looks like a
\* packet of no dialect.
Send(size, class) ==
    LET bytes == Bytes(Len(packets) + 1, size, class)
    IN  /\ Len(packets) < MaxPackets
        /\ kind = "uart" /\ current_baud_idx # peer_baud =>
              class \in {"bad", "tail", "unknown"}
        /\ Len(kernel) + Len(bytes) <= MaxKernel
        /\ packets' = Append(packets, [size |-> size, class |-> class])
        /\ kernel' = kernel \o bytes
        /\ UNCHANGED <<rx_buf, last_packet_len, reading, routed, baud_timer, baudVars>>

\* EPOLLIN: handle_read enters its loop.
HandleRead ==
    /\ ~reading /\ kernel # <<>>
    /\ reading' = TRUE
    /\ UNCHANGED <<packets, kernel, rx_buf, last_packet_len, routed, baud_timer, baudVars>>

\* expected_size of the packet the buffer starts with.
ExpectedSize(buf) == packets[buf[1][1]].size

\* Mutant: one byte more than the packet's size is awaited.
CompleteLate(buf) == Len(buf) >= HdrLen /\ Len(buf) > ExpectedSize(buf)

Complete(buf) == Len(buf) >= HdrLen /\ Len(buf) >= ExpectedSize(buf)

\* Mutant: a buffer without a marker at its start is dropped.
SkipsAll(bytes, s) == s = IF bytes # <<>> /\ IsStx(bytes[1]) THEN 0 ELSE Len(bytes)

\* The s bytes before the first start marker are skipped; all, if there is none.
Skips(bytes, s) ==
    /\ \A k \in 1..s : ~IsStx(bytes[k])
    /\ s < Len(bytes) => IsStx(bytes[s + 1])

\* Mutant: the checksum is verified for no packet.
CheckCrcNever(buf) == TRUE

\* _check_crc, and its omission for an unknown message id.
CheckCrc(buf) ==
    LET p == buf[1][1]
    IN  /\ packets[p].class \in {"ok", "unknown"}
        /\ \A k \in 1..ExpectedSize(buf) : buf[k] = Byte(p, k)

\* Mutant: any packet ends the search for the baud rate.
KeepsBaudAny(buf) == CheckCrc(buf)

\* UartEndpoint::read_msg keeps the rate at which a known packet was read.
KeepsBaud(buf) == CheckCrc(buf) /\ packets[buf[1][1]].class = "ok"

\* read_msg on a buffer that starts with a marker, or is empty: nothing
\* complete, a wrong checksum, or a packet.
Parse(buf) ==
    /\ rx_buf' = buf
    /\ IF buf = <<>> \/ ~Complete(buf)
       THEN last_packet_len' = 0 /\ reading' = FALSE /\ UNCHANGED <<routed, baud_timer>>
       ELSE /\ last_packet_len' = ExpectedSize(buf)
            /\ baud_timer' = (baud_timer /\ ~KeepsBaud(buf))
            /\ IF CheckCrc(buf)
               THEN routed' = Append(routed, buf[1][1]) /\ UNCHANGED reading
               ELSE reading' = FALSE /\ UNCHANGED routed

\* read_msg once the bytes are in the buffer.
FindPacket(bytes) ==
    \E s \in 0..Len(bytes) : Skips(bytes, s) /\ Parse(SubSeq(bytes, s + 1, Len(bytes)))

\* Mutant: the bytes behind the last packet are not kept.
LeftBehindDropped(buf, n) == <<>>

LeftBehind(buf, n) == SubSeq(buf, n + 1, Len(buf))

\* read_msg after a packet: look at the bytes left behind, read no more.
ReadMsgNext ==
    /\ reading /\ last_packet_len # 0
    /\ FindPacket(LeftBehind(rx_buf, last_packet_len))
    /\ UNCHANGED <<packets, kernel, baudVars>>

\* read_msg otherwise: the kernel returns n bytes, or none.
ReadMsg(n) ==
    /\ reading /\ last_packet_len = 0
    /\ n <= Len(kernel) /\ Len(rx_buf) + n <= BufMax
    /\ IF n = 0
       THEN /\ kernel = <<>>
            /\ reading' = FALSE
            /\ UNCHANGED <<kernel, rx_buf, last_packet_len, routed, baud_timer>>
       ELSE /\ kernel' = SubSeq(kernel, n + 1, Len(kernel))
            /\ FindPacket(rx_buf \o SubSeq(kernel, 1, n))
    /\ UNCHANGED <<packets, baudVars>>

\* The bytes in the kernel are lost, and with them the end of their packets.
LoseKernel ==
    /\ ~reading /\ breaks < MaxBreaks
    /\ breaks' = breaks + 1
    /\ kernel' = <<>>
    /\ packets' = [p \in 1..Len(packets) |->
           IF \E i \in 1..Len(kernel) : kernel[i][1] = p
           THEN [size |-> packets[p].size, class |-> "cut"] ELSE packets[p]]
    /\ UNCHANGED <<rx_buf, last_packet_len, reading, routed, kind, peer_baud, baud_timer>>

\* A TCP connection ends and is established again.
Reconnect ==
    /\ kind = "tcp"
    /\ LoseKernel
    /\ UNCHANGED <<current_baud_idx, behind>>

\* UartEndpoint::_change_baud_cb; set_speed flushes the line.
ChangeBaud ==
    /\ kind = "uart" /\ baud_timer
    /\ LoseKernel
    /\ current_baud_idx' = (current_baud_idx + 1) % Bauds
    /\ behind' = (behind \/ last_packet_len \in 1..(Len(rx_buf) - 1))

Next ==
    \/ \E size \in Sizes, class \in Classes : Send(size, class)
    \/ Reconnect
    \/ ChangeBaud
    \/ HandleRead
    \/ ReadMsgNext
    \/ \E n \in 0..BufMax : ReadMsg(n)

Spec == Init /\ [][Next]_vars

\* The loop goes on, and epoll reports what the kernel holds (level-triggered).
Fairness == WF_vars(HandleRead) /\ WF_vars(ReadMsgNext) /\ WF_vars(\E n \in 0..BufMax : ReadMsg(n))

FairSpec == Spec /\ Fairness

-----------------------------------------------------------------------------
TypeOK ==
    /\ packets \in Seq([size : Sizes, class : Classes \cup {"cut"}])
    /\ kernel \in Seq((1..Len(packets)) \X (1..MaxPacket))
    /\ rx_buf \in Seq((1..Len(packets)) \X (1..MaxPacket))
    /\ Len(rx_buf) <= BufMax
    /\ last_packet_len \in 0..Len(rx_buf)
    /\ reading \in BOOLEAN
    /\ routed \in Seq(1..Len(packets))

\* Whenever read_msg asks the kernel for bytes there is room for some in the
\* buffer: a read of length zero would look like the end of a TCP connection.
Room == last_packet_len = 0 => Len(rx_buf) < MaxPacket

\* Packets are routed in the order they were sent, none twice, and none that was
\* damaged, wherever the reads split the stream.
InOrder ==
    /\ \A i, j \in 1..Len(routed) : i < j => routed[i] < routed[j]
    /\ \A i \in 1..Len(routed) : packets[routed[i]].class \in {"ok", "unknown"}

\* The bytes that arrived of packet q, and of the packets 1 to q.
ArrivedOf(pk, q) == Len(Bytes(q, pk[q].size, pk[q].class))

ArrivedTo(pk) ==
    LET f[q \in 0..Len(pk)] == IF q = 0 THEN 0 ELSE f[q - 1] + ArrivedOf(pk, q)
    IN  f

\* Number of bytes that arrived between packets c and p.
BytesBetween(c, p) == ArrivedTo(packets)[p - 1] - ArrivedTo(packets)[c]

\* The router finds its way back after damage, also when a link breaks within a
\* packet: a whole packet that was passed over begins less than a packet's
\* length behind one that lost its end, which took its marker.
LossIsLocal ==
    \A p \in 1..Len(packets) :
        /\ packets[p].class \in {"ok", "unknown"}
        /\ \E i \in 1..Len(routed) : routed[i] > p
        /\ ~\E i \in 1..Len(routed) : routed[i] = p
        => \E c \in 1..(p - 1) : packets[c].class = "cut" /\ BytesBetween(c, p) < MaxPacket - 1

\* Up to the first damage on the link every packet is routed, with no help from
\* later bytes: nothing whole waits in the buffer for another event.  A link that
\* breaks may still lose what the kernel holds.
AllRouted ==
    \A p \in 1..MaxPackets :
        /\ p \in 1..Len(packets)
        /\ \A q \in 1..p : packets[q].class \in {"ok", "unknown"}
        ~> \/ \E i \in 1..Len(routed) : routed[i] = p
           \/ \E q \in 1..Len(packets) : q <= p /\ packets[q].class = "cut"

\* A UART stays at the peer's rate: only there a known packet can be read, and
\* the first one ends the search.  The exception: a packet with a wrong checksum
\* leaves what follows it in the buffer, the rate changes, and the packet found
\* there next is taken for an answer at the new rate.
BaudIsRight ==
    kind = "uart" /\ ~baud_timer /\ ~behind => current_baud_idx = peer_baud
=============================================================================
