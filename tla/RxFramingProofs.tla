-------------------------- MODULE RxFramingProofs --------------------------
(***************************************************************************)
(* The receive buffer of RxFraming for any packet sizes, buffer size and   *)
(* way of splitting the stream: types, room for every read, the order of   *)
(* the packets, the baud rate found, and how far damage reaches.           *)
(***************************************************************************)
EXTENDS RxFraming, WellFoundedInduction, TLAPS

Stream == (1..Len(packets)) \X (1..MaxPacket)

Inv == TypeOK /\ Room

\* What the sequence operators return.

LEMMA LenIsNat ==
    ASSUME NEW S, NEW q \in Seq(S)
    PROVE  Len(q) \in Nat /\ q \in [1..Len(q) -> S]
  OBVIOUS

LEMMA ElementTyped ==
    ASSUME NEW S, NEW q \in Seq(S), NEW i \in 1..Len(q)
    PROVE  q[i] \in S
  OBVIOUS

LEMMA Concat ==
    ASSUME NEW S, NEW q \in Seq(S), NEW r \in Seq(S)
    PROVE  /\ q \o r \in Seq(S)
           /\ Len(q \o r) = Len(q) + Len(r)
           /\ \A i \in 1..(Len(q) + Len(r)) :
                 (q \o r)[i] = IF i <= Len(q) THEN q[i] ELSE r[i - Len(q)]
  OBVIOUS

LEMMA ConcatEmpty ==
    ASSUME NEW S, NEW q \in Seq(S)
    PROVE  q \o <<>> = q /\ <<>> \o q = q
  OBVIOUS

LEMMA ConcatTwice ==
    ASSUME NEW S, NEW q \in Seq(S), NEW r \in Seq(S), NEW s \in Seq(S)
    PROVE  (q \o r) \o s = q \o (r \o s)
  OBVIOUS

LEMMA NoElements ==
    ASSUME NEW S
    PROVE  <<>> \in Seq(S) /\ \A q \in Seq(S) : (q = <<>>) <=> (Len(q) = 0)
  OBVIOUS

LEMMA PartOfSeq ==
    ASSUME NEW S, NEW q \in Seq(S), NEW m \in 1..(Len(q) + 1), NEW n \in (m - 1)..Len(q)
    PROVE  /\ SubSeq(q, m, n) \in Seq(S)
           /\ Len(SubSeq(q, m, n)) = n - m + 1
           /\ \A i \in 1..(n - m + 1) : SubSeq(q, m, n)[i] = q[m + i - 1]
  OBVIOUS

LEMMA AllOfSeq ==
    ASSUME NEW S, NEW q \in Seq(S)
    PROVE  SubSeq(q, 1, Len(q)) = q
  OBVIOUS

LEMMA PartsJoin ==
    ASSUME NEW S, NEW q \in Seq(S), NEW i \in 1..(Len(q) + 1), NEW j \in (i - 1)..Len(q),
           NEW k \in j..Len(q)
    PROVE  SubSeq(q, i, j) \o SubSeq(q, j + 1, k) = SubSeq(q, i, k)
  OBVIOUS

LEMMA Appends ==
    ASSUME NEW S, NEW q \in Seq(S), NEW x \in S
    PROVE  /\ Append(q, x) \in Seq(S) /\ Append(q, x) # <<>>
           /\ Len(Append(q, x)) = Len(q) + 1
           /\ \A i \in 1..Len(q) : Append(q, x)[i] = q[i]
           /\ Append(q, x)[Len(q) + 1] = x
  OBVIOUS

LEMMA SeqIsFunction == \A S : Seq(S) = UNION {[1..n -> S] : n \in Nat}
  OBVIOUS

LEMMA SeqGrows ==
    ASSUME NEW S, NEW T, S \subseteq T
    PROVE  Seq(S) \subseteq Seq(T)
  OBVIOUS

LEMMA SameElements ==
    ASSUME NEW S, NEW q \in Seq(S), NEW r \in Seq(S),
           Len(q) = Len(r), \A i \in 1..Len(q) : q[i] = r[i]
    PROVE  q = r
  OBVIOUS

\* Dropping the first s elements of a sequence.
LEMMA Suffix ==
    ASSUME NEW S, NEW q \in Seq(S), NEW s \in 0..Len(q)
    PROVE  /\ SubSeq(q, s + 1, Len(q)) \in Seq(S)
           /\ Len(SubSeq(q, s + 1, Len(q))) = Len(q) - s
<1>1. Len(q) \in Nat /\ s + 1 \in 1..(Len(q) + 1)
  OBVIOUS
<1>2. \A i \in (s + 1)..Len(q) : q[i] \in S
  BY <1>1
<1>. QED BY <1>1, <1>2, PartOfSeq

\* Taking the first s elements of a sequence.
LEMMA Prefix ==
    ASSUME NEW S, NEW q \in Seq(S), NEW s \in 0..Len(q)
    PROVE  SubSeq(q, 1, s) \in Seq(S) /\ Len(SubSeq(q, 1, s)) = s
<1>1. Len(q) \in Nat /\ \A i \in 1..s : q[i] \in S
  OBVIOUS
<1>. QED BY <1>1, PartOfSeq

\* A packet sent is longer than a header and at most MaxPacket bytes long.
LEMMA PacketSize ==
    ASSUME TypeOK, NEW p \in 1..Len(packets)
    PROVE  packets[p].size \in 1..MaxPacket /\ HdrLen < MaxPacket
<1> DEFINE R == [size : Sizes, class : Classes \cup {"cut"}]
<1>1. packets \in Seq(R)
  BY DEF TypeOK
<1>. HIDE DEF R
<1>2. packets[p] \in R
  BY <1>1, ElementTyped
<1>3. packets[p].size \in Sizes
  BY <1>2 DEF R
<1>4. \A x \in Sizes : x \in (HdrLen + 1)..MaxPacket /\ HdrLen \in Nat /\ MaxPacket \in Nat
  BY RxFramingAssumption
<1>5. packets[p].size \in (HdrLen + 1)..MaxPacket /\ HdrLen \in Nat /\ MaxPacket \in Nat
  BY <1>3, <1>4
<1>. QED BY <1>5

\* read_msg on a buffer of at most BufMax bytes.
LEMMA ParseKeeps ==
    ASSUME TypeOK, NEW buf \in Seq(Stream), Len(buf) <= BufMax,
           reading = TRUE, Parse(buf), UNCHANGED packets, kernel' \in Seq(Stream)
    PROVE  Inv'
<1>1. rx_buf' = buf /\ Len(buf) \in Nat
  BY DEF Parse
<1>2. CASE buf = <<>>
  <2>1. last_packet_len' = 0 /\ reading' = FALSE /\ routed' = routed /\ Len(buf) = 0
    BY <1>2 DEF Parse
  <2>2. 0 \in 0..Len(buf)
    BY <1>1
  <2>3. Len(buf) < MaxPacket
    BY <2>1, RxFramingAssumption
  <2>. QED BY <1>1, <2>1, <2>2, <2>3, Zenon DEF TypeOK, Inv, Room, Stream
<1>3. CASE buf # <<>>
  <2>1. Len(buf) >= 1 /\ buf[1] \in Stream
    BY <1>1, <1>3, NoElements
  <2> DEFINE p == buf[1][1]
  <2>2. p \in 1..Len(packets) /\ ExpectedSize(buf) \in 1..MaxPacket
    BY <2>1, PacketSize DEF Stream, ExpectedSize
  <2>3. HdrLen < MaxPacket /\ HdrLen \in Nat /\ MaxPacket \in Nat
    BY <2>2, PacketSize, RxFramingAssumption
  <2>4. CASE ~Complete(buf)
    <3>1. last_packet_len' = 0 /\ reading' = FALSE /\ routed' = routed
      BY <2>4 DEF Parse
    <3>2. Len(buf) < MaxPacket
      BY <1>1, <2>2, <2>3, <2>4 DEF Complete
    <3>3. 0 \in 0..Len(buf)
      BY <1>1
    <3>. QED BY <1>1, <3>1, <3>2, <3>3, Zenon DEF TypeOK, Inv, Room, Stream
  <2>5. CASE Complete(buf)
    <3>1. last_packet_len' = ExpectedSize(buf) /\ ExpectedSize(buf) <= Len(buf)
      BY <1>3, <2>5, <1>1, <2>2, Zenon DEF Parse, Complete
    <3>2. last_packet_len' \in 1..Len(buf)
      BY <1>1, <2>2, <3>1
    <3>3. reading' \in BOOLEAN /\ routed' \in Seq(1..Len(packets))
      <4>1. routed \in Seq(1..Len(packets)) /\ Append(routed, p) \in Seq(1..Len(packets))
        BY <2>2 DEF TypeOK
      <4>. QED BY <1>3, <2>5, <4>1, Zenon DEF Parse
    <3>. QED BY <1>1, <3>2, <3>3 DEF TypeOK, Inv, Room, Stream
  <2>. QED BY <2>4, <2>5
<1>. QED BY <1>2, <1>3

\* read_msg skips bytes first.
LEMMA FindPacketKeeps ==
    ASSUME TypeOK, NEW bytes \in Seq(Stream), Len(bytes) <= BufMax,
           reading = TRUE, FindPacket(bytes), UNCHANGED packets, kernel' \in Seq(Stream)
    PROVE  Inv'
<1>1. PICK s \in 0..Len(bytes) : Parse(SubSeq(bytes, s + 1, Len(bytes)))
  BY DEF FindPacket
<1> DEFINE buf == SubSeq(bytes, s + 1, Len(bytes))
<1>2. buf \in Seq(Stream) /\ Len(buf) = Len(bytes) - s
  BY Suffix
<1>3. Len(buf) <= BufMax
  BY <1>2, RxFramingAssumption
<1>. QED BY <1>1, <1>2, <1>3, ParseKeeps, Zenon

\* A packet's bytes are bytes of the stream.
LEMMA SendKeeps ==
    ASSUME Inv, NEW size \in Sizes, NEW class \in Classes, Send(size, class)
    PROVE  Inv'
<1> DEFINE n == Len(packets)
           b == Bytes(n + 1, size, class)
           S == (1..(n + 1)) \X (1..MaxPacket)
<1>1. n \in Nat /\ size \in Nat /\ size >= 2 /\ size <= MaxPacket /\ MaxPacket \in Nat
  BY RxFramingAssumption DEF Inv, TypeOK
<1>2. b \in Seq(S)
  <2>1. \A k \in 1..size : Byte(n + 1, k) \in S
    BY <1>1 DEF Byte
  <2>2. CASE class = "cut"
    <3>1. \A k \in 1..(size - 1) : Byte(n + 1, k) \in S
      BY <1>1, <2>1
    <3>2. [k \in 1..(size - 1) |-> Byte(n + 1, k)] \in Seq(S)
      BY <1>1, <3>1, SeqIsFunction
    <3>. QED BY <2>2, <3>2 DEF Bytes
  <2>3. CASE class = "tail"
    <3>1. \A k \in 1..(size - 1) : Byte(n + 1, k + 1) \in S
      BY <1>1, <2>1
    <3>2. [k \in 1..(size - 1) |-> Byte(n + 1, k + 1)] \in Seq(S)
      BY <1>1, <3>1, SeqIsFunction
    <3>. QED BY <2>3, <3>2 DEF Bytes
  <2>4. CASE class # "cut" /\ class # "tail"
    <3>1. [k \in 1..size |-> Byte(n + 1, k)] \in Seq(S)
      BY <1>1, <2>1, SeqIsFunction
    <3>. QED BY <2>4, <3>1 DEF Bytes
  <2>. QED BY <2>2, <2>3, <2>4
<1>3. packets' \in Seq([size : Sizes, class : Classes \cup {"cut"}]) /\ Len(packets') = n + 1
  BY DEF Send, Inv, TypeOK
<1>4. \A q \in Seq(Stream) : q \in Seq(S)
  BY <1>1 DEF Stream
<1>5. kernel' \in Seq(S) /\ rx_buf' \in Seq(S)
  <2>1. kernel \in Seq(S) /\ rx_buf \in Seq(S)
    BY <1>4 DEF Inv, TypeOK, Stream
  <2>2. kernel \o b \in Seq(S)
    BY <1>2, <2>1, Concat
  <2>. QED BY <2>1, <2>2 DEF Send
<1>6. routed' \in Seq(1..(n + 1))
  BY <1>1 DEF Send, Inv, TypeOK
<1>. QED BY <1>3, <1>5, <1>6 DEF Send, Inv, TypeOK, Room

\* Losing the bytes in the kernel leaves the buffer as it is.
LEMMA LoseKernelKeeps ==
    ASSUME Inv, LoseKernel
    PROVE  Inv'
<1> DEFINE R == [size : Sizes, class : Classes \cup {"cut"}]
           n == Len(packets)
<1>1. packets \in Seq(R) /\ n \in Nat
  BY DEF Inv, TypeOK
<1>2. \A p \in 1..n : packets[p] \in R /\ [size |-> packets[p].size, class |-> "cut"] \in R
  <2>1. ASSUME NEW p \in 1..n PROVE packets[p] \in R
    <3>. HIDE DEF R
    <3>. QED BY <1>1, ElementTyped
  <2>. QED BY <2>1
<1>3. packets' \in [1..n -> R]
  BY <1>2 DEF LoseKernel
<1>4. packets' \in Seq(R) /\ Len(packets') = n
  <2>. HIDE DEF R
  <2>. QED BY <1>1, <1>3, SeqIsFunction
<1> DEFINE S == (1..n) \X (1..MaxPacket)
<1>5. /\ kernel' \in Seq(S) /\ rx_buf' \in Seq(S) /\ routed' \in Seq(1..n)
      /\ Len(rx_buf') <= BufMax /\ last_packet_len' \in 0..Len(rx_buf')
      /\ reading' \in BOOLEAN
  <2>1. rx_buf \in Seq(S) /\ routed \in Seq(1..n) /\ reading \in BOOLEAN
    BY DEF Inv, TypeOK
  <2>2. <<>> \in Seq(S)
    OBVIOUS
  <2>. HIDE DEF S
  <2>. QED BY <2>1, <2>2, Zenon DEF LoseKernel, Inv, TypeOK
<1>6. TypeOK'
  BY <1>4, <1>5, Zenon DEF TypeOK
<1>. QED BY <1>6, Zenon DEF LoseKernel, Inv, Room

LEMMA Inductive == Inv /\ [Next]_vars => Inv'
<1> SUFFICES ASSUME Inv, [Next]_vars PROVE Inv'
  OBVIOUS
<1>1. ASSUME NEW size \in Sizes, NEW class \in Classes, Send(size, class) PROVE Inv'
  BY <1>1, SendKeeps
<1>2. CASE HandleRead
  BY <1>2 DEF HandleRead, Inv, TypeOK, Room
<1>3. CASE ReadMsgNext
  <2> DEFINE left == SubSeq(rx_buf, last_packet_len + 1, Len(rx_buf))
  <2>1. left \in Seq(Stream) /\ Len(left) = Len(rx_buf) - last_packet_len
    BY Suffix DEF Inv, TypeOK, Stream
  <2>2. Len(left) <= BufMax
    BY <2>1, RxFramingAssumption DEF Inv, TypeOK
  <2>3. FindPacket(left) /\ reading = TRUE /\ packets' = packets /\ kernel' \in Seq(Stream)
    BY <1>3 DEF ReadMsgNext, LeftBehind, Inv, TypeOK, Stream
  <2>. QED BY <2>1, <2>2, <2>3, FindPacketKeeps, Zenon DEF Inv
<1>4. ASSUME NEW n \in 0..BufMax, ReadMsg(n) PROVE Inv'
  <2>1. CASE n = 0
    BY <1>4, <2>1, Zenon DEF ReadMsg, Inv, TypeOK, Room
  <2>2. CASE n # 0
    <3> DEFINE bytes == rx_buf \o SubSeq(kernel, 1, n)
    <3>1. n \in 0..Len(kernel) /\ kernel \in Seq(Stream) /\ rx_buf \in Seq(Stream)
      BY <1>4, RxFramingAssumption DEF ReadMsg, Inv, TypeOK, Stream
    <3>2. SubSeq(kernel, 1, n) \in Seq(Stream) /\ Len(SubSeq(kernel, 1, n)) = n
      BY <3>1, Prefix
    <3>3. bytes \in Seq(Stream) /\ Len(bytes) = Len(rx_buf) + n
      BY <3>1, <3>2, Concat
    <3>4. Len(bytes) <= BufMax
      BY <1>4, <3>3 DEF ReadMsg
    <3>5. kernel' \in Seq(Stream)
      BY <1>4, <2>2, <3>1, Suffix, Zenon DEF ReadMsg
    <3>6. FindPacket(bytes) /\ reading = TRUE /\ packets' = packets
      BY <1>4, <2>2 DEF ReadMsg, Inv, TypeOK
    <3>. QED BY <3>3, <3>4, <3>5, <3>6, FindPacketKeeps, Zenon DEF Inv
  <2>. QED BY <2>1, <2>2
<1>5. CASE Reconnect \/ ChangeBaud
  BY <1>5, LoseKernelKeeps DEF Reconnect, ChangeBaud
<1>6. CASE UNCHANGED vars
  BY <1>6 DEF vars, Inv, TypeOK, Room
<1>. QED BY <1>1, <1>2, <1>3, <1>4, <1>5, <1>6 DEF Next

\* read_msg never asks for zero bytes, and its buffer never holds a packet's
\* worth of bytes without a packet, however the stream was split or damaged.
THEOREM ReadsHaveRoom == Spec => [](TypeOK /\ Room)
<1>1. ASSUME Init PROVE Inv
  <2>1. Len(<<>>) = 0 /\ 0 < MaxPacket /\ 0 <= BufMax
    BY RxFramingAssumption
  <2>2. \A S : <<>> \in Seq(S)
    OBVIOUS
  <2>3. 0 \in 0..0
    OBVIOUS
  <2>4. TypeOK
    BY <1>1, <2>1, <2>2, <2>3, Zenon DEF Init, TypeOK
  <2>5. Room
    BY <1>1, <2>1 DEF Init, Room
  <2>. QED BY <2>4, <2>5 DEF Inv
<1>. QED BY <1>1, Inductive, PTL DEF Spec, Inv

-----------------------------------------------------------------------------
\* The order of the packets and the baud rate.  What is still to be parsed is the
\* buffer behind the last packet, then the kernel.
Unread == LeftBehind(rx_buf, last_packet_len) \o kernel

\* The bytes z of the packets pk come in order and without a hole within a
\* packet, and belong to packets behind the routed ones ro.
Flow(z, pk, ro) ==
    /\ z \in Seq(Nat \X Nat)
    /\ \A i \in 1..Len(z) : z[i][1] \in 1..Len(pk) /\ z[i][2] \in 1..pk[z[i][1]].size
    /\ \A i, j \in 1..Len(z) : i < j =>
          z[i][1] < z[j][1] \/ (z[i][1] = z[j][1] /\ z[j][2] = z[i][2] + (j - i))
    /\ \A i \in 1..Len(z), r \in 1..Len(ro) : ro[r] < z[i][1]

\* What read_msg left for more bytes starts with a marker and is incomplete.
Pending ==
    last_packet_len = 0 /\ rx_buf # <<>> => IsStx(rx_buf[1]) /\ Len(rx_buf) < ExpectedSize(rx_buf)

\* Byte i is the last one of a packet of a known dialect.
LastOk(z, i) == packets[z[i][1]].class = "ok" /\ z[i][2] = packets[z[i][1]].size

Searching == kind = "uart" /\ baud_timer /\ ~behind /\ current_baud_idx # peer_baud

\* buf has begun a packet that will swallow byte i.
Swallowed(buf, z, i) == buf # <<>> /\ i <= ExpectedSize(buf) /\ z[i][1] # z[1][1]

\* At a wrong rate, the end of a good packet is only found in the buffer, and the
\* damaged packet before it, which waits for more bytes, will swallow it.
Doomed ==
    Searching => \A i \in 1..Len(Unread) : LastOk(Unread, i) =>
                    last_packet_len = 0 /\ Swallowed(rx_buf, Unread, i)

FlowInv == Inv /\ Flow(Unread, packets, routed) /\ InOrder /\ Pending /\ Doomed /\ BaudIsRight

\* The elements behind the first s.
LEMMA SuffixElements ==
    ASSUME NEW S, NEW q \in Seq(S), NEW s \in 0..Len(q)
    PROVE  LET r == SubSeq(q, s + 1, Len(q))
           IN  /\ r \in Seq(S) /\ Len(r) = Len(q) - s
               /\ \A i \in 1..(Len(q) - s) : r[i] = q[s + i]
<1> DEFINE r == SubSeq(q, s + 1, Len(q))
<1>1. Len(q) \in Nat /\ s \in Nat /\ \A i \in (s + 1)..Len(q) : q[i] \in S
  BY ElementTyped
<1>2. \A i \in 1..(Len(q) - (s + 1) + 1) : r[i] = q[(s + 1) + i - 1]
  BY <1>1, PartOfSeq
<1>3. r \in Seq(S) /\ Len(r) = Len(q) - s
  BY Suffix
<1>4. ASSUME NEW i \in 1..(Len(q) - s) PROVE r[i] = q[s + i]
  <2>1. i \in 1..(Len(q) - (s + 1) + 1) /\ (s + 1) + i - 1 = s + i
    BY <1>1
  <2>. QED BY <1>2, <2>1
<1>. QED BY <1>3, <1>4

LEMMA FromZero == \A n \in Nat : \A x \in 0..n : x \in Nat
  OBVIOUS

LEMMA FlowTyped ==
    ASSUME NEW z, NEW pk, NEW ro, Flow(z, pk, ro)
    PROVE  z \in Seq(Nat \X Nat) /\ Len(z) \in Nat
<1>1. z \in Seq(Nat \X Nat)
  BY Zenon DEF Flow
<1>. QED BY <1>1, LenIsNat, Zenon

\* Dropping from the front commutes with appending at the end.
LEMMA SuffixConcat ==
    ASSUME NEW S, NEW q \in Seq(S), NEW k \in Seq(S), NEW s \in 0..Len(q)
    PROVE  /\ SubSeq(q, s + 1, Len(q)) \o k = SubSeq(q \o k, s + 1, Len(q \o k))
           /\ s \in 0..Len(q \o k)
<1> DEFINE r == SubSeq(q, s + 1, Len(q))
           z == q \o k
           y == SubSeq(z, s + 1, Len(z))
<1>1. Len(q) \in Nat /\ Len(k) \in Nat /\ s \in Nat
  OBVIOUS
<1>2. /\ z \in Seq(S) /\ Len(z) = Len(q) + Len(k)
      /\ \A i \in 1..(Len(q) + Len(k)) : z[i] = IF i <= Len(q) THEN q[i] ELSE k[i - Len(q)]
  BY Concat, Zenon
<1>3. r \in Seq(S) /\ Len(r) = Len(q) - s /\ \A i \in 1..(Len(q) - s) : r[i] = q[s + i]
  BY SuffixElements
<1> HIDE DEF r, z
<1>4. s \in 0..Len(z)
  BY <1>1, <1>2
<1>5. y \in Seq(S) /\ Len(y) = Len(z) - s /\ \A i \in 1..(Len(z) - s) : y[i] = z[s + i]
  BY <1>2, <1>4, SuffixElements
<1>6. /\ r \o k \in Seq(S) /\ Len(r \o k) = Len(r) + Len(k)
      /\ \A i \in 1..(Len(r) + Len(k)) : (r \o k)[i] = IF i <= Len(r) THEN r[i] ELSE k[i - Len(r)]
  BY <1>3, Concat, Zenon
<1> HIDE DEF y
<1>7. Len(r \o k) = Len(y)
  BY <1>1, <1>2, <1>3, <1>5, <1>6
<1>8. ASSUME NEW i \in 1..Len(r \o k) PROVE (r \o k)[i] = y[i]
  <2>1. i \in 1..(Len(z) - s) /\ s + i \in 1..(Len(q) + Len(k)) /\ i \in 1..(Len(r) + Len(k))
    BY <1>1, <1>2, <1>3, <1>6
  <2>2. y[i] = IF s + i <= Len(q) THEN q[s + i] ELSE k[(s + i) - Len(q)]
    BY <1>2, <1>5, <2>1
  <2>3. CASE i <= Len(r)
    <3>1. i \in 1..(Len(q) - s) /\ s + i <= Len(q)
      BY <1>1, <1>3, <2>1, <2>3
    <3>. QED BY <1>3, <1>6, <2>1, <2>2, <2>3, <3>1
  <2>4. CASE ~(i <= Len(r))
    <3>1. ~(s + i <= Len(q)) /\ (s + i) - Len(q) = i - Len(r)
      BY <1>1, <1>3, <2>1, <2>4
    <3>. QED BY <1>6, <2>1, <2>2, <2>4, <3>1
  <2>. QED BY <2>3, <2>4
<1>9. r \o k = y
  BY <1>5, <1>6, <1>7, <1>8, SameElements
<1>. QED BY <1>4, <1>9, Zenon DEF r, y, z

LEMMA FlowSuffix ==
    ASSUME NEW z, NEW pk, NEW ro, Flow(z, pk, ro), NEW s \in 0..Len(z)
    PROVE  Flow(SubSeq(z, s + 1, Len(z)), pk, ro)
<1> DEFINE y == SubSeq(z, s + 1, Len(z))
<1>1. z \in Seq(Nat \X Nat) /\ Len(z) \in Nat /\ s \in Nat
  <2>1. z \in Seq(Nat \X Nat) /\ Len(z) \in Nat
    BY FlowTyped, Zenon
  <2>. QED BY <2>1, FromZero, Zenon
<1>2. y \in Seq(Nat \X Nat) /\ Len(y) = Len(z) - s /\ \A i \in 1..(Len(z) - s) : y[i] = z[s + i]
  BY <1>1, SuffixElements, Zenon
<1> HIDE DEF y
<1>3. ASSUME NEW i \in 1..Len(y) PROVE y[i] = z[s + i] /\ s + i \in 1..Len(z)
  <2>1. i \in 1..(Len(z) - s) /\ s + i \in 1..Len(z)
    <3>1. Len(y) = Len(z) - s /\ i \in 1..Len(y)
      BY <1>2, Zenon
    <3>. QED BY <1>1, <3>1
  <2>. QED BY <1>2, <2>1, Zenon
<1>4. \A i, j \in 1..Len(y) : i < j =>
          y[i][1] < y[j][1] \/ (y[i][1] = y[j][1] /\ y[j][2] = y[i][2] + (j - i))
  <2> SUFFICES ASSUME NEW i \in 1..Len(y), NEW j \in 1..Len(y), i < j
               PROVE  y[i][1] < y[j][1] \/ (y[i][1] = y[j][1] /\ y[j][2] = y[i][2] + (j - i))
    OBVIOUS
  <2>1. s + i < s + j /\ (s + j) - (s + i) = j - i
    BY <1>1, <1>2
  <2>2. s + i \in 1..Len(z) /\ s + j \in 1..Len(z) /\ y[i] = z[s + i] /\ y[j] = z[s + j]
    BY <1>3
  <2>3. \/ z[s + i][1] < z[s + j][1]
        \/ z[s + i][1] = z[s + j][1] /\ z[s + j][2] = z[s + i][2] + ((s + j) - (s + i))
    BY <2>1, <2>2 DEF Flow
  <2>. QED BY <2>1, <2>2, <2>3
<1>5. /\ \A i \in 1..Len(y) : y[i][1] \in 1..Len(pk) /\ y[i][2] \in 1..pk[y[i][1]].size
      /\ \A i \in 1..Len(y), r \in 1..Len(ro) : ro[r] < y[i][1]
  BY <1>3, ZenonT(30) DEF Flow
<1>. QED BY <1>2, <1>4, <1>5, Zenon DEF Flow, y

\* What a buffer and the kernel hold, seen as one sequence.
IsJoin(z, q, k) ==
    /\ Len(z) = Len(q) + Len(k) /\ Len(q) \in Nat /\ Len(k) \in Nat /\ Len(z) \in Nat
    /\ \A i \in 1..Len(q) : i \in 1..Len(z) /\ z[i] = q[i]
    /\ \A i \in 1..Len(k) : Len(q) + i \in 1..Len(z) /\ z[Len(q) + i] = k[i]

LEMMA Joined ==
    ASSUME NEW S, NEW q \in Seq(S), NEW k \in Seq(S)
    PROVE  q \o k \in Seq(S) /\ IsJoin(q \o k, q, k)
<1> DEFINE z == q \o k
<1>1. Len(q) \in Nat /\ Len(k) \in Nat
  OBVIOUS
<1>2. /\ z \in Seq(S) /\ Len(z) = Len(q) + Len(k)
      /\ \A i \in 1..(Len(q) + Len(k)) : z[i] = IF i <= Len(q) THEN q[i] ELSE k[i - Len(q)]
  BY Concat, Zenon
<1> HIDE DEF z
<1>3. ASSUME NEW i \in 1..Len(q) PROVE i \in 1..Len(z) /\ z[i] = q[i]
  <2>1. i \in 1..(Len(q) + Len(k)) /\ i <= Len(q)
    BY <1>1
  <2>. QED BY <1>2, <2>1
<1>4. ASSUME NEW i \in 1..Len(k) PROVE Len(q) + i \in 1..Len(z) /\ z[Len(q) + i] = k[i]
  <2>1. Len(q) + i \in 1..(Len(q) + Len(k)) /\ ~(Len(q) + i <= Len(q)) /\ (Len(q) + i) - Len(q) = i
    BY <1>1
  <2>. QED BY <1>2, <2>1
<1>5. Len(z) \in Nat
  BY <1>1, <1>2
<1>6. IsJoin(z, q, k)
  BY <1>1, <1>2, <1>3, <1>4, <1>5, Zenon DEF IsJoin
<1>. QED BY <1>2, <1>6, Zenon DEF z

LEMMA StreamIsNat == TypeOK => Seq(Stream) \subseteq Seq(Nat \X Nat)
<1> SUFFICES ASSUME TypeOK, NEW q \in Seq(Stream) PROVE q \in Seq(Nat \X Nat)
  OBVIOUS
<1>1. Stream \subseteq Nat \X Nat
  BY RxFramingAssumption DEF Stream
<1>. QED BY <1>1, SeqGrows

\* What is left to parse after read_msg on buf.
LEMMA ParseLeaves ==
    ASSUME TypeOK, NEW buf \in Seq(Stream), NEW k \in Seq(Stream), Parse(buf),
           kernel' = k, buf = <<>> \/ IsStx(buf[1])
    PROVE  LET z == buf \o k
               E == ExpectedSize(buf)
           IN  \/ /\ last_packet_len' = 0 /\ routed' = routed /\ baud_timer' = baud_timer
                  /\ Unread' = z
                  /\ buf # <<>> => Len(buf) < E
               \/ /\ buf # <<>> /\ last_packet_len' = E
                  /\ E \in 1..Len(buf) /\ E \in 0..Len(z)
                  /\ Unread' = SubSeq(z, E + 1, Len(z))
                  /\ baud_timer' = (baud_timer /\ ~KeepsBaud(buf))
                  /\ routed' = IF CheckCrc(buf) THEN Append(routed, buf[1][1]) ELSE routed
<1> DEFINE z == buf \o k
           E == ExpectedSize(buf)
<1>1. buf \in Seq(Nat \X Nat) /\ k \in Seq(Nat \X Nat) /\ Len(buf) \in Nat
  BY StreamIsNat
<1>2. Unread' = SubSeq(buf, last_packet_len' + 1, Len(buf)) \o k
  BY DEF Parse, Unread, LeftBehind
<1>3. ASSUME buf # <<>> PROVE E \in (HdrLen + 1)..MaxPacket /\ HdrLen \in Nat /\ MaxPacket \in Nat
  <2>1. buf[1] \in Stream
    BY <1>3, NoElements
  <2>2. buf[1][1] \in 1..Len(packets)
    BY <2>1 DEF Stream
  <2>3. packets[buf[1][1]].size \in Sizes
    <3> DEFINE R == [size : Sizes, class : Classes \cup {"cut"}]
    <3>1. packets \in Seq(R)
      BY DEF TypeOK
    <3>. HIDE DEF R
    <3>2. packets[buf[1][1]] \in R
      BY <2>2, <3>1, ElementTyped
    <3>. QED BY <3>2 DEF R
  <2>4. \A x \in Sizes : x \in (HdrLen + 1)..MaxPacket
    BY RxFramingAssumption
  <2>. QED BY <2>3, <2>4, RxFramingAssumption, Zenon DEF ExpectedSize
<1>4. CASE buf = <<>> \/ ~Complete(buf)
  <2>1. last_packet_len' = 0 /\ routed' = routed /\ baud_timer' = baud_timer
    BY <1>4 DEF Parse
  <2>2. Unread' = z
    <3>1. SubSeq(buf, 1, Len(buf)) = buf
      BY <1>1, AllOfSeq
    <3>2. Unread' = SubSeq(buf, 0 + 1, Len(buf)) \o k /\ 0 + 1 = 1
      BY <1>2, <2>1
    <3>. QED BY <3>1, <3>2, Zenon
  <2>3. buf # <<>> => Len(buf) < E
    <3> SUFFICES ASSUME buf # <<>> PROVE Len(buf) < E
      OBVIOUS
    <3>1. E \in (HdrLen + 1)..MaxPacket /\ HdrLen \in Nat /\ MaxPacket \in Nat
      BY <1>3, Zenon
    <3>2. ~(Len(buf) >= HdrLen /\ Len(buf) >= E)
      BY <1>4, Zenon DEF Complete
    <3> HIDE DEF E
    <3>. QED BY <1>1, <3>1, <3>2
  <2>. QED BY <2>1, <2>2, <2>3
<1>5. CASE ~(buf = <<>> \/ ~Complete(buf))
  <2>1. /\ last_packet_len' = E /\ buf # <<>>
        /\ baud_timer' = (baud_timer /\ ~KeepsBaud(buf))
        /\ routed' = IF CheckCrc(buf) THEN Append(routed, buf[1][1]) ELSE routed
    BY <1>5 DEF Parse
  <2>2. E \in 1..Len(buf) /\ E \in 0..Len(buf)
    <3>1. E \in (HdrLen + 1)..MaxPacket /\ HdrLen \in Nat /\ MaxPacket \in Nat
      BY <1>3, <1>5, Zenon
    <3>2. Len(buf) >= HdrLen /\ Len(buf) >= E
      BY <1>5, Zenon DEF Complete
    <3> HIDE DEF E
    <3>. QED BY <1>1, <3>1, <3>2
  <2>3. Unread' = SubSeq(z, E + 1, Len(z)) /\ E \in 0..Len(z)
    <3> HIDE DEF E
    <3>1. SubSeq(buf, E + 1, Len(buf)) \o k = SubSeq(z, E + 1, Len(z)) /\ E \in 0..Len(z)
      BY <1>1, <2>2, SuffixConcat, Zenon
    <3>. QED BY <1>2, <2>1, <3>1, Zenon
  <2>. QED BY <2>1, <2>2, <2>3
<1>. QED BY <1>4, <1>5, Zenon

\* A packet that passes _check_crc ends where its size says, so that nothing of
\* it is left.
LEMMA CheckedIsWhole ==
    ASSUME NEW buf, NEW z, Flow(z, packets, routed), buf # <<>>, CheckCrc(buf),
           ExpectedSize(buf) \in 1..Len(buf),
           \A i \in 1..Len(buf) : i \in 1..Len(z) /\ z[i] = buf[i]
    PROVE  LET p == buf[1][1]
               E == ExpectedSize(buf)
           IN  /\ p \in 1..Len(packets) /\ p \in Nat
               /\ E = packets[p].size /\ z[1][1] = p /\ z[E] = <<p, E>>
               /\ \A r \in 1..Len(routed) : routed[r] < p
               /\ \A i \in 1..Len(z) : i > E => p < z[i][1]
<1> DEFINE p == buf[1][1]
           E == ExpectedSize(buf)
<1>1. z \in Seq(Nat \X Nat) /\ Len(z) \in Nat
  BY FlowTyped, Zenon
<1>2. E \in 1..Len(buf) /\ 1 \in 1..Len(buf) /\ E = packets[p].size
  BY DEF ExpectedSize
<1>3. E \in 1..Len(z) /\ 1 \in 1..Len(z) /\ z[1] = buf[1] /\ z[E] = buf[E]
  BY <1>2
<1>4. buf[E] = <<p, E>>
  BY <1>2 DEF CheckCrc, Byte
<1>5. p \in 1..Len(packets) /\ \A r \in 1..Len(routed) : routed[r] < p
  BY <1>3 DEF Flow
<1> HIDE DEF E, p
<1>6. ASSUME NEW i \in 1..Len(z), i > E PROVE p < z[i][1]
  <2>1. z[E][1] = p /\ z[E][2] = E
    BY <1>3, <1>4
  <2>2. z[E][1] < z[i][1] \/ (z[E][1] = z[i][1] /\ z[i][2] = z[E][2] + (i - E))
    BY <1>3, <1>6, Zenon DEF Flow
  <2>3. z[i][2] \in 1..packets[z[i][1]].size
    BY DEF Flow
  <2>4. CASE z[E][1] = z[i][1] /\ z[i][2] = z[E][2] + (i - E)
    <3>1. z[i][2] \in 1..E /\ z[i][2] = E + (i - E)
      BY <1>2, <2>1, <2>3, <2>4, Zenon
    <3>. QED BY <1>1, <1>3, <1>6, <3>1
  <2>. QED BY <2>1, <2>2, <2>4
<1>7. p \in Nat /\ z[1][1] = p
  BY <1>3, <1>5 DEF p
<1>. QED BY <1>2, <1>3, <1>4, <1>5, <1>6, <1>7, Zenon DEF E, p

\* read_msg routes a packet behind the earlier ones and none of the damaged.
LEMMA ParseFlow ==
    ASSUME TypeOK, InOrder, NEW buf \in Seq(Stream), NEW k \in Seq(Stream), Parse(buf),
           kernel' = k, buf = <<>> \/ IsStx(buf[1]), UNCHANGED packets,
           Flow(buf \o k, packets, routed)
    PROVE  Flow(Unread, packets, routed)' /\ InOrder' /\ Pending'
<1> DEFINE z == buf \o k
           E == ExpectedSize(buf)
           p == buf[1][1]
<1>0. /\ buf \in Seq(Nat \X Nat) /\ k \in Seq(Nat \X Nat) /\ rx_buf' = buf
      /\ z \in Seq(Nat \X Nat) /\ Len(z) \in Nat /\ \A i \in 1..Len(buf) : i \in 1..Len(z) /\ z[i] = buf[i]
  <2>1. buf \in Seq(Nat \X Nat) /\ k \in Seq(Nat \X Nat) /\ rx_buf' = buf
    BY StreamIsNat DEF Parse
  <2>2. z \in Seq(Nat \X Nat) /\ IsJoin(z, buf, k)
    BY <2>1, Joined, Zenon
  <2>. QED BY <2>1, <2>2, Zenon DEF IsJoin
<1>1. CASE /\ last_packet_len' = 0 /\ routed' = routed /\ Unread' = z
           /\ buf # <<>> => Len(buf) < E
  <2>1. Flow(Unread, packets, routed)'
    BY <1>1, Zenon
  <2>2. InOrder'
    BY <1>1 DEF InOrder
  <2>3. Pending'
    BY <1>0, <1>1 DEF Pending, ExpectedSize
  <2>. QED BY <2>1, <2>2, <2>3
<1>2. CASE /\ buf # <<>> /\ last_packet_len' = E
           /\ E \in 1..Len(buf) /\ E \in 0..Len(z)
           /\ Unread' = SubSeq(z, E + 1, Len(z))
           /\ routed' = IF CheckCrc(buf) THEN Append(routed, p) ELSE routed
  <2> DEFINE y == SubSeq(z, E + 1, Len(z))
  <2>1. Flow(y, packets, routed)
    BY <1>2, FlowSuffix, Zenon
  <2>2. Pending'
    BY <1>2 DEF Pending
  <2>3. CASE ~CheckCrc(buf)
    <3>1. routed' = routed
      BY <1>2, <2>3
    <3>2. Flow(Unread, packets, routed)'
      BY <1>2, <2>1, <3>1, Zenon
    <3>3. InOrder'
      BY <3>1 DEF InOrder
    <3>. QED BY <2>2, <3>2, <3>3
  <2>4. CASE CheckCrc(buf)
    <3>1. /\ p \in 1..Len(packets) /\ p \in Nat
          /\ \A r \in 1..Len(routed) : routed[r] < p
          /\ \A i \in 1..Len(z) : i > E => p < z[i][1]
      BY <1>0, <1>2, <2>4, CheckedIsWhole, Zenon
    <3>2. /\ routed' = Append(routed, p) /\ Len(routed') = Len(routed) + 1
          /\ routed'[Len(routed) + 1] = p /\ \A r \in 1..Len(routed) : routed'[r] = routed[r]
          /\ Len(routed) \in Nat /\ \A r \in 1..Len(routed) : routed[r] \in Nat
      <4> HIDE DEF p
      <4>1. routed \in Seq(1..Len(packets)) /\ Len(routed) \in Nat /\ Len(packets) \in Nat
        BY DEF TypeOK
      <4>2. \A r \in 1..Len(routed) : routed[r] \in Nat
        BY <4>1
      <4>3. routed' = Append(routed, p)
        BY <1>2, <2>4
      <4>4. p \in 1..Len(packets)
        BY <3>1
      <4>5. /\ Len(Append(routed, p)) = Len(routed) + 1
            /\ Append(routed, p)[Len(routed) + 1] = p
            /\ \A r \in 1..Len(routed) : Append(routed, p)[r] = routed[r]
        BY <4>1, <4>4, Appends
      <4>. QED BY <4>1, <4>2, <4>3, <4>5, Zenon
    <3>3. /\ y \in Seq(Nat \X Nat) /\ Len(y) = Len(z) - E
          /\ \A i \in 1..(Len(z) - E) : y[i] = z[E + i]
      <4> HIDE DEF E, z
      <4>. QED BY <1>0, <1>2, SuffixElements, Zenon
    <3> HIDE DEF y, p, z, E
    <3>4. ASSUME NEW i \in 1..Len(y) PROVE p < y[i][1]
      <4>1. E \in Nat /\ i \in 1..(Len(z) - E) /\ E + i \in 1..Len(z) /\ E + i > E
        BY <1>0, <1>2, <3>3
      <4>. QED BY <3>1, <3>3, <4>1, Zenon
    <3>5. \A r \in 1..Len(routed') : r \in 1..Len(routed) \/ r = Len(routed) + 1
      BY <3>2
    <3>6. Flow(y, packets, routed')
      <4>1. ASSUME NEW i \in 1..Len(y), NEW r \in 1..Len(routed') PROVE routed'[r] < y[i][1]
        <5>1. CASE r \in 1..Len(routed)
          BY <2>1, <3>2, <5>1, Zenon DEF Flow
        <5>2. CASE r = Len(routed) + 1
          BY <3>2, <3>4, <5>2
        <5>. QED BY <3>5, <5>1, <5>2
      <4>. QED BY <2>1, <4>1 DEF Flow
    <3>7. Flow(Unread, packets, routed)'
      BY <1>2, <3>6, Zenon DEF y
    <3>8. packets[p].class \in {"ok", "unknown"}
      BY <2>4 DEF CheckCrc, p
    <3>9. InOrder'
      <4>1. ASSUME NEW i \in 1..Len(routed'), NEW j \in 1..Len(routed'), i < j
            PROVE  routed'[i] < routed'[j]
        <5>1. i \in 1..Len(routed)
          BY <3>2, <3>5, <4>1
        <5>2. CASE j \in 1..Len(routed)
          <6>1. routed[i] < routed[j]
            BY <4>1, <5>1, <5>2, Zenon DEF InOrder
          <6>. QED BY <3>2, <5>1, <5>2, <6>1, Zenon
        <5>3. CASE j = Len(routed) + 1
          BY <3>1, <3>2, <5>1, <5>3, Zenon
        <5>. QED BY <3>5, <5>2, <5>3
      <4>2. ASSUME NEW i \in 1..Len(routed')
            PROVE  packets'[routed'[i]].class \in {"ok", "unknown"}
        <5>1. CASE i \in 1..Len(routed)
          BY <3>2, <5>1, Zenon DEF InOrder
        <5>2. CASE i = Len(routed) + 1
          BY <3>2, <3>8, <5>2, Zenon
        <5>. QED BY <3>5, <5>1, <5>2
      <4>. QED BY <4>1, <4>2, Zenon DEF InOrder
    <3>. QED BY <2>2, <3>7, <3>9
  <2>. QED BY <2>3, <2>4
<1>. QED BY <1>1, <1>2, ParseLeaves

\* read_msg ends the search for the baud rate at the peer's rate only.
LEMMA ParseBaud ==
    ASSUME TypeOK, BaudIsRight, NEW buf \in Seq(Stream), NEW k \in Seq(Stream), Parse(buf),
           kernel' = k, buf = <<>> \/ IsStx(buf[1]), UNCHANGED <<packets, baudVars>>,
           Flow(buf \o k, packets, routed), baud_timer \in BOOLEAN,
           Searching => \A i \in 1..Len(buf \o k) :
                           LastOk(buf \o k, i) => Swallowed(buf, buf \o k, i)
    PROVE  Doomed' /\ BaudIsRight' /\ baud_timer' \in BOOLEAN
<1> DEFINE z == buf \o k
           E == ExpectedSize(buf)
<1>0. /\ buf \in Seq(Nat \X Nat) /\ k \in Seq(Nat \X Nat) /\ rx_buf' = buf
      /\ z \in Seq(Nat \X Nat) /\ Len(z) \in Nat
      /\ \A i \in 1..Len(buf) : i \in 1..Len(z) /\ z[i] = buf[i]
  <2>1. buf \in Seq(Nat \X Nat) /\ k \in Seq(Nat \X Nat) /\ rx_buf' = buf
    BY StreamIsNat DEF Parse
  <2>2. z \in Seq(Nat \X Nat) /\ IsJoin(z, buf, k)
    BY <2>1, Joined, Zenon
  <2>. QED BY <2>1, <2>2, Zenon DEF IsJoin
<1>u. UNCHANGED <<packets, kind, peer_baud, current_baud_idx, behind>>
  BY DEF baudVars
<1>1. CASE last_packet_len' = 0 /\ baud_timer' = baud_timer /\ Unread' = z
  <2>1. BaudIsRight' /\ baud_timer' \in BOOLEAN
    BY <1>1, <1>u DEF BaudIsRight
  <2>2. ASSUME Searching', NEW i \in 1..Len(z), LastOk(z, i)' PROVE Swallowed(buf, z, i)'
    <3>1. Searching /\ LastOk(z, i)
      BY <1>1, <1>u, <2>2 DEF Searching, LastOk
    <3>2. Swallowed(buf, z, i)
      BY <3>1
    <3>. QED BY <1>u, <3>2 DEF Swallowed, ExpectedSize
  <2> HIDE DEF z
  <2>3. Doomed'
    BY <1>0, <1>1, <2>2 DEF Doomed
  <2>. QED BY <2>1, <2>3
<1>2. CASE /\ buf # <<>> /\ last_packet_len' = E
           /\ E \in 1..Len(buf) /\ E \in 0..Len(z)
           /\ Unread' = SubSeq(z, E + 1, Len(z))
           /\ baud_timer' = (baud_timer /\ ~KeepsBaud(buf))
  <2>1. ASSUME KeepsBaud(buf) PROVE ~Searching
    <3>1. /\ E = packets[buf[1][1]].size /\ z[1][1] = buf[1][1] /\ z[E] = <<buf[1][1], E>>
      BY <1>0, <1>2, <2>1, CheckedIsWhole, ZenonT(30) DEF KeepsBaud
    <3>2. E \in 1..Len(z) /\ packets[buf[1][1]].class = "ok"
      BY <1>0, <1>2, <2>1 DEF KeepsBaud
    <3> HIDE DEF z, E
    <3>3. LastOk(z, E) /\ ~Swallowed(buf, z, E)
      <4>1. z[E][1] = buf[1][1] /\ z[E][2] = E
        <5>1. PICK x, a : x = z[E] /\ a = buf[1][1]
          BY Zenon
        <5>2. x = <<a, E>>
          BY <3>1, <5>1, Zenon
        <5>3. x[1] = a /\ x[2] = E
          BY <5>2
        <5>. QED BY <5>1, <5>3, Zenon
      <4>. QED BY <3>1, <3>2, <4>1, Zenon DEF LastOk, Swallowed
    <3>. QED BY <3>2, <3>3 DEF z
  <2>2. BaudIsRight' /\ baud_timer' \in BOOLEAN
    BY <1>2, <1>u, <2>1 DEF BaudIsRight, Searching
  <2>y. PICK y : y = SubSeq(z, E + 1, Len(z))
    BY Zenon
  <2>3. /\ y \in Seq(Nat \X Nat) /\ Len(y) = Len(z) - E
        /\ \A i \in 1..(Len(z) - E) : y[i] = z[E + i]
    <3> HIDE DEF E, z
    <3>. QED BY <1>0, <1>2, <2>y, SuffixElements, Zenon
  <2>4. ASSUME Searching', NEW i \in 1..Len(y), LastOk(y, i)' PROVE FALSE
    <3>1. Searching
      BY <1>2, <1>u, <2>4 DEF Searching
    <3>2. E + i \in 1..Len(z) /\ y[i] = z[E + i] /\ ~(E + i <= E)
      <4>1. E \in Nat
        BY <1>0, <1>2
      <4> HIDE DEF E, z
      <4>. QED BY <1>0, <2>3, <4>1
    <3>3. LastOk(z, E + i)
      BY <1>u, <2>4, <3>2 DEF LastOk
    <3>4. Swallowed(buf, z, E + i)
      BY <3>1, <3>2, <3>3
    <3>. QED BY <3>2, <3>4 DEF Swallowed
  <2>5. Unread' = y
    BY <1>2, <2>y
  <2>6. Doomed'
    BY <2>4, <2>5 DEF Doomed
  <2>. QED BY <2>2, <2>6
<1>. QED BY <1>1, <1>2, ParseLeaves

\* The two together, for a read_msg that skips to the first marker.
LEMMA FindPacketFlow ==
    ASSUME FlowInv, baud_timer \in BOOLEAN, NEW bytes \in Seq(Stream), NEW k \in Seq(Stream),
           FindPacket(bytes), bytes \o k = Unread, kernel' = k, UNCHANGED <<packets, baudVars>>,
           last_packet_len = 0 /\ rx_buf # <<>> => bytes # <<>> /\ bytes[1] = rx_buf[1]
    PROVE  (Flow(Unread, packets, routed) /\ InOrder /\ Pending /\ Doomed /\ BaudIsRight)'
           /\ baud_timer' \in BOOLEAN
<1>1. PICK s \in 0..Len(bytes) : Skips(bytes, s) /\ Parse(SubSeq(bytes, s + 1, Len(bytes)))
  BY DEF FindPacket
<1> DEFINE buf == SubSeq(bytes, s + 1, Len(bytes))
           z == bytes \o k
           y == buf \o k
<1>2. /\ buf \in Seq(Stream) /\ Len(buf) = Len(bytes) - s
      /\ Len(bytes) \in Nat /\ s \in Nat
      /\ \A i \in 1..(Len(bytes) - s) : buf[i] = bytes[s + i]
  BY SuffixElements
<1>3. y = SubSeq(z, s + 1, Len(z)) /\ s \in 0..Len(z) /\ TypeOK
  BY SuffixConcat, Zenon DEF FlowInv, Inv
<1>4. Flow(z, packets, routed)
  BY DEF FlowInv
<1>5. Flow(y, packets, routed)
  BY <1>3, <1>4, FlowSuffix, Zenon
<1>6. buf = <<>> \/ IsStx(buf[1])
  <2> SUFFICES ASSUME buf # <<>> PROVE IsStx(buf[1])
    OBVIOUS
  <2>1. Len(buf) >= 1
    <3> HIDE DEF buf
    <3>. QED BY <1>2, NoElements
  <2>2. s < Len(bytes) /\ buf[1] = bytes[s + 1]
    <3> HIDE DEF buf
    <3>. QED BY <1>2, <2>1
  <2>. QED BY <1>1, <2>2 DEF Skips
<1>7. (Flow(Unread, packets, routed) /\ InOrder /\ Pending)'
  <2>1. InOrder
    BY DEF FlowInv
  <2> HIDE DEF buf
  <2>. QED BY <1>1, <1>2, <1>3, <1>5, <1>6, <2>1, ParseFlow, Zenon DEF buf
<1>8. ASSUME Searching, NEW i \in 1..Len(y), LastOk(y, i) PROVE Swallowed(buf, y, i)
  <2>1. z \in Seq(Nat \X Nat) /\ Len(z) \in Nat
    BY <1>4 DEF Flow
  <2>2. y \in Seq(Nat \X Nat) /\ Len(y) = Len(z) - s /\ \A j \in 1..(Len(z) - s) : y[j] = z[s + j]
    <3> HIDE DEF z, y
    <3>. QED BY <1>3, <2>1, SuffixElements, Zenon
  <2> HIDE DEF z, y, buf
  <2>3. s + i \in 1..Len(z) /\ y[i] = z[s + i]
    <3>1. s \in Nat
      BY <1>2
    <3>2. i \in 1..Len(y)
      BY <1>8 DEF y, z
    <3>3. i \in 1..(Len(z) - s) /\ s + i \in 1..Len(z)
      <4>1. Len(y) = Len(z) - s /\ Len(z) \in Nat
        BY <2>1, <2>2
      <4>. QED BY <3>1, <3>2, <4>1
    <3>. QED BY <2>2, <3>3
  <2>4. LastOk(z, s + i)
    BY <1>8, <2>3 DEF LastOk
  <2>5. last_packet_len = 0 /\ Swallowed(rx_buf, z, s + i)
    BY <1>8, <2>3, <2>4 DEF FlowInv, Doomed, z
  <2>6. bytes # <<>> /\ bytes[1] = rx_buf[1] /\ IsStx(bytes[1])
    BY <2>5 DEF Swallowed, FlowInv, Pending
  <2>7. s = 0
    BY <1>1, <1>2, <2>6 DEF Skips
  <2>8. buf = bytes /\ y = z
    BY <1>3, <2>1, <2>7, AllOfSeq DEF buf
  <2>. QED BY <2>5, <2>6, <2>7, <2>8 DEF Swallowed, ExpectedSize
<1>9. Doomed' /\ BaudIsRight' /\ baud_timer' \in BOOLEAN
  <2>1. BaudIsRight
    BY DEF FlowInv
  <2> HIDE DEF buf
  <2>. QED BY <1>1, <1>2, <1>3, <1>5, <1>6, <1>8, <2>1, ParseBaud, Zenon DEF buf
<1>. QED BY <1>7, <1>9

\* The bytes a packet arrives as.
Belongs(b, p, size) ==
    /\ b \in Seq(Nat \X Nat) /\ Len(b) \in Nat
    /\ \A i \in 1..Len(b) : b[i][1] = p /\ b[i][2] \in 1..size
    /\ \A i, j \in 1..Len(b) : b[j][2] = b[i][2] + (j - i)

LEMMA BytesAre ==
    ASSUME NEW p \in Nat, NEW size \in Nat \ {0}, NEW class
    PROVE  Belongs(Bytes(p, size, class), p, size)
<1>1. CASE class = "tail"
  <2> DEFINE b == [k \in 1..(size - 1) |-> <<p, k + 1>>]
  <2>1. Bytes(p, size, class) = b
    BY <1>1 DEF Bytes, Byte
  <2>2. b \in Seq(Nat \X Nat) /\ Len(b) = size - 1
    BY SeqIsFunction
  <2>3. Belongs(b, p, size)
    BY <2>2 DEF Belongs
  <2>. QED BY <2>1, <2>3, Zenon
<1>2. CASE class # "tail"
  <2> DEFINE n == IF class = "cut" THEN size - 1 ELSE size
             b == [k \in 1..n |-> <<p, k>>]
  <2>1. Bytes(p, size, class) = b
    BY <1>2, Zenon DEF Bytes, Byte
  <2>2. n \in Nat /\ n <= size
    OBVIOUS
  <2> HIDE DEF n
  <2>3. b \in Seq(Nat \X Nat) /\ Len(b) = n
    BY <2>2, SeqIsFunction
  <2>4. Belongs(b, p, size)
    BY <2>2, <2>3 DEF Belongs
  <2>. QED BY <2>1, <2>4, Zenon
<1>. QED BY <1>1, <1>2, Zenon

\* The unread bytes are bytes of the packets sent.
LEMMA UnreadTyped ==
    ASSUME FlowInv
    PROVE  /\ LeftBehind(rx_buf, last_packet_len) \in Seq(Nat \X Nat)
           /\ kernel \in Seq(Nat \X Nat) /\ Unread \in Seq(Nat \X Nat)
           /\ last_packet_len = 0 => LeftBehind(rx_buf, last_packet_len) = rx_buf
           /\ Len(packets) \in Nat /\ \A p \in 1..Len(packets) : packets[p].size \in Nat \ {0}
           /\ rx_buf # <<>> => rx_buf[1][1] \in 1..Len(packets)
           /\ \A i \in 1..Len(routed) : routed[i] \in 1..Len(packets)
<1>1. TypeOK /\ rx_buf \in Seq(Stream) /\ kernel \in Seq(Stream) /\ last_packet_len \in 0..Len(rx_buf)
  BY DEF FlowInv, Inv, TypeOK, Stream
<1>2. LeftBehind(rx_buf, last_packet_len) \in Seq(Nat \X Nat)
  BY <1>1, Suffix, StreamIsNat DEF LeftBehind
<1>3. last_packet_len = 0 => LeftBehind(rx_buf, last_packet_len) = rx_buf
  BY <1>1, AllOfSeq DEF LeftBehind
<1>4. \A p \in 1..Len(packets) : packets[p].size \in Nat \ {0}
  BY <1>1, PacketSize
<1>5. rx_buf # <<>> => rx_buf[1] \in Stream
  BY <1>1, NoElements
<1>6. rx_buf # <<>> => rx_buf[1][1] \in 1..Len(packets)
  BY <1>5 DEF Stream
<1>7. Unread \in Seq(Nat \X Nat)
  BY DEF FlowInv, Flow
<1>8. kernel \in Seq(Nat \X Nat)
  BY <1>1, StreamIsNat
<1>9. Len(packets) \in Nat /\ \A i \in 1..Len(routed) : routed[i] \in 1..Len(packets)
  BY <1>1 DEF TypeOK
<1>. QED BY <1>2, <1>3, <1>4, <1>6, <1>7, <1>8, <1>9

\* A packet is sent.
LEMMA SendFlow ==
    ASSUME FlowInv, NEW size \in Sizes, NEW class \in Classes, Send(size, class)
    PROVE  (Flow(Unread, packets, routed) /\ InOrder /\ Pending /\ Doomed /\ BaudIsRight)'
<1> DEFINE n == Len(packets)
           b == Bytes(n + 1, size, class)
           z == Unread
           pk == packets'
<1>1. /\ packets' = Append(packets, [size |-> size, class |-> class]) /\ kernel' = kernel \o b
      /\ UNCHANGED <<rx_buf, last_packet_len, routed, baud_timer, kind, peer_baud,
                     current_baud_idx, behind>>
      /\ kind = "uart" /\ current_baud_idx # peer_baud => class # "ok"
  BY DEF Send, baudVars
<1>2. size \in Nat \ {0} /\ n \in Nat
  BY RxFramingAssumption DEF FlowInv, Inv, TypeOK
<1>3. /\ Len(pk) = n + 1 /\ pk[n + 1] = [size |-> size, class |-> class]
      /\ \A p \in 1..n : pk[p] = packets[p]
  BY <1>1 DEF FlowInv, Inv, TypeOK
<1>4. /\ b \in Seq(Nat \X Nat) /\ Len(b) \in Nat
      /\ \A i \in 1..Len(b) : b[i][1] = n + 1 /\ b[i][2] \in 1..size
      /\ \A i, j \in 1..Len(b) : b[j][2] = b[i][2] + (j - i)
  <2>1. n + 1 \in Nat /\ size \in Nat \ {0}
    BY <1>2
  <2>2. Belongs(b, n + 1, size)
    BY <2>1, BytesAre, Zenon
  <2>. QED BY <2>2, Zenon DEF Belongs
<1> HIDE DEF b, pk
<1>5. Unread' = z \o b
  <2>1. Unread' = LeftBehind(rx_buf, last_packet_len) \o (kernel \o b)
    BY <1>1 DEF Unread
  <2> DEFINE left == LeftBehind(rx_buf, last_packet_len)
  <2>2. left \in Seq(Nat \X Nat) /\ kernel \in Seq(Nat \X Nat)
    BY UnreadTyped
  <2> HIDE DEF left
  <2>3. b \in Seq(Nat \X Nat)
    BY <1>4
  <2>4. (left \o kernel) \o b = left \o (kernel \o b)
    <3>1. PICK S : S = Nat \X Nat
      BY Zenon
    <3>2. left \in Seq(S) /\ kernel \in Seq(S) /\ b \in Seq(S)
      BY <2>2, <2>3, <3>1
    <3>. QED BY <3>2, ConcatTwice, SMTT(60)
  <2>. QED BY <2>1, <2>4 DEF left, Unread
<1> HIDE DEF z
<1>6. z \in Seq(Nat \X Nat) /\ Flow(z, packets, routed)
  BY UnreadTyped DEF z, FlowInv
<1>7. PICK y : y = z \o b
  BY Zenon
<1>8. /\ y \in Seq(Nat \X Nat) /\ Len(y) = Len(z) + Len(b) /\ Len(z) \in Nat
      /\ \A i \in 1..Len(z) : i \in 1..Len(y) /\ y[i] = z[i]
      /\ \A i \in 1..Len(b) : Len(z) + i \in 1..Len(y) /\ y[Len(z) + i] = b[i]
  <2>1. z \o b \in Seq(Nat \X Nat) /\ IsJoin(z \o b, z, b)
    BY <1>4, <1>6, Joined, Zenon
  <2>. QED BY <1>7, <2>1, Zenon DEF IsJoin
<1>9. ASSUME NEW i \in 1..Len(y)
      PROVE  \/ i \in 1..Len(z) /\ y[i] = z[i] /\ y[i][1] \in 1..n
             \/ i - Len(z) \in 1..Len(b) /\ y[i] = b[i - Len(z)] /\ y[i][1] = n + 1 /\ i > Len(z)
  <2>1. CASE i <= Len(z)
    <3>1. i \in 1..Len(z)
      BY <1>8, <2>1
    <3>. QED BY <1>6, <1>8, <3>1, Zenon DEF Flow
  <2>2. CASE ~(i <= Len(z))
    <3>1. i - Len(z) \in 1..Len(b) /\ Len(z) + (i - Len(z)) = i /\ i > Len(z)
      <4>1. Len(y) = Len(z) + Len(b) /\ Len(z) \in Nat /\ Len(b) \in Nat /\ i \in 1..Len(y)
        BY <1>4, <1>8, Zenon
      <4>. QED BY <2>2, <4>1
    <3>. QED BY <1>4, <1>8, <3>1, ZenonT(30)
  <2>. QED BY <2>1, <2>2
<1>10. ASSUME NEW i \in 1..Len(y)
       PROVE  y[i][1] \in 1..Len(pk) /\ y[i][2] \in 1..pk[y[i][1]].size
  <2>1. CASE i \in 1..Len(z) /\ y[i] = z[i] /\ y[i][1] \in 1..n
    <3>1. z[i][2] \in 1..packets[z[i][1]].size
      BY <1>6, <2>1 DEF Flow
    <3>2. pk[y[i][1]] = packets[z[i][1]] /\ y[i][1] \in 1..Len(pk)
      BY <1>2, <1>3, <2>1
    <3>. QED BY <2>1, <3>1, <3>2
  <2>2. CASE i - Len(z) \in 1..Len(b) /\ y[i] = b[i - Len(z)] /\ y[i][1] = n + 1
    <3>1. y[i][2] \in 1..size /\ pk[y[i][1]].size = size /\ y[i][1] \in 1..Len(pk)
      <4>1. y[i][2] \in 1..size /\ pk[y[i][1]].size = size
        <5>1. [size |-> size, class |-> class].size = size
          BY Zenon
        <5>. QED BY <1>3, <1>4, <2>2, <5>1, Zenon
      <4>2. y[i][1] \in 1..Len(pk)
        <5>1. y[i][1] = n + 1 /\ Len(pk) = n + 1
          BY <1>3, <2>2, Zenon
        <5>. QED BY <1>2, <5>1
      <4>. QED BY <4>1, <4>2
    <3>. QED BY <3>1
  <2>. QED BY <1>9, <2>1, <2>2
<1>11. ASSUME NEW i \in 1..Len(y), NEW j \in 1..Len(y), i < j
       PROVE  y[i][1] < y[j][1] \/ (y[i][1] = y[j][1] /\ y[j][2] = y[i][2] + (j - i))
  <2>1. CASE j \in 1..Len(z) /\ y[j] = z[j]
    <3>1. i \in 1..Len(z)
      <4>1. Len(z) \in Nat /\ Len(y) \in Nat
        BY <1>8
      <4>. QED BY <1>11, <2>1, <4>1
    <3>2. y[i] = z[i]
      BY <1>8, <3>1
    <3>3. z[i][1] < z[j][1] \/ (z[i][1] = z[j][1] /\ z[j][2] = z[i][2] + (j - i))
      BY <1>6, <1>11, <2>1, <3>1 DEF Flow
    <3>. QED BY <2>1, <3>2, <3>3
  <2>2. CASE /\ i \in 1..Len(z) /\ y[i][1] \in 1..n
             /\ y[j][1] = n + 1
    BY <1>2, <2>2, SMTT(30)
  <2>3. CASE /\ i - Len(z) \in 1..Len(b) /\ y[i] = b[i - Len(z)] /\ y[i][1] = n + 1
             /\ j - Len(z) \in 1..Len(b) /\ y[j] = b[j - Len(z)] /\ y[j][1] = n + 1
    <3>1. b[j - Len(z)][2] = b[i - Len(z)][2] + ((j - Len(z)) - (i - Len(z)))
      BY <1>4, <2>3, Zenon
    <3>2. (j - Len(z)) - (i - Len(z)) = j - i
      BY <1>8
    <3>. QED BY <2>3, <3>1, <3>2
  <2>. QED BY <1>9, <2>1, <2>2, <2>3
<1>12. ASSUME NEW i \in 1..Len(y), NEW r \in 1..Len(routed) PROVE routed[r] < y[i][1]
  <2>1. routed[r] \in 1..n
    BY UnreadTyped
  <2>2. CASE i \in 1..Len(z) /\ y[i] = z[i]
    BY <1>6, <2>2 DEF Flow
  <2>3. CASE y[i][1] = n + 1
    BY <1>2, <2>1, <2>3
  <2>. QED BY <1>9, <2>2, <2>3
<1>13. Flow(y, pk, routed)
  BY <1>8, <1>10, <1>11, <1>12 DEF Flow
<1>14. Flow(Unread, packets, routed)'
  BY <1>1, <1>5, <1>7, <1>13, Zenon DEF pk
<1>15. InOrder'
  <2>1. \A i \in 1..Len(routed) : packets'[routed[i]] = packets[routed[i]]
    BY <1>3, UnreadTyped DEF pk
  <2>. QED BY <1>1, <2>1, Zenon DEF FlowInv, InOrder
<1>16. rx_buf # <<>> => ExpectedSize(rx_buf)' = ExpectedSize(rx_buf)
  BY <1>1, <1>3, UnreadTyped DEF pk, ExpectedSize
<1>17. Pending'
  BY <1>1, <1>16 DEF FlowInv, Pending
<1>18. Doomed'
  <2> SUFFICES ASSUME Searching', NEW i \in 1..Len(y), LastOk(y, i)'
               PROVE  last_packet_len = 0 /\ Swallowed(rx_buf, y, i)'
    BY <1>1, <1>5, <1>7 DEF Doomed
  <2>1. Searching /\ class # "ok"
    BY <1>1 DEF Searching
  <2>2. CASE i \in 1..Len(z) /\ y[i] = z[i] /\ y[i][1] \in 1..n
    <3>1. LastOk(z, i)
      BY <1>3, <2>2 DEF LastOk, pk
    <3>2. last_packet_len = 0 /\ Swallowed(rx_buf, z, i)
      BY <2>1, <2>2, <3>1 DEF FlowInv, Doomed, z
    <3>3. y[1] = z[1]
      BY <1>8, <2>2
    <3>. QED BY <1>1, <1>16, <2>2, <3>2, <3>3 DEF Swallowed
  <2>3. CASE y[i][1] = n + 1
    BY <1>3, <2>1, <2>3 DEF LastOk, pk
  <2>. QED BY <1>9, <2>2, <2>3
<1>19. BaudIsRight'
  BY <1>1 DEF FlowInv, BaudIsRight
<1>. QED BY <1>14, <1>15, <1>17, <1>18, <1>19

\* A reconnection or another rate: the kernel's bytes are lost, and the packets
\* they belong to damaged.
LEMMA LoseKernelFlow ==
    ASSUME FlowInv, LoseKernel
    PROVE  /\ Flow(Unread, packets, routed)' /\ InOrder' /\ Pending'
           /\ Unread' = LeftBehind(rx_buf, last_packet_len)
           /\ rx_buf # <<>> => ExpectedSize(rx_buf)' = ExpectedSize(rx_buf)
           /\ Len(packets') = Len(packets)
           /\ \A p \in 1..Len(packets) : packets'[p].size = packets[p].size
<1> DEFINE left == LeftBehind(rx_buf, last_packet_len)
           n == Len(packets)
           pk == packets'
<1>1. /\ kernel' = <<>> /\ UNCHANGED <<rx_buf, last_packet_len, routed>>
      /\ pk = [p \in 1..n |-> IF \E i \in 1..Len(kernel) : kernel[i][1] = p
                              THEN [size |-> packets[p].size, class |-> "cut"] ELSE packets[p]]
  BY DEF LoseKernel
<1>2. n \in Nat /\ left \in Seq(Nat \X Nat) /\ kernel \in Seq(Nat \X Nat) /\ Unread = left \o kernel
  BY UnreadTyped DEF Unread
<1>3. \A p \in 1..n : pk[p].size = packets[p].size
  BY <1>1
<1>4. \A p \in 1..n : (\A i \in 1..Len(kernel) : kernel[i][1] # p) => pk[p] = packets[p]
  BY <1>1
<1>5. Len(pk) = n
  <2>1. pk \in Seq([size : Sizes, class : Classes \cup {"cut"}])
    BY LoseKernelKeeps DEF FlowInv, Inv, TypeOK
  <2>2. DOMAIN pk = 1..Len(pk) /\ DOMAIN pk = 1..n /\ Len(pk) \in Nat
    BY <1>1, <2>1
  <2>. QED BY <1>2, <2>2
<1> HIDE DEF pk
<1>6. Unread' = left
  <2>1. Unread' = left \o <<>>
    BY <1>1 DEF Unread
  <2> HIDE DEF left
  <2>. QED BY <1>2, <2>1, ConcatEmpty, Zenon
<1> HIDE DEF left
<1>7. Flow(left \o kernel, packets, routed)
  BY <1>2 DEF FlowInv
<1>8. /\ Len(left) \in Nat
      /\ \A i \in 1..Len(left) : i \in 1..Len(left \o kernel) /\ (left \o kernel)[i] = left[i]
      /\ \A i \in 1..Len(kernel) : /\ Len(left) + i \in 1..Len(left \o kernel)
                                   /\ (left \o kernel)[Len(left) + i] = kernel[i]
  <2>1. PICK S : S = Nat \X Nat
    BY Zenon
  <2>2. left \in Seq(S) /\ kernel \in Seq(S)
    BY <1>2, <2>1
  <2>3. IsJoin(left \o kernel, left, kernel)
    BY <2>2, Joined, Zenon
  <2>. QED BY <2>3, Zenon DEF IsJoin
<1>9. PICK z : z = left \o kernel
  BY Zenon
<1>10. Flow(left, pk, routed)
  <2>1. \A i \in 1..Len(left) : i \in 1..Len(z) /\ z[i] = left[i]
    BY <1>8, <1>9
  <2>2. Flow(z, packets, routed)
    BY <1>7, <1>9
  <2>3. ASSUME NEW i \in 1..Len(left)
        PROVE  left[i][1] \in 1..Len(pk) /\ left[i][2] \in 1..pk[left[i][1]].size
    <3>1. z[i][1] \in 1..n /\ z[i][2] \in 1..packets[z[i][1]].size /\ z[i] = left[i]
      BY <2>1, <2>2 DEF Flow
    <3>. QED BY <1>3, <1>5, <3>1
  <2>4. ASSUME NEW i \in 1..Len(left), NEW j \in 1..Len(left), i < j
        PROVE  \/ left[i][1] < left[j][1]
               \/ left[i][1] = left[j][1] /\ left[j][2] = left[i][2] + (j - i)
    <3>1. /\ i \in 1..Len(z) /\ j \in 1..Len(z) /\ z[i] = left[i] /\ z[j] = left[j]
          /\ i < j => \/ z[i][1] < z[j][1]
                      \/ z[i][1] = z[j][1] /\ z[j][2] = z[i][2] + (j - i)
      BY <2>1, <2>2 DEF Flow
    <3>. QED BY <2>4, <3>1
  <2>5. \A i \in 1..Len(left), r \in 1..Len(routed) : routed[r] < left[i][1]
    BY <2>1, <2>2, Zenon DEF Flow
  <2>. QED BY <1>2, <2>3, <2>4, <2>5 DEF Flow
<1>11. Flow(Unread, packets, routed)'
  BY <1>1, <1>6, <1>10, Zenon DEF pk
<1>12. InOrder'
  <2>1. ASSUME NEW r \in 1..Len(routed) PROVE pk[routed[r]] = packets[routed[r]]
    <3>1. routed[r] \in 1..n
      BY UnreadTyped
    <3>2. ASSUME NEW i \in 1..Len(kernel) PROVE kernel[i][1] # routed[r]
      <4>1. Len(left) + i \in 1..Len(z) /\ z[Len(left) + i] = kernel[i] /\ Flow(z, packets, routed)
        BY <1>7, <1>8, <1>9
      <4>2. routed[r] < kernel[i][1]
        BY <4>1, Zenon DEF Flow
      <4>3. kernel[i] \in Nat \X Nat
        BY <1>2, ElementTyped
      <4>4. kernel[i][1] \in Nat
        BY <4>3
      <4>. QED BY <4>2, <4>4
    <3>. QED BY <1>4, <3>1, <3>2
  <2>. QED BY <1>1, <2>1, Zenon DEF FlowInv, InOrder, pk
<1>13. rx_buf # <<>> => ExpectedSize(rx_buf)' = ExpectedSize(rx_buf)
  BY <1>1, <1>3, UnreadTyped DEF ExpectedSize, pk
<1>14. Pending'
  BY <1>1, <1>13 DEF FlowInv, Pending
<1>. QED BY <1>3, <1>5, <1>6, <1>11, <1>12, <1>13, <1>14 DEF left, pk

\* At the new rate, the good packets left in the buffer will be swallowed.
LEMMA ChangeBaudFlow ==
    ASSUME FlowInv, ChangeBaud
    PROVE  Doomed' /\ BaudIsRight'
<1>1. /\ kind = "uart" /\ baud_timer /\ LoseKernel
      /\ UNCHANGED <<rx_buf, last_packet_len, kind, baud_timer>>
      /\ behind' = (behind \/ last_packet_len \in 1..(Len(rx_buf) - 1))
  BY DEF ChangeBaud, LoseKernel
<1>2. BaudIsRight'
  BY <1>1 DEF BaudIsRight
<1>3. PICK z : z = LeftBehind(rx_buf, last_packet_len)
  OBVIOUS
<1>4. /\ Unread' = z /\ Flow(z, packets', routed')
      /\ rx_buf # <<>> => ExpectedSize(rx_buf)' = ExpectedSize(rx_buf)
      /\ rx_buf # <<>> => packets'[rx_buf[1][1]].size = packets[rx_buf[1][1]].size
  <2>1. Unread' = z /\ Flow(Unread, packets, routed)'
    BY <1>1, <1>3, LoseKernelFlow
  <2>2. Flow(z, packets', routed')
    BY <2>1, Zenon
  <2>. QED BY <1>1, <2>1, <2>2, LoseKernelFlow, UnreadTyped
<1>5. Doomed'
  <2> SUFFICES ASSUME Searching', NEW i \in 1..Len(z), LastOk(z, i)'
               PROVE  last_packet_len = 0 /\ Swallowed(rx_buf, z, i)'
    BY <1>1, <1>4 DEF Doomed
  <2>1. last_packet_len \notin 1..(Len(rx_buf) - 1)
    BY <1>1, Zenon DEF Searching
  <2>2. /\ rx_buf \in Seq(Stream) /\ Len(rx_buf) \in Nat /\ last_packet_len \in 0..Len(rx_buf)
        /\ Len(z) = Len(rx_buf) - last_packet_len
    BY <1>3, Suffix DEF FlowInv, Inv, TypeOK, Stream, LeftBehind
  <2>3. last_packet_len = 0
    BY <2>1, <2>2
  <2>4. z = rx_buf /\ rx_buf # <<>>
    BY <1>3, <2>2, <2>3, UnreadTyped
  <2>5. IsStx(z[1]) /\ Len(z) < ExpectedSize(rx_buf)
    BY <2>3, <2>4 DEF FlowInv, Pending
  <2>6. ExpectedSize(rx_buf) \in Nat /\ i < ExpectedSize(rx_buf)
    <3>1. rx_buf[1][1] \in 1..Len(packets)
      BY <2>4, UnreadTyped, Zenon
    <3>2. ExpectedSize(rx_buf) \in Nat \ {0}
      BY <3>1, UnreadTyped, Zenon DEF ExpectedSize
    <3>3. Len(z) \in Nat /\ i \in 1..Len(z) /\ Len(z) < ExpectedSize(rx_buf)
      BY <2>2, <2>5, UnreadTyped
    <3>. QED BY <3>2, <3>3
  <2>7. z[i][1] # z[1][1]
    <3> SUFFICES ASSUME z[i][1] = z[1][1] PROVE FALSE
      OBVIOUS
    <3>1. z[i][2] = i
      <4>1. CASE i = 1
        BY <2>5, <4>1 DEF IsStx
      <4>2. CASE i # 1
        <5>1. 1 \in 1..Len(z) /\ 1 < i
          BY <2>2, <2>3, <2>4, <4>2
        <5>2. z[1][1] < z[i][1] \/ z[i][2] = z[1][2] + (i - 1)
          BY <1>4, <5>1 DEF Flow
        <5>3. z[1][1] \in Nat
          BY <2>4, UnreadTyped
        <5>4. z[i][2] = 1 + (i - 1)
          BY <2>5, <5>2, <5>3 DEF IsStx
        <5>. QED BY <2>2, <2>3, <2>4, <5>4
      <4>. QED BY <4>1, <4>2
    <3>2. z[i][2] = ExpectedSize(rx_buf)
      BY <1>4, <2>4 DEF LastOk, ExpectedSize
    <3>. QED BY <2>2, <2>3, <2>6, <3>1, <3>2
  <2>8. i <= ExpectedSize(rx_buf)
    BY <2>2, <2>3, <2>6
  <2>. QED BY <1>1, <1>4, <2>3, <2>4, <2>7, <2>8 DEF Swallowed
<1>. QED BY <1>2, <1>5

\* read_msg on the bytes left behind.
LEMMA ReadMsgNextFlow ==
    ASSUME FlowInv, baud_timer \in BOOLEAN, ReadMsgNext
    PROVE  (Flow(Unread, packets, routed) /\ InOrder /\ Pending /\ Doomed /\ BaudIsRight)'
           /\ baud_timer' \in BOOLEAN
<1> DEFINE left == LeftBehind(rx_buf, last_packet_len)
<1>1. left \in Seq(Stream) /\ kernel \in Seq(Stream)
  BY Suffix DEF FlowInv, Inv, TypeOK, Stream, LeftBehind
<1>2. FindPacket(left) /\ kernel' = kernel /\ UNCHANGED <<packets, baudVars>> /\ last_packet_len # 0
  BY DEF ReadMsgNext
<1>3. left \o kernel = Unread
  BY DEF Unread
<1> HIDE DEF left
<1>. QED BY <1>1, <1>2, <1>3, FindPacketFlow

\* A sequence parted after n elements.
LEMMA Parted ==
    ASSUME NEW S, NEW k \in Seq(S), NEW n \in 0..Len(k)
    PROVE  SubSeq(k, 1, n) \o SubSeq(k, n + 1, Len(k)) = k
<1>1. 1 \in 1..(Len(k) + 1) /\ n \in (1 - 1)..Len(k) /\ Len(k) \in n..Len(k)
  OBVIOUS
<1>2. SubSeq(k, 1, n) \o SubSeq(k, n + 1, Len(k)) = SubSeq(k, 1, Len(k))
  BY <1>1, PartsJoin, Zenon
<1>3. SubSeq(k, 1, Len(k)) = k
  BY AllOfSeq
<1>. QED BY <1>2, <1>3, Zenon

\* read_msg on what the kernel returns: with the buffer, what was unread.
LEMMA ReadMsgTakes ==
    ASSUME FlowInv, NEW n \in 0..BufMax, n # 0, ReadMsg(n)
    PROVE  \E bytes \in Seq(Stream), k \in Seq(Stream) :
               /\ FindPacket(bytes) /\ bytes \o k = Unread /\ kernel' = k
               /\ UNCHANGED <<packets, baudVars>>
               /\ rx_buf # <<>> => bytes # <<>> /\ bytes[1] = rx_buf[1]
<1>1. PICK S : S = Stream
  BY Zenon
<1>2. PICK got, rest : got = SubSeq(kernel, 1, n) /\ rest = SubSeq(kernel, n + 1, Len(kernel))
  BY Zenon
<1>3. /\ last_packet_len = 0 /\ kernel' = rest /\ FindPacket(rx_buf \o got)
      /\ UNCHANGED <<packets, baudVars>> /\ n <= Len(kernel)
  BY <1>2, Zenon DEF ReadMsg
<1>4. rx_buf \in Seq(S) /\ kernel \in Seq(S) /\ n \in 0..Len(kernel)
  BY <1>1, <1>3, RxFramingAssumption DEF FlowInv, Inv, TypeOK, Stream
<1>5. got \in Seq(S) /\ rest \in Seq(S)
  BY <1>2, <1>4, Prefix, Suffix, Zenon
<1>6. got \o rest = kernel
  BY <1>2, <1>4, Parted, Zenon
<1>7. (rx_buf \o got) \o rest = rx_buf \o (got \o rest)
  <2>1. PICK q \in Seq(S), g \in Seq(S), t \in Seq(S) : q = rx_buf /\ g = got /\ t = rest
    BY <1>4, <1>5, Zenon
  <2>2. (q \o g) \o t = q \o (g \o t)
    BY ConcatTwice, SMTT(60)
  <2>. QED BY <2>1, <2>2, Zenon
<1>8. rx_buf \o got \in Seq(S) /\ (rx_buf # <<>> => rx_buf \o got # <<>> /\ (rx_buf \o got)[1] = rx_buf[1])
  <2>1. PICK bytes : bytes = rx_buf \o got
    BY Zenon
  <2>2. /\ bytes \in Seq(S) /\ Len(rx_buf) \in Nat
        /\ \A i \in 1..Len(rx_buf) : i \in 1..Len(bytes) /\ bytes[i] = rx_buf[i]
    <3>1. rx_buf \o got \in Seq(S) /\ IsJoin(rx_buf \o got, rx_buf, got)
      BY <1>4, <1>5, Joined, Zenon
    <3>. QED BY <2>1, <3>1, Zenon DEF IsJoin
  <2>3. rx_buf # <<>> => 1 \in 1..Len(rx_buf)
    BY <1>4, NoElements
  <2>4. rx_buf # <<>> => 1 \in 1..Len(bytes) /\ bytes[1] = rx_buf[1]
    BY <2>2, <2>3, Zenon
  <2>5. 1 \in 1..Len(bytes) => bytes # <<>>
    BY <2>2
  <2>. QED BY <2>1, <2>2, <2>4, <2>5, Zenon
<1>9. rx_buf \o kernel = Unread
  BY <1>3, UnreadTyped, Zenon DEF Unread
<1>. QED BY <1>1, <1>3, <1>5, <1>6, <1>7, <1>8, <1>9, Zenon

LEMMA ReadMsgFlow ==
    ASSUME FlowInv, baud_timer \in BOOLEAN, NEW n \in 0..BufMax, n # 0, ReadMsg(n)
    PROVE  (Flow(Unread, packets, routed) /\ InOrder /\ Pending /\ Doomed /\ BaudIsRight)'
           /\ baud_timer' \in BOOLEAN
<1>1. PICK bytes \in Seq(Stream), k \in Seq(Stream) :
          /\ FindPacket(bytes) /\ bytes \o k = Unread /\ kernel' = k
          /\ UNCHANGED <<packets, baudVars>>
          /\ rx_buf # <<>> => bytes # <<>> /\ bytes[1] = rx_buf[1]
  BY ReadMsgTakes, Zenon
<1>. QED BY <1>1, FindPacketFlow, Zenon

LEMMA FlowInductive ==
    ASSUME FlowInv, baud_timer \in BOOLEAN, [Next]_vars
    PROVE  FlowInv' /\ baud_timer' \in BOOLEAN
<1> DEFINE Rest == Flow(Unread, packets, routed) /\ InOrder /\ Pending /\ Doomed /\ BaudIsRight
<1>1. Inv'
  BY Inductive DEF FlowInv
<1> SUFFICES Rest' /\ baud_timer' \in BOOLEAN
  BY <1>1 DEF FlowInv
<1>2. ASSUME NEW size \in Sizes, NEW class \in Classes, Send(size, class)
      PROVE  Rest' /\ baud_timer' \in BOOLEAN
  <2>1. Rest'
    BY <1>2, SendFlow
  <2>. QED BY <1>2, <2>1 DEF Send
<1>3. CASE Reconnect
  <2>1. LoseKernel /\ kind' = "tcp" /\ baud_timer' = baud_timer
    BY <1>3 DEF Reconnect, LoseKernel
  <2>2. (Flow(Unread, packets, routed) /\ InOrder /\ Pending)'
    BY <2>1, LoseKernelFlow
  <2>3. Doomed' /\ BaudIsRight'
    BY <2>1 DEF Doomed, Searching, BaudIsRight
  <2>. QED BY <2>1, <2>2, <2>3, Zenon
<1>4. CASE ChangeBaud
  <2>1. LoseKernel /\ baud_timer' = baud_timer
    BY <1>4 DEF ChangeBaud, LoseKernel
  <2>2. (Flow(Unread, packets, routed) /\ InOrder /\ Pending)'
    BY <2>1, LoseKernelFlow
  <2>3. Doomed' /\ BaudIsRight'
    BY <1>4, ChangeBaudFlow
  <2>. QED BY <2>1, <2>2, <2>3, Zenon
<1>5. CASE UNCHANGED <<packets, kernel, rx_buf, last_packet_len, routed, baud_timer, baudVars>>
  <2>1. Unread' = Unread
    BY <1>5 DEF Unread
  <2>2. Flow(Unread, packets, routed)'
    BY <1>5, <2>1, Zenon DEF FlowInv
  <2>3. InOrder' /\ Pending' /\ BaudIsRight'
    BY <1>5 DEF FlowInv, InOrder, Pending, ExpectedSize, BaudIsRight, baudVars
  <2>4. Doomed'
    <3>1. Doomed
      BY DEF FlowInv
    <3>. QED BY <1>5, <2>1, <3>1 DEF Doomed, Searching, LastOk, Swallowed, ExpectedSize, baudVars
  <2>. QED BY <1>5, <2>2, <2>3, <2>4, Zenon
<1>6. CASE HandleRead
  <2> HIDE DEF Rest
  <2>. QED BY <1>5, <1>6, Zenon DEF HandleRead
<1>7. CASE ReadMsgNext
  BY <1>7, ReadMsgNextFlow
<1>8. ASSUME NEW n \in 0..BufMax, ReadMsg(n) PROVE Rest' /\ baud_timer' \in BOOLEAN
  <2>1. CASE n = 0
    <3>1. UNCHANGED <<packets, kernel, rx_buf, last_packet_len, routed, baud_timer, baudVars>>
      BY <1>8, <2>1 DEF ReadMsg
    <3> HIDE DEF Rest
    <3>. QED BY <1>5, <3>1, Zenon
  <2>2. CASE n # 0
    BY <1>8, <2>2, ReadMsgFlow
  <2>. QED BY <2>1, <2>2
<1>9. CASE UNCHANGED vars
  <2>1. UNCHANGED <<packets, kernel, rx_buf, last_packet_len, routed, baud_timer, baudVars>>
    BY <1>9 DEF vars
  <2> HIDE DEF Rest
  <2>. QED BY <1>5, <2>1, Zenon
<1> HIDE DEF Rest
<1>. QED BY <1>2, <1>3, <1>4, <1>6, <1>7, <1>8, <1>9 DEF Next

LEMMA FlowInitially ==
    ASSUME Init, Inv
    PROVE  FlowInv /\ baud_timer \in BOOLEAN
<1>1. /\ kernel = <<>> /\ rx_buf = <<>> /\ last_packet_len = 0 /\ routed = <<>>
      /\ baud_timer = (kind = "uart") /\ Len(<<>>) = 0
  BY DEF Init
<1>2. Unread = <<>>
  <2>1. LeftBehind(<<>>, 0) = <<>>
    BY DEF LeftBehind
  <2>2. <<>> \o <<>> = <<>>
    OBVIOUS
  <2>. QED BY <1>1, <2>1, <2>2, Zenon DEF Unread
<1>3. Flow(<<>>, packets, routed)
  BY DEF Flow
<1>4. Flow(Unread, packets, routed)
  BY <1>2, <1>3
<1>5. InOrder /\ Pending /\ Doomed
  BY <1>1, <1>2 DEF InOrder, Pending, Doomed
<1>6. BaudIsRight /\ baud_timer \in BOOLEAN
  BY <1>1, Zenon DEF BaudIsRight
<1>. QED BY <1>4, <1>5, <1>6 DEF FlowInv

LEMMA FlowKept == Spec => [](FlowInv /\ baud_timer \in BOOLEAN)
<1> DEFINE Typed == FlowInv /\ baud_timer \in BOOLEAN
<1>1. ASSUME Init, Inv PROVE Typed
  BY <1>1, FlowInitially
<1>2. Typed /\ [Next]_vars => Typed'
  BY FlowInductive
<1>3. Spec => []Inv
  BY ReadsHaveRoom, PTL DEF Inv
<1> HIDE DEF Typed
<1>4. Init /\ Inv => Typed
  BY <1>1
<1>5. Spec => []Typed
  BY <1>2, <1>3, <1>4, PTL DEF Spec
<1>. QED BY <1>5, PTL DEF Typed

\* read_msg hands the packets to the router in the order they were sent, none
\* twice and none that was damaged, for all packet sizes and buffer sizes and
\* however reads, reconnections and changes of the rate split the stream.
THEOREM RoutedInOrder == Spec => []InOrder
<1>1. FlowInv => InOrder
  BY DEF FlowInv
<1>. QED BY <1>1, FlowKept, PTL

\* The search of _change_baud_cb for the rate ends only at the peer's rate, unless
\* a rate was left with unparsed bytes behind a packet in the buffer.
THEOREM BaudFound == Spec => []BaudIsRight
<1>1. FlowInv => BaudIsRight
  BY DEF FlowInv
<1>. QED BY <1>1, FlowKept, PTL

-----------------------------------------------------------------------------
\* How far damage reaches.  The bytes of the packets are counted: between the
\* start of a damaged packet and the marker that it swallows.

LEMMA Least ==
    ASSUME NEW T \in SUBSET Nat, T # {}
    PROVE  \E x \in T : \A y \in T : x <= y
<1> DEFINE Less == {ss \in Nat \X Nat : ss[1] < ss[2]}
<1>1. IsWellFoundedOn(Less, Nat)
  BY NatLessThanWellFounded, Zenon DEF OpToRel
<1>2. PICK x \in T : \A y \in T : ~ (<<y, x>> \in Less)
  BY <1>1, WFMin, Zenon
<1>3. ASSUME NEW y \in T PROVE x <= y
  <2>1. <<y, x>> \notin Less /\ <<y, x>> \in Nat \X Nat
    BY <1>2
  <2>. QED BY <2>1
<1>. QED BY <1>3

\* f satisfies the equations of ArrivedTo(pk) up to n.
AddsUp(f, pk, n) == f = [q \in 0..n |-> IF q = 0 THEN 0 ELSE f[q - 1] + ArrivedOf(pk, q)]

LEMMA AddsUpExists ==
    ASSUME NEW pk
    PROVE  \A n \in Nat : \E f : AddsUp(f, pk, n)
<1> DEFINE T == {n \in Nat : ~ \E f : AddsUp(f, pk, n)}
<1> SUFFICES ASSUME T # {} PROVE FALSE
  OBVIOUS
<1>1. PICK n \in T : \A y \in T : n <= y
  <2>1. T \in SUBSET Nat
    OBVIOUS
  <2>. QED BY <2>1, Least, Zenon
<1>2. CASE n = 0
  <2> DEFINE g == [q \in 0..0 |-> 0]
  <2>1. AddsUp(g, pk, 0)
    BY DEF AddsUp
  <2>. QED BY <1>1, <1>2, <2>1
<1>3. CASE n # 0
  <2>1. n - 1 \in Nat /\ n - 1 \notin T
    BY <1>1, <1>3
  <2>2. PICK f : AddsUp(f, pk, n - 1)
    BY <2>1
  <2> DEFINE g == [q \in 0..n |-> IF q = n THEN f[q - 1] + ArrivedOf(pk, q) ELSE f[q]]
  <2>3. ASSUME NEW q \in 0..n
        PROVE  g[q] = IF q = 0 THEN 0 ELSE g[q - 1] + ArrivedOf(pk, q)
    <3>1. CASE q = n
      BY <1>1, <1>3, <3>1
    <3>2. CASE q # n
      <4>1. q \in 0..(n - 1) /\ (q # 0 => q - 1 \in 0..n /\ q - 1 # n)
        BY <1>1, <3>2
      <4>2. f[q] = IF q = 0 THEN 0 ELSE f[q - 1] + ArrivedOf(pk, q)
        BY <2>2, <4>1, Zenon DEF AddsUp
      <4>. QED BY <3>2, <4>1, <4>2
    <3>. QED BY <3>1, <3>2
  <2>4. g = [q \in 0..n |-> g[q]]
    OBVIOUS
  <2>. HIDE DEF g
  <2>5. [q \in 0..n |-> g[q]] = [q \in 0..n |-> IF q = 0 THEN 0 ELSE g[q - 1] + ArrivedOf(pk, q)]
    BY <2>3
  <2>6. AddsUp(g, pk, n)
    BY <2>4, <2>5, Zenon DEF AddsUp
  <2>. QED BY <1>1, <2>6
<1>. QED BY <1>2, <1>3

\* The bytes of the packets before q, and those of q.
LEMMA ArrivedToIs ==
    ASSUME NEW pk, Len(pk) \in Nat
    PROVE  /\ ArrivedTo(pk)[0] = 0
           /\ \A q \in 1..Len(pk) : ArrivedTo(pk)[q] = ArrivedTo(pk)[q - 1] + ArrivedOf(pk, q)
<1>1. \E f : AddsUp(f, pk, Len(pk))
  BY AddsUpExists, Zenon
<1>2. ArrivedTo(pk) = CHOOSE f : AddsUp(f, pk, Len(pk))
  BY Zenon DEF ArrivedTo, AddsUp
<1>3. AddsUp(ArrivedTo(pk), pk, Len(pk))
  BY <1>1, <1>2, Zenon
<1> DEFINE f == ArrivedTo(pk)
<1> HIDE DEF f
<1>4. f = [q \in 0..Len(pk) |-> IF q = 0 THEN 0 ELSE f[q - 1] + ArrivedOf(pk, q)]
  BY <1>3 DEF AddsUp, f
<1>5. \A q \in 0..Len(pk) : f[q] = IF q = 0 THEN 0 ELSE f[q - 1] + ArrivedOf(pk, q)
  BY <1>4, Zenon
<1>6. 0 \in 0..Len(pk) /\ \A q \in 1..Len(pk) : q \in 0..Len(pk) /\ q # 0
  OBVIOUS
<1>. QED BY <1>5, <1>6, Zenon DEF f

\* The number of bytes a packet arrives as, and which they are if none was lost at
\* its end.
Ends(b, size, class) ==
    /\ Len(b) = IF class \in {"cut", "tail"} THEN size - 1 ELSE size
    /\ class # "cut" /\ size >= 2 =>
          /\ 1 \in 1..Len(b) /\ Len(b) \in 1..Len(b)
          /\ b[1][2] = (IF class = "tail" THEN 2 ELSE 1) /\ b[Len(b)][2] = size

LEMMA BytesCount ==
    ASSUME NEW p \in Nat, NEW size \in Nat \ {0}, NEW class
    PROVE  Ends(Bytes(p, size, class), size, class)
<1>1. CASE class = "tail"
  <2> DEFINE b == [k \in 1..(size - 1) |-> <<p, k + 1>>]
  <2>1. Bytes(p, size, class) = b
    BY <1>1 DEF Bytes, Byte
  <2>2. b \in Seq(Nat \X Nat) /\ Len(b) = size - 1
    BY SeqIsFunction
  <2>3. Ends(b, size, class)
    BY <1>1, <2>2 DEF Ends
  <2>. QED BY <2>1, <2>3, Zenon
<1>2. CASE class = "cut"
  <2> DEFINE b == [k \in 1..(size - 1) |-> <<p, k>>]
  <2>1. Bytes(p, size, class) = b
    BY <1>2 DEF Bytes, Byte
  <2>2. b \in Seq(Nat \X Nat) /\ Len(b) = size - 1
    BY SeqIsFunction
  <2>3. Ends(b, size, class)
    BY <1>2, <2>2 DEF Ends
  <2>. QED BY <2>1, <2>3, Zenon
<1>3. CASE class # "tail" /\ class # "cut"
  <2> DEFINE b == [k \in 1..size |-> <<p, k>>]
  <2>1. Bytes(p, size, class) = b
    BY <1>3, Zenon DEF Bytes, Byte
  <2>2. b \in Seq(Nat \X Nat) /\ Len(b) = size
    BY SeqIsFunction
  <2>3. Ends(b, size, class)
    BY <1>3, <2>2 DEF Ends
  <2>. QED BY <2>1, <2>3, Zenon
<1>. QED BY <1>1, <1>2, <1>3, Zenon

\* A sequence of packets such as the peer sends.
Plausible(pk) == Len(pk) \in Nat /\ \A q \in 1..Len(pk) : pk[q].size \in Nat /\ pk[q].size >= 2

LEMMA ArrivedOfIs ==
    ASSUME NEW pk, Plausible(pk), NEW q \in 1..Len(pk)
    PROVE  /\ ArrivedOf(pk, q) = IF pk[q].class \in {"cut", "tail"} THEN pk[q].size - 1 ELSE pk[q].size
           /\ ArrivedOf(pk, q) \in Nat
<1>1. q \in Nat /\ pk[q].size \in Nat \ {0}
  BY DEF Plausible
<1>2. ArrivedOf(pk, q) = IF pk[q].class \in {"cut", "tail"} THEN pk[q].size - 1 ELSE pk[q].size
  <2>1. Ends(Bytes(q, pk[q].size, pk[q].class), pk[q].size, pk[q].class)
    BY <1>1, BytesCount, Zenon
  <2>. QED BY <2>1, Zenon DEF ArrivedOf, Ends
<1>. QED BY <1>1, <1>2

LEMMA ArrivedToNat ==
    ASSUME NEW pk, Plausible(pk)
    PROVE  \A q \in 0..Len(pk) : ArrivedTo(pk)[q] \in Nat
<1> DEFINE f == ArrivedTo(pk)
           T == {q \in 0..Len(pk) : f[q] \notin Nat}
<1>1. Len(pk) \in Nat
  BY DEF Plausible
<1>2. f[0] = 0 /\ \A q \in 1..Len(pk) : f[q] = f[q - 1] + ArrivedOf(pk, q)
  BY <1>1, ArrivedToIs
<1> HIDE DEF f
<1> SUFFICES ASSUME T # {} PROVE FALSE
  BY DEF f
<1>3. PICK q \in T : \A y \in T : q <= y
  <2>1. T \in SUBSET Nat
    BY <1>1
  <2>. QED BY <2>1, Least, Zenon
<1>4. q # 0 /\ q \in 0..Len(pk) /\ f[q] \notin Nat
  BY <1>2, <1>3
<1>5. q \in 1..Len(pk) /\ q - 1 \in 0..Len(pk) /\ ~(q <= q - 1)
  BY <1>1, <1>4
<1>6. f[q - 1] \in Nat
  BY <1>3, <1>5, Zenon
<1>7. ArrivedOf(pk, q) \in Nat /\ f[q] = f[q - 1] + ArrivedOf(pk, q)
  BY <1>2, <1>5, ArrivedOfIs, Zenon
<1>. QED BY <1>4, <1>6, <1>7

\* Packets that differ only behind the first m: the same bytes up to there.
LEMMA ArrivedToSame ==
    ASSUME NEW pk, NEW pl, Len(pk) \in Nat, Len(pl) \in Nat, NEW m \in 0..Len(pk), m <= Len(pl),
           \A q \in 1..m : pk[q] = pl[q]
    PROVE  \A q \in 0..m : ArrivedTo(pl)[q] = ArrivedTo(pk)[q]
<1> DEFINE f == ArrivedTo(pk)
           g == ArrivedTo(pl)
           T == {q \in 0..m : g[q] # f[q]}
<1>1. f[0] = 0 /\ \A q \in 1..Len(pk) : f[q] = f[q - 1] + ArrivedOf(pk, q)
  BY ArrivedToIs
<1>2. g[0] = 0 /\ \A q \in 1..Len(pl) : g[q] = g[q - 1] + ArrivedOf(pl, q)
  BY ArrivedToIs
<1> HIDE DEF f, g
<1> SUFFICES ASSUME T # {} PROVE FALSE
  BY DEF f, g
<1>3. PICK q \in T : \A y \in T : q <= y
  <2>1. T \in SUBSET Nat
    OBVIOUS
  <2>. QED BY <2>1, Least, Zenon
<1>4. q # 0 /\ q \in 0..m /\ g[q] # f[q]
  BY <1>1, <1>2, <1>3
<1>5. q \in 1..m /\ q \in 1..Len(pk) /\ q \in 1..Len(pl) /\ q - 1 \in 0..m /\ ~(q <= q - 1)
  BY <1>4
<1>6. g[q - 1] = f[q - 1]
  BY <1>3, <1>5, Zenon
<1>7. ArrivedOf(pk, q) = ArrivedOf(pl, q)
  BY <1>5, Zenon DEF ArrivedOf
<1>. QED BY <1>1, <1>2, <1>4, <1>5, <1>6, <1>7, Zenon

\* Two bytes of the stream: packets in order, the bytes of one side by side.
LEMMA FlowOrder ==
    ASSUME NEW z, NEW pk, NEW ro, Flow(z, pk, ro), NEW i \in 1..Len(z), NEW j \in 1..Len(z)
    PROVE  /\ z[i][1] \in Nat /\ z[i][2] \in Nat
           /\ z[i][1] < z[j][1] => i < j
           /\ i < j => z[i][1] <= z[j][1]
           /\ z[i][1] = z[j][1] => z[j][2] = z[i][2] + (j - i)
<1>1. z \in Seq(Nat \X Nat) /\ Len(z) \in Nat
  BY FlowTyped, Zenon
<1>2. z[i] \in Nat \X Nat /\ z[j] \in Nat \X Nat
  BY <1>1, ElementTyped
<1>3. z[i][1] \in Nat /\ z[i][2] \in Nat /\ z[j][1] \in Nat /\ z[j][2] \in Nat
  BY <1>2
<1>4. i < j => z[i][1] < z[j][1] \/ (z[i][1] = z[j][1] /\ z[j][2] = z[i][2] + (j - i))
  BY Zenon DEF Flow
<1>5. j < i => z[j][1] < z[i][1] \/ (z[j][1] = z[i][1] /\ z[i][2] = z[j][2] + (i - j))
  BY Zenon DEF Flow
<1>6. PICK a \in Nat, b \in Nat, c \in Nat, d \in Nat :
          a = z[i][1] /\ b = z[i][2] /\ c = z[j][1] /\ d = z[j][2]
  BY <1>3, Zenon
<1>7. /\ i < j => a < c \/ (a = c /\ d = b + (j - i))
      /\ j < i => c < a \/ (c = a /\ b = d + (i - j))
      /\ i = j => a = c /\ b = d
  BY <1>4, <1>5, <1>6, Zenon
<1>8. (a < c => i < j) /\ (i < j => a <= c) /\ (a = c => d = b + (j - i))
  BY <1>7
<1>. QED BY <1>3, <1>6, <1>8, Zenon

\* Byte k of packet q is in z.
Has(z, q, k) == \E i \in 1..Len(z) : z[i][1] = q /\ z[i][2] = k

\* The number of the first byte of packet q that arrives.
FirstOf(pk, q) == IF pk[q].class = "tail" THEN 2 ELSE 1

\* A packet that did not lose its end is in z up to its end, and from its start if z
\* begins before it.
Dense(z, pk) ==
    \A q \in 1..Len(pk) : pk[q].class # "cut" =>
        /\ (\E i \in 1..Len(z) : z[i][1] = q) => Has(z, q, pk[q].size)
        /\ Len(z) >= 1 /\ z[1][1] < q => Has(z, q, FirstOf(pk, q))

LEMMA InNat == \A n \in Nat : \A x \in 1..n : x \in Nat /\ x >= 1
  OBVIOUS

LEMMA LeLt == \A x, y, w \in Nat : x <= y /\ y < w => x < w
  OBVIOUS

LEMMA Pred == \A x \in Nat : (x + 1) - 1 = x
  OBVIOUS

\* A packet of a bytes that begins at u ends at v; the next begins later.
LEMMA NextBegins ==
    ASSUME NEW a \in Nat, NEW s \in Nat, NEW t \in Nat, NEW x \in Nat, NEW y \in Nat,
           NEW u \in Nat, NEW v \in Nat, NEW j \in Nat,
           a = s - t + 1, s = t + (v - u), ~(u < 2 + (x - y)), v < j
    PROVE  ~(j < 2 + ((x + a) - y))
  OBVIOUS

IsPrevious(r, q, c, p, n) ==
    /\ r \in (c + 1)..(p - 1) /\ r \in (c + 1)..p /\ r \in 1..n /\ ~(q <= r)
    /\ r \in Nat /\ r < q /\ c < r /\ r - 1 \in 0..n /\ c \in 0..n

LEMMA Previous ==
    ASSUME NEW n \in Nat, NEW p \in Nat, NEW c \in Nat, p \in 1..n, NEW q \in (c + 1)..p, q # c + 1
    PROVE  IsPrevious(q - 1, q, c, p, n)
<1>1. q \in Nat /\ c + 2 <= q /\ q <= p /\ p <= n
  OBVIOUS
<1>. QED BY <1>1 DEF IsPrevious

LEMMA NotEarly ==
    ASSUME NEW i \in Nat, NEW x \in Nat, NEW y \in Nat, ~(i < 2 + (x - y))
    PROVE  x - y <= i - 2
  OBVIOUS

NoneCut(pk, c, p) == \A q \in (c + 1)..(p - 1) : pk[q].class # "cut"

\* Packets between c and p that did not lose their ends are all in z before p.
LEMMA Counted ==
    ASSUME NEW z, NEW pk, NEW ro, Flow(z, pk, ro), Plausible(pk), Dense(z, pk),
           NEW p \in 1..Len(pk), NEW c \in 1..(p - 1), NEW i \in 1..Len(z),
           z[1][1] <= c, z[i][1] = p, z[i][2] = FirstOf(pk, p), NoneCut(pk, c, p)
    PROVE  ArrivedTo(pk)[p - 1] - ArrivedTo(pk)[c] <= i - 2
<1> DEFINE f == ArrivedTo(pk)
           Early(q, j) == /\ j \in 1..Len(z) /\ z[j][1] = q /\ z[j][2] = FirstOf(pk, q)
                          /\ j < 2 + (f[q - 1] - f[c])
           T == {q \in (c + 1)..p : \E j \in 1..Len(z) : Early(q, j)}
<1>1. /\ Len(pk) \in Nat /\ Len(z) \in Nat /\ p \in Nat /\ c \in Nat /\ c < p /\ i \in Nat
      /\ z \in Seq(Nat \X Nat) /\ 1 \in 1..Len(z)
  BY DEF Flow, Plausible
<1>2. \A q \in 1..Len(pk) : f[q] = f[q - 1] + ArrivedOf(pk, q)
  BY <1>1, ArrivedToIs
<1>3. \A q \in 0..Len(pk) : f[q] \in Nat
  BY ArrivedToNat
<1> HIDE DEF f
<1>4. ASSUME NEW q \in (c + 1)..p, NEW j \in 1..Len(z), Early(q, j),
             \A y \in (c + 1)..p, k \in 1..Len(z) : Early(y, k) => q <= y
      PROVE  FALSE
  <2>1. /\ z[j][1] = q /\ z[j][2] = FirstOf(pk, q) /\ j < 2 + (f[q - 1] - f[c])
    BY <1>4, Zenon
  <2> HIDE DEF Early
  <2>2. q \in Nat /\ j \in Nat /\ c + 1 <= q /\ q <= p /\ j >= 1
    BY <1>1
  <2>z. z[1][1] \in Nat /\ z[1][1] <= c
    BY <1>1, FlowOrder, Zenon
  <2>3. CASE q = c + 1
    <3>1. q - 1 = c /\ c \in 0..Len(pk)
      <4>1. c \in 0..Len(pk)
        BY <1>1
      <4>. QED BY <1>1, <2>3, <4>1, Pred, Zenon
    <3>2. f[c] \in Nat /\ j < 2 + (f[c] - f[c])
      BY <1>3, <2>1, <3>1, Zenon
    <3>3. j = 1
      BY <2>2, <3>2
    <3>4. z[1][1] = c + 1
      BY <2>1, <2>3, <3>3, Zenon
    <3>. QED BY <1>1, <2>z, <3>4
  <2>4. CASE q # c + 1
    <3> DEFINE r == q - 1
    <3>1. /\ r \in (c + 1)..(p - 1) /\ r \in (c + 1)..p /\ r \in 1..Len(pk) /\ ~(q <= r)
          /\ r \in Nat /\ r < q /\ c < r /\ r - 1 \in 0..Len(pk) /\ c \in 0..Len(pk)
      <4>1. IsPrevious(q - 1, q, c, p, Len(pk))
        BY <1>1, <2>4, Previous, Zenon
      <4>. QED BY <4>1, Zenon DEF IsPrevious
    <3> HIDE DEF r
    <3>2. pk[r].class # "cut" /\ \A k \in 1..Len(z) : ~Early(r, k)
      BY <1>4, <3>1, Zenon DEF NoneCut
    <3>3. z[1][1] < r
      BY <1>1, <2>z, <3>1, LeLt, Zenon
    <3>4. Has(z, r, FirstOf(pk, r)) /\ Has(z, r, pk[r].size)
      <4>1. Len(z) >= 1
        BY <1>1
      <4>2. Has(z, r, FirstOf(pk, r))
        BY <3>1, <3>2, <3>3, <4>1, Zenon DEF Dense
      <4>3. \E k \in 1..Len(z) : z[k][1] = r
        BY <4>2, Zenon DEF Has
      <4>. QED BY <3>1, <3>2, <4>2, <4>3, Zenon DEF Dense
    <3>5. PICK u \in 1..Len(z) : z[u][1] = r /\ z[u][2] = FirstOf(pk, r)
      BY <3>4, Zenon DEF Has
    <3>6. PICK v \in 1..Len(z) : z[v][1] = r /\ z[v][2] = pk[r].size
      BY <3>4, Zenon DEF Has
    <3>7. pk[r].size = FirstOf(pk, r) + (v - u)
      <4>1. z[u][1] = z[v][1] => z[v][2] = z[u][2] + (v - u)
        BY FlowOrder, Zenon
      <4>. QED BY <3>5, <3>6, <4>1, Zenon
    <3>8. v < j
      <4>1. z[v][1] < z[j][1]
        BY <2>1, <3>1, <3>6, Zenon
      <4>. QED BY <4>1, FlowOrder, Zenon
    <3>9. ~(u < 2 + (f[r - 1] - f[c]))
      BY <3>2, <3>5, Zenon DEF Early
    <3>10. ArrivedOf(pk, r) = pk[r].size - FirstOf(pk, r) + 1 /\ ArrivedOf(pk, r) \in Nat
      <4>1. pk[r].size \in Nat
        BY <3>1, Zenon DEF Plausible
      <4>2. /\ ArrivedOf(pk, r) \in Nat
            /\ ArrivedOf(pk, r) = IF pk[r].class \in {"cut", "tail"} THEN pk[r].size - 1 ELSE pk[r].size
        BY <3>1, ArrivedOfIs, Zenon
      <4>3. PICK a \in Nat, s \in Nat : a = ArrivedOf(pk, r) /\ s = pk[r].size
        BY <4>1, <4>2, Zenon
      <4>k. PICK k : k = pk[r].class
        BY Zenon
      <4>4. a = (IF k \in {"cut", "tail"} THEN s - 1 ELSE s) /\ k # "cut"
        BY <3>2, <4>2, <4>3, <4>k, Zenon
      <4>5. a = s - (IF k = "tail" THEN 2 ELSE 1) + 1
        BY <4>4
      <4>. QED BY <4>3, <4>k, <4>5, Zenon DEF FirstOf
    <3>11. f[r] = f[r - 1] + ArrivedOf(pk, r) /\ f[r - 1] \in Nat /\ f[c] \in Nat
      BY <1>2, <1>3, <3>1, Zenon
    <3>12. j < 2 + (f[r] - f[c])
      BY <2>1, Zenon DEF r
    <3>13. FirstOf(pk, r) \in Nat /\ pk[r].size \in Nat
      <4>1. pk[r].size \in Nat
        BY <3>1, Zenon DEF Plausible
      <4>2. 1 \in Nat /\ 2 \in Nat
        OBVIOUS
      <4>. QED BY <4>1, <4>2, Zenon DEF FirstOf
    <3>14. v \in Nat /\ u \in Nat
      BY <1>1, InNat, Zenon
    <3>15. PICK a \in Nat, s \in Nat, t \in Nat, x \in Nat, y \in Nat :
              a = ArrivedOf(pk, r) /\ s = pk[r].size /\ t = FirstOf(pk, r) /\ x = f[r - 1] /\ y = f[c]
      BY <3>10, <3>11, <3>13, Zenon
    <3>16. /\ a = s - t + 1 /\ s = t + (v - u) /\ ~(u < 2 + (x - y)) /\ v < j
           /\ j < 2 + ((x + a) - y)
      BY <3>7, <3>8, <3>9, <3>10, <3>11, <3>12, <3>15, Zenon
    <3>. QED BY <2>2, <3>14, <3>16, NextBegins, Zenon
  <2>. QED BY <2>3, <2>4
<1>5. T = {}
  <2> SUFFICES ASSUME T # {} PROVE FALSE
    OBVIOUS
  <2>1. T \in SUBSET Nat
    <3>1. (c + 1)..p \subseteq Nat
      BY <1>1
    <3>. QED BY <3>1, Zenon
  <2>2. PICK q \in T : \A y \in T : q <= y
    BY <2>1, Least, Zenon
  <2>. QED BY <1>4, <2>2, Zenon
<1>6. p \in (c + 1)..p
  BY <1>1
<1>7. ~(i < 2 + (f[p - 1] - f[c]))
  BY <1>5, <1>6, Zenon
<1>8. f[p - 1] \in Nat /\ f[c] \in Nat
  <2>1. p - 1 \in 0..Len(pk) /\ c \in 0..Len(pk)
    BY <1>1
  <2>. QED BY <1>3, <2>1, Zenon
<1>9. f[p - 1] - f[c] <= i - 2
  BY <1>1, <1>7, <1>8, NotEarly, Zenon
<1>. QED BY <1>9, Zenon DEF f

Whole(pk, p) == pk[p].class \in {"ok", "unknown"}

\* A packet that lost its end is near before packet p: what LossIsLocal promises.
Near(pk, p) ==
    \E c \in 1..(p - 1) :
        pk[c].class = "cut" /\ ArrivedTo(pk)[p - 1] - ArrivedTo(pk)[c] < MaxPacket - 1

\* A whole packet was routed, or lost behind damage, or is in z from its marker on.
Accounted(z, pk, ro) ==
    \A p \in 1..Len(pk) : Whole(pk, p) =>
        (\E r \in 1..Len(ro) : ro[r] = p) \/ Near(pk, p) \/ Has(z, p, 1)

LEMMA DenseSuffix ==
    ASSUME NEW z, NEW pk, NEW ro, Flow(z, pk, ro), Dense(z, pk), NEW s \in 0..Len(z)
    PROVE  Dense(SubSeq(z, s + 1, Len(z)), pk)
<1> DEFINE y == SubSeq(z, s + 1, Len(z))
<1>1. z \in Seq(Nat \X Nat) /\ Len(z) \in Nat /\ s \in Nat
  <2>1. z \in Seq(Nat \X Nat) /\ Len(z) \in Nat
    BY FlowTyped, Zenon
  <2>. QED BY <2>1, FromZero, Zenon
<1>2. y \in Seq(Nat \X Nat) /\ Len(y) = Len(z) - s /\ \A i \in 1..(Len(z) - s) : y[i] = z[s + i]
  BY <1>1, SuffixElements, Zenon
<1> HIDE DEF y
<1>3. ASSUME NEW i \in 1..Len(y) PROVE y[i] = z[s + i] /\ s + i \in 1..Len(z)
  <2>1. Len(y) = Len(z) - s /\ i \in 1..Len(y)
    BY <1>2, Zenon
  <2>2. i \in 1..(Len(z) - s) /\ s + i \in 1..Len(z)
    BY <1>1, <2>1
  <2>. QED BY <1>2, <2>2, Zenon
<1>4. ASSUME NEW i \in 1..Len(z), i > s PROVE i - s \in 1..Len(y) /\ y[i - s] = z[i]
  <2>1. Len(y) = Len(z) - s
    BY <1>2, Zenon
  <2>2. i - s \in 1..Len(y) /\ s + (i - s) = i
    BY <1>1, <1>4, <2>1
  <2>. QED BY <1>3, <2>2, Zenon
<1>5. ASSUME NEW q, NEW k, NEW i \in 1..Len(z), i > s, z[i][1] = q, z[i][2] = k PROVE Has(y, q, k)
  BY <1>4, <1>5, Zenon DEF Has
<1>6. ASSUME NEW q \in 1..Len(pk), pk[q].class # "cut", NEW i \in 1..Len(y), y[i][1] = q
      PROVE  Has(y, q, pk[q].size)
  <2>1. z[s + i][1] = q /\ s + i \in 1..Len(z)
    BY <1>3, <1>6, Zenon
  <2>2. PICK j \in 1..Len(z) : z[j][1] = q /\ z[j][2] = pk[q].size
    BY <1>6, <2>1, Zenon DEF Dense, Has
  <2>3. z[s + i][1] = z[j][1] => z[j][2] = z[s + i][2] + (j - (s + i))
    BY <2>1, FlowOrder, Zenon
  <2>4. z[s + i][2] \in 1..pk[z[s + i][1]].size
    BY <2>1, Zenon DEF Flow
  <2>5. PICK a : a = z[s + i][2]
    BY Zenon
  <2>6. a \in 1..pk[q].size /\ pk[q].size = a + (j - (s + i))
    BY <2>1, <2>2, <2>3, <2>4, <2>5, Zenon
  <2>7. j > s
    <3>1. PICK m : m = pk[q].size
      BY Zenon
    <3>2. a \in 1..m /\ m = a + (j - (s + i))
      BY <2>6, <3>1, Zenon
    <3>3. i \in Nat /\ i >= 1 /\ j \in Nat
      <4>1. Len(y) \in Nat
        BY <1>2
      <4>. QED BY <1>1, <4>1, InNat, Zenon
    <3>. QED BY <1>1, <3>2, <3>3
  <2>. QED BY <1>5, <2>2, <2>7, Zenon
<1>7. ASSUME NEW q \in 1..Len(pk), pk[q].class # "cut", Len(y) >= 1, y[1][1] < q
      PROVE  Has(y, q, FirstOf(pk, q))
  <2>1. 1 \in 1..Len(y)
    BY <1>1, <1>2, <1>7
  <2>2. s + 1 \in 1..Len(z) /\ z[s + 1][1] < q
    BY <1>3, <1>7, <2>1, Zenon
  <2>3. z[1][1] < q
    <3>1. 1 \in 1..Len(z)
      BY <1>1, <2>2
    <3>2. z[1][1] \in Nat /\ z[s + 1][1] \in Nat /\ (1 < s + 1 => z[1][1] <= z[s + 1][1])
      BY <2>2, <3>1, FlowOrder, Zenon
    <3>3. CASE s = 0
      BY <2>2, <3>3
    <3>4. CASE s # 0
      <4>1. 1 < s + 1 /\ q \in Nat
        BY <1>1, <3>4
      <4>. QED BY <2>2, <3>2, <4>1, LeLt, Zenon
    <3>. QED BY <3>3, <3>4
  <2>4. PICK j \in 1..Len(z) : z[j][1] = q /\ z[j][2] = FirstOf(pk, q)
    <3>1. Len(z) >= 1
      BY <1>1, <2>2
    <3>. QED BY <1>7, <2>3, <3>1, Zenon DEF Dense, Has
  <2>5. s + 1 < j
    BY <2>2, <2>4, FlowOrder, Zenon
  <2>6. j > s
    BY <1>1, <2>5
  <2>. QED BY <1>5, <2>4, <2>6, Zenon
<1>. QED BY <1>6, <1>7, Zenon DEF Dense, y

LEMMA Behind ==
    ASSUME NEW n \in Nat, NEW s \in Nat, NEW i \in 1..n, ~(i <= s)
    PROVE  i - s \in 1..(n - s) /\ s + (i - s) = i
  OBVIOUS

\* Packets that were accounted for still are when bytes are dropped, if a marker is
\* not, or belongs to a packet that is routed or was swallowed.
LEMMA AccountedSuffix ==
    ASSUME NEW z, NEW pk, NEW ro, NEW rr, Flow(z, pk, ro), Accounted(z, pk, ro), NEW s \in 0..Len(z),
           \A r \in 1..Len(ro) : \E t \in 1..Len(rr) : rr[t] = ro[r],
           \A i \in 1..Len(z) : i <= s /\ z[i][2] = 1 /\ Whole(pk, z[i][1]) =>
               (\E r \in 1..Len(rr) : rr[r] = z[i][1]) \/ Near(pk, z[i][1])
    PROVE  Accounted(SubSeq(z, s + 1, Len(z)), pk, rr)
<1> DEFINE y == SubSeq(z, s + 1, Len(z))
<1>1. z \in Seq(Nat \X Nat) /\ Len(z) \in Nat /\ s \in Nat
  <2>1. z \in Seq(Nat \X Nat) /\ Len(z) \in Nat
    BY FlowTyped, Zenon
  <2>. QED BY <2>1, FromZero, Zenon
<1>2. y \in Seq(Nat \X Nat) /\ Len(y) = Len(z) - s /\ \A i \in 1..(Len(z) - s) : y[i] = z[s + i]
  BY <1>1, SuffixElements, Zenon
<1> HIDE DEF y
<1>3. ASSUME NEW i \in 1..Len(z), ~(i <= s), NEW q, z[i][1] = q, z[i][2] = 1 PROVE Has(y, q, 1)
  <2>1. Len(y) = Len(z) - s /\ i \in 1..Len(z)
    BY <1>2, Zenon
  <2>2. i - s \in 1..Len(y) /\ i - s \in 1..(Len(z) - s) /\ s + (i - s) = i
    BY <1>1, <1>3, <2>1, Behind, Zenon
  <2>3. y[i - s] = z[i]
    BY <1>2, <2>2, Zenon
  <2>. QED BY <1>3, <2>2, <2>3, Zenon DEF Has
<1>4. ASSUME NEW p \in 1..Len(pk), Whole(pk, p)
      PROVE  (\E r \in 1..Len(rr) : rr[r] = p) \/ Near(pk, p) \/ Has(y, p, 1)
  <2>1. CASE Has(z, p, 1)
    <3>1. PICK i \in 1..Len(z) : z[i][1] = p /\ z[i][2] = 1
      BY <2>1, Zenon DEF Has
    <3>2. CASE i <= s
      BY <1>4, <3>1, <3>2, Zenon
    <3>3. CASE ~(i <= s)
      BY <1>3, <3>1, <3>3, Zenon
    <3>. QED BY <3>2, <3>3, Zenon
  <2>2. CASE (\E r \in 1..Len(ro) : ro[r] = p) \/ Near(pk, p)
    BY <2>2, Zenon
  <2>. QED BY <1>4, <2>1, <2>2, Zenon DEF Accounted
<1>. QED BY <1>4, Zenon DEF Accounted, y

\* The last of the packets from a to b that lost their end.
LEMMA LastCut ==
    ASSUME NEW pk, NEW a \in Nat, NEW b \in Nat, a <= b, pk[a].class = "cut"
    PROVE  \E c \in a..b : pk[c].class = "cut" /\ \A q \in (c + 1)..b : pk[q].class # "cut"
<1> DEFINE T == {d \in 0..(b - a) : pk[b - d].class = "cut"}
<1>1. b - a \in T /\ T \in SUBSET Nat
  <2>1. b - a \in 0..(b - a) /\ b - (b - a) = a /\ 0..(b - a) \subseteq Nat
    OBVIOUS
  <2>. QED BY <2>1, Zenon
<1>2. PICK d \in T : \A y \in T : d <= y
  BY <1>1, Least, Zenon
<1>3. d \in 0..(b - a) /\ pk[b - d].class = "cut"
  BY <1>2, Zenon
<1>4. b - d \in a..b
  BY <1>3
<1>5. ASSUME NEW q \in ((b - d) + 1)..b PROVE pk[q].class # "cut"
  <2>1. b - q \in 0..(b - a) /\ b - (b - q) = q /\ ~(d <= b - q)
    BY <1>3
  <2>2. b - q \notin T
    BY <1>2, <2>1, Zenon
  <2>. QED BY <2>1, <2>2, Zenon
<1>. QED BY <1>3, <1>4, <1>5, Zenon

\* A packet that begins z and did not lose its end is there from byte 1 to its end.
IsWhole(z, p, n) == \A k \in 1..n : k \in 1..Len(z) /\ z[k][1] = p /\ z[k][2] = k

LEMMA WholeAtStart ==
    ASSUME NEW z, NEW pk, NEW ro, Flow(z, pk, ro), Dense(z, pk), 1 \in 1..Len(z), z[1][2] = 1,
           NEW p \in 1..Len(pk), z[1][1] = p, pk[p].class # "cut"
    PROVE  IsWhole(z, p, pk[p].size)
<1>1. PICK j \in 1..Len(z) : z[j][1] = p /\ z[j][2] = pk[p].size
  BY Zenon DEF Dense, Has
<1>2. pk[p].size = 1 + (j - 1) /\ j \in Nat /\ Len(z) \in Nat
  <2>1. z[1][1] = z[j][1] => z[j][2] = z[1][2] + (j - 1)
    BY FlowOrder, Zenon
  <2>2. Len(z) \in Nat
    BY FlowTyped, Zenon
  <2>3. j \in Nat
    BY <2>2
  <2>. QED BY <1>1, <2>1, <2>2, <2>3, Zenon
<1>3. pk[p].size = j
  <2>1. 1 + (j - 1) = j
    BY <1>2
  <2>. QED BY <1>2, <2>1, Zenon
<1>4. ASSUME NEW k \in 1..j PROVE k \in 1..Len(z) /\ z[k][1] = p /\ z[k][2] = k
  <2>1. k \in 1..Len(z) /\ k \in Nat
    BY <1>2
  <2>2. /\ z[1][1] \in Nat /\ z[k][1] \in Nat /\ z[j][1] \in Nat
        /\ 1 < k => z[1][1] <= z[k][1]
        /\ k < j => z[k][1] <= z[j][1]
        /\ z[1][1] = z[k][1] => z[k][2] = z[1][2] + (k - 1)
    BY <2>1, FlowOrder, Zenon
  <2>3. PICK a \in Nat : a = z[k][1]
    BY <2>2, Zenon
  <2>4. (1 < k => p <= a) /\ (k < j => a <= p) /\ (1 = k => a = p) /\ (k = j => a = p)
    BY <1>1, <2>2, <2>3, Zenon
  <2>5. a = p
    <3>1. p \in Nat /\ (1 < k \/ 1 = k) /\ (k < j \/ k = j)
      <4>1. p \in Nat
        BY <2>2, Zenon
      <4>. QED BY <1>2, <2>1, <4>1
    <3>2. p <= a /\ a <= p => a = p
      BY <3>1
    <3>. QED BY <2>4, <3>1, <3>2, Zenon
  <2>6. 1 + (k - 1) = k
    BY <2>1
  <2>. QED BY <2>1, <2>2, <2>3, <2>5, <2>6, Zenon
<1>. QED BY <1>3, <1>4, Zenon DEF IsWhole

LEMMA FewerThanPacket ==
    ASSUME NEW x \in Int, NEW i \in Nat, NEW e \in Nat, NEW m \in Nat, x <= i - 2, i <= e, e <= m
    PROVE  x < m - 1
  OBVIOUS

LEMMA Within == \A x, s \in Nat : 1 < x /\ x <= s => x \in 1..s
  OBVIOUS

LEMMA Before ==
    ASSUME NEW n \in Nat, NEW a \in Nat, a >= 1, NEW p \in 1..n, NEW c \in a..(p - 1)
    PROVE  c \in 1..(p - 1) /\ a <= c /\ c \in 0..n /\ p - 1 \in 0..n
  OBVIOUS

\* The bytes of the packet that z begins with are dropped, as many as its size says.
\* A marker among them is its own, or belongs to a packet near behind its lost end.
LEMMA Swallows ==
    ASSUME NEW z, NEW pk, NEW ro, Flow(z, pk, ro), Plausible(pk), Dense(z, pk), 1 \in 1..Len(z),
           z[1][2] = 1, pk[z[1][1]].size <= MaxPacket, MaxPacket \in Nat,
           NEW i \in 1..Len(z), i <= pk[z[1][1]].size, i # 1, z[i][2] = 1, Whole(pk, z[i][1])
    PROVE  Near(pk, z[i][1])
<1>1. PICK a, p : a = z[1][1] /\ p = z[i][1]
  BY Zenon
<1>2. a \in 1..Len(pk) /\ p \in 1..Len(pk)
  BY <1>1, Zenon DEF Flow
<1>3. Len(z) \in Nat /\ Len(pk) \in Nat /\ i \in Nat /\ 1 < i /\ a \in Nat /\ p \in Nat
  <2>1. Len(z) \in Nat /\ Len(pk) \in Nat
    BY DEF Flow, Plausible
  <2>2. i \in Nat /\ 1 < i
    BY <2>1
  <2>3. a \in Nat /\ p \in Nat
    BY <1>2, <2>1
  <2>. QED BY <2>1, <2>2, <2>3
<1>4. a < p
  <2>1. 1 < i => z[1][1] <= z[i][1]
    BY FlowOrder, Zenon
  <2>2. z[1][1] = z[i][1] => z[i][2] = z[1][2] + (i - 1)
    BY FlowOrder, Zenon
  <2>3. a <= p /\ (a = p => 1 = 1 + (i - 1))
    BY <1>1, <1>3, <2>1, <2>2, Zenon
  <2>. QED BY <1>3, <2>3
<1>5. pk[a].class = "cut"
  <2> SUFFICES ASSUME pk[a].class # "cut" PROVE FALSE
    OBVIOUS
  <2>0. IsWhole(z, a, pk[a].size)
    BY <1>1, <1>2, WholeAtStart, Zenon
  <2>1. \A k \in 1..pk[a].size : z[k][1] = a
    BY <2>0, Zenon DEF IsWhole
  <2>2. pk[a].size \in Nat /\ i <= pk[a].size
    BY <1>1, <1>2, Zenon DEF Plausible
  <2>3. i \in 1..pk[a].size
    BY <1>3, <2>2, Within, Zenon
  <2>4. a = p
    BY <1>1, <2>1, <2>3, Zenon
  <2>. QED BY <1>3, <1>4, <2>4
<1>6. p - 1 \in Nat /\ a <= p - 1 /\ a >= 1
  BY <1>2, <1>3, <1>4
<1>7. PICK c \in a..(p - 1) : pk[c].class = "cut" /\ \A q \in (c + 1)..(p - 1) : pk[q].class # "cut"
  <2>1. PICK b \in Nat : b = p - 1
    BY <1>6, Zenon
  <2>2. a <= b /\ a \in Nat /\ pk[a].class = "cut"
    BY <1>3, <1>5, <1>6, <2>1, Zenon
  <2>3. \E c \in a..b : pk[c].class = "cut" /\ \A q \in (c + 1)..b : pk[q].class # "cut"
    BY <2>2, LastCut, ZenonT(30)
  <2>. QED BY <2>1, <2>3, Zenon
<1>8. c \in 1..(p - 1) /\ a <= c /\ c \in 0..Len(pk) /\ p - 1 \in 0..Len(pk)
  BY <1>2, <1>3, <1>6, Before, Zenon
<1>9. FirstOf(pk, p) = 1
  <2>1. pk[p].class # "tail"
    BY <1>1 DEF Whole
  <2>. QED BY <2>1 DEF FirstOf
<1>10. ArrivedTo(pk)[p - 1] - ArrivedTo(pk)[c] <= i - 2
  <2>1. NoneCut(pk, c, p)
    BY <1>7, Zenon DEF NoneCut
  <2>. QED BY <1>1, <1>2, <1>7, <1>8, <1>9, <2>1, Counted, Zenon
<1>11. ArrivedTo(pk)[p - 1] - ArrivedTo(pk)[c] \in Int
  <2>1. ArrivedTo(pk)[p - 1] \in Nat /\ ArrivedTo(pk)[c] \in Nat
    BY <1>8, ArrivedToNat, Zenon
  <2>2. \A x, y \in Nat : x - y \in Int
    OBVIOUS
  <2>. QED BY <2>1, <2>2, Zenon
<1>12. pk[a].size \in Nat
  BY <1>2, Zenon DEF Plausible
<1>13. ArrivedTo(pk)[p - 1] - ArrivedTo(pk)[c] < MaxPacket - 1
  BY <1>1, <1>3, <1>10, <1>11, <1>12, FewerThanPacket, Zenon
<1>. QED BY <1>1, <1>7, <1>8, <1>13, Zenon DEF Near

LossInv == Dense(Unread, packets) /\ Accounted(Unread, packets, routed)

LEMMA PacketsPlausible ==
    ASSUME TypeOK
    PROVE  /\ Plausible(packets) /\ MaxPacket \in Nat
           /\ \A p \in 1..Len(packets) : packets[p].size <= MaxPacket
<1> DEFINE R == [size : Sizes, class : Classes \cup {"cut"}]
<1>1. packets \in Seq(R) /\ Len(packets) \in Nat
  BY DEF TypeOK
<1>. HIDE DEF R
<1>2. ASSUME NEW p \in 1..Len(packets) PROVE packets[p].size \in Sizes
  <2>1. packets[p] \in R
    BY <1>1, ElementTyped
  <2>. QED BY <2>1 DEF R
<1>3. \A x \in Sizes : x \in Nat /\ x >= 2 /\ x <= MaxPacket
  BY RxFramingAssumption
<1>4. MaxPacket \in Nat
  BY RxFramingAssumption
<1>. QED BY <1>1, <1>2, <1>3, <1>4, Zenon DEF Plausible

LEMMA IsPair == \A x \in Nat \X Nat : x = <<x[1], x[2]>>
  OBVIOUS

\* read_msg on a buffer that starts with a marker.
LEMMA ParseLoss ==
    ASSUME TypeOK, NEW buf \in Seq(Stream), NEW k \in Seq(Stream), Parse(buf),
           kernel' = k, buf = <<>> \/ IsStx(buf[1]), UNCHANGED packets,
           Flow(buf \o k, packets, routed), Dense(buf \o k, packets),
           Accounted(buf \o k, packets, routed)
    PROVE  LossInv'
<1> DEFINE E == ExpectedSize(buf)
<1>z. PICK z : z = buf \o k
  BY Zenon
<1>0. /\ z \in Seq(Nat \X Nat) /\ Len(z) \in Nat
      /\ \A i \in 1..Len(buf) : i \in 1..Len(z) /\ z[i] = buf[i]
  <2>1. buf \in Seq(Nat \X Nat) /\ k \in Seq(Nat \X Nat)
    BY StreamIsNat
  <2>2. buf \o k \in Seq(Nat \X Nat) /\ IsJoin(buf \o k, buf, k)
    BY <2>1, Joined, Zenon
  <2>. QED BY <1>z, <2>2, Zenon DEF IsJoin
<1>f. Flow(z, packets, routed) /\ Dense(z, packets) /\ Accounted(z, packets, routed)
  BY <1>z, Zenon
<1>1. CASE routed' = routed /\ Unread' = z
  BY <1>1, <1>f, Zenon DEF LossInv
<1>2. CASE /\ buf # <<>> /\ E \in 1..Len(buf) /\ E \in 0..Len(z)
           /\ Unread' = SubSeq(z, E + 1, Len(z))
           /\ routed' = IF CheckCrc(buf) THEN Append(routed, buf[1][1]) ELSE routed
  <2>y. PICK y : y = SubSeq(z, E + 1, Len(z))
    BY Zenon
  <2>1. Dense(y, packets)
    BY <1>2, <1>f, <2>y, DenseSuffix, Zenon
  <2>2. PICK p : p = buf[1][1]
    BY Zenon
  <2>3. 1 \in 1..Len(z) /\ z[1][1] = p /\ z[1][2] = 1 /\ p \in 1..Len(packets) /\ E = packets[p].size
    <3>1. 1 \in 1..Len(buf)
      BY <1>2
    <3>2. 1 \in 1..Len(z) /\ z[1] = buf[1]
      BY <1>0, <3>1, Zenon
    <3>3. z[1][2] = 1
      BY <1>2, <3>2, Zenon DEF IsStx
    <3>4. z[1][1] \in 1..Len(packets)
      BY <1>f, <3>2, Zenon DEF Flow
    <3>. QED BY <2>2, <3>2, <3>3, <3>4, Zenon DEF ExpectedSize
  <2>4. /\ routed \in Seq(1..Len(packets)) /\ Len(routed) \in Nat
        /\ Len(Append(routed, p)) = Len(routed) + 1
        /\ Append(routed, p)[Len(routed) + 1] = p
        /\ \A r \in 1..Len(routed) : Append(routed, p)[r] = routed[r]
    <3>1. routed \in Seq(1..Len(packets)) /\ Len(routed) \in Nat
      BY DEF TypeOK
    <3>2. p \in 1..Len(packets)
      BY <2>3, Zenon
    <3>. QED BY <3>1, <3>2, Appends
  <2>5. \A r \in 1..Len(routed) : \E t \in 1..Len(routed') : routed'[t] = routed[r]
    <3>1. CASE routed' = routed
      BY <3>1, Zenon
    <3>2. CASE routed' = Append(routed, p)
      <4>1. \A r \in 1..Len(routed) : r \in 1..(Len(routed) + 1)
        BY <2>4
      <4>. QED BY <2>4, <3>2, <4>1, Zenon
    <3>. QED BY <1>2, <2>2, <3>1, <3>2, Zenon
  <2>6. Whole(packets, p) => \E r \in 1..Len(routed') : routed'[r] = p
    <3> SUFFICES ASSUME Whole(packets, p) PROVE \E r \in 1..Len(routed') : routed'[r] = p
      OBVIOUS
    <3>1. packets[p].class # "cut"
      BY DEF Whole
    <3>2. \A j \in 1..packets[p].size : j \in 1..Len(z) /\ z[j][1] = p /\ z[j][2] = j
      <4>1. IsWhole(z, p, packets[p].size)
        BY <1>f, <2>3, <3>1, WholeAtStart, Zenon
      <4>. QED BY <4>1, Zenon DEF IsWhole
    <3>3. ASSUME NEW j \in 1..E PROVE buf[j] = Byte(p, j)
      <4>1. j \in 1..Len(buf)
        <5>1. Len(buf) \in Nat /\ E \in 1..Len(buf)
          BY <1>2
        <5> HIDE DEF E
        <5>. QED BY <5>1
      <4>2. buf[j] = z[j] /\ j \in 1..Len(z)
        BY <1>0, <4>1, Zenon
      <4>3. z[j] \in Nat \X Nat
        BY <1>0, <4>2, ElementTyped
      <4>4. z[j] = <<z[j][1], z[j][2]>>
        BY <4>3, IsPair, Zenon
      <4>5. z[j][1] = p /\ z[j][2] = j
        BY <2>3, <3>2, <3>3, Zenon
      <4>. QED BY <4>2, <4>4, <4>5, Zenon DEF Byte
    <3>4. CheckCrc(buf)
      BY <2>2, <3>3, Zenon DEF CheckCrc, Whole
    <3>5. routed' = Append(routed, p)
      BY <1>2, <2>2, <3>4, Zenon
    <3>6. Len(routed) + 1 \in 1..(Len(routed) + 1)
      BY <2>4
    <3>. QED BY <2>4, <3>5, <3>6, Zenon
  <2>7. ASSUME NEW i \in 1..Len(z), i <= E, z[i][2] = 1, Whole(packets, z[i][1])
        PROVE  (\E r \in 1..Len(routed') : routed'[r] = z[i][1]) \/ Near(packets, z[i][1])
    <3>1. CASE i = 1
      BY <2>3, <2>6, <2>7, <3>1, Zenon
    <3>2. CASE i # 1
      <4>1. Plausible(packets) /\ MaxPacket \in Nat /\ packets[z[1][1]].size <= MaxPacket
        BY <2>3, PacketsPlausible, Zenon
      <4>2. i <= packets[z[1][1]].size
        BY <2>3, <2>7, Zenon
      <4>. QED BY <1>f, <2>3, <2>7, <3>2, <4>1, <4>2, Swallows, Zenon
    <3>. QED BY <3>1, <3>2
  <2>8. Accounted(y, packets, routed')
    BY <1>2, <1>f, <2>5, <2>7, <2>y, AccountedSuffix, Zenon
  <2>. QED BY <1>2, <2>1, <2>8, <2>y, Zenon DEF LossInv
<1>3. \/ routed' = routed /\ Unread' = z
      \/ /\ buf # <<>> /\ E \in 1..Len(buf) /\ E \in 0..Len(z)
         /\ Unread' = SubSeq(z, E + 1, Len(z))
         /\ routed' = IF CheckCrc(buf) THEN Append(routed, buf[1][1]) ELSE routed
  BY <1>z, ParseLeaves, Zenon
<1>. QED BY <1>1, <1>2, <1>3, Zenon

\* read_msg skips to the first marker: no marker is lost.
LEMMA FindPacketLoss ==
    ASSUME FlowInv, LossInv, NEW bytes \in Seq(Stream), NEW k \in Seq(Stream),
           FindPacket(bytes), bytes \o k = Unread, kernel' = k, UNCHANGED packets
    PROVE  LossInv'
<1>1. PICK s \in 0..Len(bytes) : Skips(bytes, s) /\ Parse(SubSeq(bytes, s + 1, Len(bytes)))
  BY DEF FindPacket
<1>2. PICK buf, z : buf = SubSeq(bytes, s + 1, Len(bytes)) /\ z = bytes \o k
  BY Zenon
<1>3. /\ buf \in Seq(Stream) /\ Len(buf) = Len(bytes) - s
      /\ Len(bytes) \in Nat /\ s \in Nat
      /\ \A i \in 1..(Len(bytes) - s) : buf[i] = bytes[s + i]
  BY <1>2, SuffixElements
<1>4. buf \o k = SubSeq(z, s + 1, Len(z)) /\ s \in 0..Len(z) /\ TypeOK
  BY <1>2, SuffixConcat, Zenon DEF FlowInv, Inv
<1>5. Flow(z, packets, routed) /\ Dense(z, packets) /\ Accounted(z, packets, routed)
  BY <1>2, Zenon DEF FlowInv, LossInv
<1>6. Flow(buf \o k, packets, routed) /\ Dense(buf \o k, packets)
  BY <1>4, <1>5, FlowSuffix, DenseSuffix, Zenon
<1>7. Accounted(buf \o k, packets, routed)
  <2>1. /\ z \in Seq(Stream)
        /\ \A i \in 1..Len(bytes) : i \in 1..Len(z) /\ z[i] = bytes[i]
    <3>1. bytes \o k \in Seq(Stream) /\ IsJoin(bytes \o k, bytes, k)
      BY Joined, Zenon
    <3>. QED BY <1>2, <3>1, Zenon DEF IsJoin
  <2>2. ASSUME NEW i \in 1..Len(z), i <= s PROVE z[i][2] # 1
    <3>1. i \in 1..s /\ i \in 1..Len(bytes)
      <4>1. Len(z) \in Nat
        BY <2>1
      <4>2. i \in Nat /\ i >= 1
        BY <4>1
      <4>. QED BY <1>3, <2>2, <4>2
    <3>. QED BY <1>1, <2>1, <3>1, Zenon DEF Skips, IsStx
  <2>3. \A r \in 1..Len(routed) : \E t \in 1..Len(routed) : routed[t] = routed[r]
    BY Zenon
  <2>4. \A i \in 1..Len(z) : i <= s /\ z[i][2] = 1 /\ Whole(packets, z[i][1]) =>
            (\E r \in 1..Len(routed) : routed[r] = z[i][1]) \/ Near(packets, z[i][1])
    BY <2>2, Zenon
  <2>. QED BY <1>4, <1>5, <2>3, <2>4, AccountedSuffix, Zenon
<1>8. buf = <<>> \/ IsStx(buf[1])
  <2> SUFFICES ASSUME buf # <<>> PROVE IsStx(buf[1])
    OBVIOUS
  <2>1. Len(buf) >= 1
    BY <1>3, NoElements
  <2>2. s < Len(bytes) /\ buf[1] = bytes[s + 1]
    BY <1>3, <2>1
  <2>. QED BY <1>1, <2>2 DEF Skips
<1>. QED BY <1>1, <1>2, <1>3, <1>4, <1>6, <1>7, <1>8, ParseLoss, Zenon

\* Damage far enough before p is as near as it was when packets behind p change.
LEMMA NearSame ==
    ASSUME NEW pk, NEW pl, Len(pk) \in Nat, Len(pl) \in Nat, NEW p \in 1..Len(pk), p <= Len(pl),
           \A q \in 1..(p - 1) : pk[q] = pl[q], Near(pk, p)
    PROVE  Near(pl, p)
<1>1. PICK c \in 1..(p - 1) : pk[c].class = "cut" /\ ArrivedTo(pk)[p - 1] - ArrivedTo(pk)[c] < MaxPacket - 1
  BY Zenon DEF Near
<1>2. p - 1 \in 0..Len(pk) /\ p - 1 <= Len(pl) /\ p - 1 \in 0..(p - 1) /\ c \in 0..(p - 1)
  OBVIOUS
<1>3. \A q \in 0..(p - 1) : ArrivedTo(pl)[q] = ArrivedTo(pk)[q]
  BY <1>2, ArrivedToSame, Zenon
<1>4. pl[c] = pk[c] /\ ArrivedTo(pl)[p - 1] = ArrivedTo(pk)[p - 1] /\ ArrivedTo(pl)[c] = ArrivedTo(pk)[c]
  BY <1>2, <1>3, Zenon
<1>. QED BY <1>1, <1>4, Zenon DEF Near

\* A packet is sent.
LEMMA SendLoss ==
    ASSUME FlowInv, LossInv, NEW size \in Sizes, NEW class \in Classes, Send(size, class)
    PROVE  LossInv'
<1>1. PICK n, z, pk : n = Len(packets) /\ z = Unread /\ pk = packets'
  BY Zenon
<1>b. PICK b : b = Bytes(n + 1, size, class)
  BY Zenon
<1>2. size \in Nat \ {0} /\ size >= 2 /\ n \in Nat /\ n + 1 \in Nat
  BY <1>1, RxFramingAssumption DEF FlowInv, Inv, TypeOK
<1>3. /\ Len(pk) = n + 1 /\ pk[n + 1] = [size |-> size, class |-> class]
      /\ \A p \in 1..n : pk[p] = packets[p]
  BY <1>1 DEF FlowInv, Inv, TypeOK, Send
<1>4. /\ b \in Seq(Nat \X Nat) /\ Len(b) \in Nat
      /\ \A i \in 1..Len(b) : b[i][1] = n + 1
  <2>1. PICK m \in Nat : m = n + 1
    BY <1>2, Zenon
  <2>2. Belongs(Bytes(m, size, class), m, size)
    BY <1>2, BytesAre, Zenon
  <2>. QED BY <1>b, <2>1, <2>2, Zenon DEF Belongs
<1>5. class # "cut" => /\ 1 \in 1..Len(b) /\ Len(b) \in 1..Len(b)
                       /\ b[1][2] = (IF class = "tail" THEN 2 ELSE 1) /\ b[Len(b)][2] = size
  <2>1. n + 1 \in Nat
    BY <1>2
  <2>2. Ends(Bytes(n + 1, size, class), size, class)
    BY <1>2, <2>1, BytesCount, Zenon
  <2>. QED BY <1>2, <1>b, <2>2, Zenon DEF Ends
<1>6. Unread' = z \o b
  <2>1. PICK left, S : left = LeftBehind(rx_buf, last_packet_len) /\ S = Nat \X Nat
    BY Zenon
  <2>2. left \in Seq(S) /\ kernel \in Seq(S) /\ b \in Seq(S)
    BY <1>4, <2>1, UnreadTyped, Zenon
  <2>3. (left \o kernel) \o b = left \o (kernel \o b)
    BY <2>2, ConcatTwice, SMTT(60)
  <2>4. kernel' = kernel \o b /\ UNCHANGED <<rx_buf, last_packet_len>>
    BY <1>1, <1>b, Zenon DEF Send
  <2>5. Unread' = left \o (kernel \o b)
    BY <2>1, <2>4 DEF Unread
  <2>. QED BY <1>1, <2>1, <2>3, <2>5, Zenon DEF Unread
<1>7. PICK y : y = z \o b
  BY Zenon
<1>8. z \in Seq(Nat \X Nat) /\ Flow(z, packets, routed)
  BY <1>1, UnreadTyped, Zenon DEF FlowInv
<1>9. /\ Len(y) = Len(z) + Len(b) /\ Len(z) \in Nat
      /\ \A i \in 1..Len(z) : i \in 1..Len(y) /\ y[i] = z[i]
      /\ \A i \in 1..Len(b) : Len(z) + i \in 1..Len(y) /\ y[Len(z) + i] = b[i]
  <2>1. z \o b \in Seq(Nat \X Nat) /\ IsJoin(z \o b, z, b)
    BY <1>4, <1>8, Joined, Zenon
  <2>. QED BY <1>7, <2>1, Zenon DEF IsJoin
<1>10. ASSUME NEW i \in 1..Len(y) PROVE i \in 1..Len(z) \/ y[i][1] = n + 1
  <2>1. Len(y) = Len(z) + Len(b) /\ Len(z) \in Nat /\ Len(b) \in Nat
    BY <1>4, <1>9, Zenon
  <2>2. i \in 1..Len(z) \/ (i - Len(z) \in 1..Len(b) /\ Len(z) + (i - Len(z)) = i)
    BY <2>1
  <2>3. ASSUME NEW j \in 1..Len(b), Len(z) + j = i PROVE y[i][1] = n + 1
    <3>1. y[Len(z) + j] = b[j] /\ b[j][1] = n + 1
      BY <1>4, <1>9, Zenon
    <3>. QED BY <2>3, <3>1, Zenon
  <2>. QED BY <2>2, <2>3, Zenon
<1>11. \A q, j : Has(z, q, j) => Has(y, q, j)
  BY <1>9, Zenon DEF Has
<1>12. ASSUME NEW i \in 1..Len(b), NEW j, b[i][2] = j PROVE Has(y, n + 1, j)
  BY <1>4, <1>9, <1>12, Zenon DEF Has
<1>13. /\ pk[n + 1].size = size /\ pk[n + 1].class = class
  <2>1. PICK r : r = [size |-> size, class |-> class]
    BY Zenon
  <2>2. r.size = size /\ r.class = class
    BY <2>1
  <2>. QED BY <1>3, <2>1, <2>2, Zenon
<1>14. \A q \in 1..(n + 1) : (q \in 1..n /\ q # n + 1) \/ q = n + 1
  BY <1>2
<1>15. Dense(y, pk)
  <2>1. ASSUME NEW q \in 1..n, q # n + 1, pk[q].class # "cut"
        PROVE  /\ (\E i \in 1..Len(y) : y[i][1] = q) => Has(y, q, pk[q].size)
               /\ Len(y) >= 1 /\ y[1][1] < q => Has(y, q, FirstOf(pk, q))
    <3>1. pk[q] = packets[q] /\ q \in 1..Len(packets)
      BY <1>1, <1>3, Zenon
    <3>2. /\ (\E i \in 1..Len(z) : z[i][1] = q) => Has(z, q, pk[q].size)
          /\ Len(z) >= 1 /\ z[1][1] < q => Has(z, q, FirstOf(pk, q))
      BY <1>1, <2>1, <3>1, Zenon DEF LossInv, Dense, FirstOf
    <3>3. ASSUME NEW i \in 1..Len(y), y[i][1] = q PROVE Has(y, q, pk[q].size)
      <4>1. i \in 1..Len(z) /\ z[i][1] = q
        BY <1>9, <1>10, <2>1, <3>3, Zenon
      <4>. QED BY <1>11, <3>2, <4>1, Zenon
    <3>4. ASSUME Len(y) >= 1, y[1][1] < q PROVE Has(y, q, FirstOf(pk, q))
      <4>1. 1 \in 1..Len(y)
        BY <1>4, <1>9, <3>4
      <4>2. y[1][1] # n + 1
        BY <1>2, <3>4
      <4>3. 1 \in 1..Len(z) /\ z[1][1] < q
        BY <1>9, <1>10, <3>4, <4>1, <4>2, Zenon
      <4>4. Len(z) >= 1
        BY <1>9, <4>3
      <4>. QED BY <1>11, <3>2, <4>3, <4>4, Zenon
    <3>. QED BY <3>3, <3>4, Zenon
  <2>2. ASSUME class # "cut" PROVE Has(y, n + 1, size) /\ Has(y, n + 1, FirstOf(pk, n + 1))
    BY <1>5, <1>12, <1>13, <2>2, Zenon DEF FirstOf
  <2>. QED BY <1>3, <1>13, <1>14, <2>1, <2>2, Zenon DEF Dense
<1>16. Accounted(y, pk, routed)
  <2>1. ASSUME NEW p \in 1..n, Whole(pk, p)
        PROVE  (\E r \in 1..Len(routed) : routed[r] = p) \/ Near(pk, p) \/ Has(y, p, 1)
    <3>1. pk[p] = packets[p] /\ p \in 1..Len(packets)
      BY <1>1, <1>3, Zenon
    <3>2. (\E r \in 1..Len(routed) : routed[r] = p) \/ Near(packets, p) \/ Has(z, p, 1)
      BY <1>1, <2>1, <3>1, Zenon DEF LossInv, Accounted, Whole
    <3>3. ASSUME Near(packets, p) PROVE Near(pk, p)
      <4>1. Len(packets) \in Nat /\ Len(pk) \in Nat /\ p <= Len(pk) /\ \A q \in 1..(p - 1) : q \in 1..n
        BY <1>1, <1>2, <1>3
      <4>2. \A q \in 1..(p - 1) : packets[q] = pk[q]
        BY <1>3, <4>1, Zenon
      <4>. QED BY <3>1, <3>3, <4>1, <4>2, NearSame, Zenon
    <3>. QED BY <1>11, <3>2, <3>3, Zenon
  <2>2. ASSUME Whole(pk, n + 1) PROVE Has(y, n + 1, 1)
    <3>1. class # "cut" /\ class # "tail"
      BY <1>13, <2>2 DEF Whole
    <3>. QED BY <1>5, <1>12, <3>1, Zenon
  <2>. QED BY <1>3, <1>14, <2>1, <2>2, Zenon DEF Accounted
<1>17. routed' = routed
  BY DEF Send
<1>. QED BY <1>1, <1>6, <1>7, <1>15, <1>16, <1>17, Zenon DEF LossInv

\* A reconnection or another rate: the packets whose bytes are lost have lost their
\* end, and no packet behind them is whole.
LEMMA LoseKernelLoss ==
    ASSUME FlowInv, LossInv, LoseKernel
    PROVE  LossInv'
<1>1. PICK n, z, pk, left : /\ n = Len(packets) /\ z = Unread /\ pk = packets'
                            /\ left = LeftBehind(rx_buf, last_packet_len)
  BY Zenon
<1>2. /\ n \in Nat /\ left \in Seq(Nat \X Nat) /\ kernel \in Seq(Nat \X Nat) /\ z = left \o kernel
  BY <1>1, UnreadTyped, Zenon DEF Unread
<1>3. Unread' = left /\ Len(pk) = n
  BY <1>1, LoseKernelFlow, Zenon
<1>4. ASSUME NEW q \in 1..n, pk[q].class # "cut"
      PROVE  pk[q] = packets[q] /\ \A i \in 1..Len(kernel) : kernel[i][1] # q
  <2>1. pk = [p \in 1..n |-> IF \E i \in 1..Len(kernel) : kernel[i][1] = p
                             THEN [size |-> packets[p].size, class |-> "cut"] ELSE packets[p]]
    BY <1>1, Zenon DEF LoseKernel
  <2>2. pk[q] = IF \E i \in 1..Len(kernel) : kernel[i][1] = q
                THEN [size |-> packets[q].size, class |-> "cut"] ELSE packets[q]
    BY <2>1, Zenon
  <2>3. \A s : [size |-> s, class |-> "cut"].class = "cut"
    OBVIOUS
  <2>. QED BY <1>4, <2>2, <2>3, Zenon
<1>5. /\ Len(left) \in Nat /\ Len(z) = Len(left) + Len(kernel) /\ Len(kernel) \in Nat
      /\ \A i \in 1..Len(left) : i \in 1..Len(z) /\ z[i] = left[i]
      /\ \A i \in 1..Len(kernel) : Len(left) + i \in 1..Len(z) /\ z[Len(left) + i] = kernel[i]
  <2>1. PICK S : S = Nat \X Nat
    BY Zenon
  <2>2. left \in Seq(S) /\ kernel \in Seq(S)
    BY <1>2, <2>1, Zenon
  <2>3. IsJoin(left \o kernel, left, kernel)
    BY <2>2, Joined, Zenon
  <2>. QED BY <1>2, <2>3, Zenon DEF IsJoin
<1>6. Flow(z, packets, routed) /\ Dense(z, packets) /\ Accounted(z, packets, routed)
  BY <1>1, Zenon DEF FlowInv, LossInv
<1>7. ASSUME NEW q, \A i \in 1..Len(kernel) : kernel[i][1] # q, NEW i \in 1..Len(z), z[i][1] = q
      PROVE  i \in 1..Len(left) /\ left[i] = z[i]
  <2>1. i \in 1..Len(left) \/ (i - Len(left) \in 1..Len(kernel) /\ Len(left) + (i - Len(left)) = i)
    <3>1. Len(z) = Len(left) + Len(kernel) /\ Len(left) \in Nat /\ Len(kernel) \in Nat
      BY <1>5, Zenon
    <3>. QED BY <3>1
  <2>2. ASSUME NEW j \in 1..Len(kernel), Len(left) + j = i PROVE FALSE
    <3>1. z[Len(left) + j] = kernel[j]
      BY <1>5, Zenon
    <3>. QED BY <1>7, <2>2, <3>1, Zenon
  <2>. QED BY <1>5, <2>1, <2>2, Zenon
<1>8. ASSUME NEW q, \A i \in 1..Len(kernel) : kernel[i][1] # q, NEW k, Has(z, q, k)
      PROVE  Has(left, q, k)
  BY <1>7, <1>8, Zenon DEF Has
<1>9. Dense(left, pk)
  <2>1. ASSUME NEW q \in 1..n, pk[q].class # "cut"
        PROVE  /\ (\E i \in 1..Len(left) : left[i][1] = q) => Has(left, q, pk[q].size)
               /\ Len(left) >= 1 /\ left[1][1] < q => Has(left, q, FirstOf(pk, q))
    <3>1. pk[q] = packets[q] /\ q \in 1..Len(packets) /\ \A i \in 1..Len(kernel) : kernel[i][1] # q
      BY <1>1, <1>4, <2>1, Zenon
    <3>2. /\ (\E i \in 1..Len(z) : z[i][1] = q) => Has(z, q, pk[q].size)
          /\ Len(z) >= 1 /\ z[1][1] < q => Has(z, q, FirstOf(pk, q))
      BY <1>6, <2>1, <3>1, Zenon DEF Dense, FirstOf
    <3>3. (\E i \in 1..Len(left) : left[i][1] = q) => Has(left, q, pk[q].size)
      BY <1>5, <1>8, <3>1, <3>2, Zenon
    <3>4. ASSUME Len(left) >= 1, left[1][1] < q PROVE Has(left, q, FirstOf(pk, q))
      <4>1. 1 \in 1..Len(left) /\ Len(z) >= 1
        <5>1. Len(z) = Len(left) + Len(kernel) /\ Len(left) \in Nat /\ Len(kernel) \in Nat
          BY <1>5, Zenon
        <5>. QED BY <3>4, <5>1
      <4>2. z[1][1] < q
        BY <1>5, <3>4, <4>1, Zenon
      <4>. QED BY <1>8, <3>1, <3>2, <4>1, <4>2, Zenon
    <3>. QED BY <3>3, <3>4, Zenon
  <2>. QED BY <1>3, <2>1, Zenon DEF Dense
<1>10. ASSUME NEW p \in 1..n, pk[p].class # "cut", NEW q \in 1..(p - 1)
       PROVE  pk[q] = packets[q]
  <2>1. q \in 1..n /\ q < p /\ q \in Nat /\ p \in Nat
    BY <1>2
  <2>2. ASSUME NEW j \in 1..Len(kernel), kernel[j][1] = q PROVE FALSE
    <3>1. PICK t \in 1..Len(z) : t = Len(left) + j /\ z[t][1] = q
      BY <1>5, <2>2, Zenon
    <3>2. 1 \in 1..Len(z) /\ Len(z) >= 1
      <4>1. Len(z) \in Nat
        BY <1>5
      <4>. QED BY <4>1
    <3>3. z[1][1] < p
      <4>1. z[1][1] \in Nat /\ z[t][1] \in Nat /\ (1 < t => z[1][1] <= z[t][1])
        BY <1>6, <3>2, FlowOrder, Zenon
      <4>2. CASE t = 1
        BY <2>1, <3>1, <4>2, Zenon
      <4>3. CASE t # 1
        <5>1. 1 < t
          BY <1>5, <4>3
        <5>. QED BY <2>1, <3>1, <4>1, <5>1, LeLt, Zenon
      <4>. QED BY <4>2, <4>3
    <3>4. pk[p] = packets[p] /\ p \in 1..Len(packets) /\ \A i \in 1..Len(kernel) : kernel[i][1] # p
      BY <1>1, <1>4, <1>10, Zenon
    <3>5. PICK i \in 1..Len(z) : z[i][1] = p
      BY <1>6, <1>10, <3>2, <3>3, <3>4, Zenon DEF Dense, Has
    <3>6. i \in 1..Len(left)
      BY <1>7, <3>4, <3>5, Zenon
    <3>7. t < i
      <4>1. z[t][1] < z[i][1]
        BY <2>1, <3>1, <3>5, Zenon
      <4>. QED BY <1>6, <4>1, FlowOrder, Zenon
    <3>. QED BY <1>5, <3>1, <3>6, <3>7
  <2>3. pk[q] = IF \E i \in 1..Len(kernel) : kernel[i][1] = q
                THEN [size |-> packets[q].size, class |-> "cut"] ELSE packets[q]
    <3>1. pk = [m \in 1..n |-> IF \E i \in 1..Len(kernel) : kernel[i][1] = m
                               THEN [size |-> packets[m].size, class |-> "cut"] ELSE packets[m]]
      BY <1>1, Zenon DEF LoseKernel
    <3>. QED BY <2>1, <3>1, Zenon
  <2>. QED BY <2>2, <2>3, Zenon
<1>11. Accounted(left, pk, routed)
  <2>1. ASSUME NEW p \in 1..n, Whole(pk, p)
        PROVE  (\E r \in 1..Len(routed) : routed[r] = p) \/ Near(pk, p) \/ Has(left, p, 1)
    <3>1. pk[p].class # "cut"
      BY <2>1 DEF Whole
    <3>2. pk[p] = packets[p] /\ p \in 1..Len(packets) /\ \A i \in 1..Len(kernel) : kernel[i][1] # p
      BY <1>1, <1>4, <3>1, Zenon
    <3>3. (\E r \in 1..Len(routed) : routed[r] = p) \/ Near(packets, p) \/ Has(z, p, 1)
      BY <1>6, <2>1, <3>2, Zenon DEF Accounted, Whole
    <3>4. ASSUME Near(packets, p) PROVE Near(pk, p)
      <4>1. Len(packets) \in Nat /\ Len(pk) \in Nat /\ p <= Len(pk)
        BY <1>1, <1>2, <1>3
      <4>2. \A q \in 1..(p - 1) : packets[q] = pk[q]
        BY <1>10, <3>1, Zenon
      <4>. QED BY <3>2, <3>4, <4>1, <4>2, NearSame, Zenon
    <3>. QED BY <1>8, <3>2, <3>3, <3>4, Zenon
  <2>. QED BY <1>3, <2>1, Zenon DEF Accounted
<1>12. routed' = routed
  BY DEF LoseKernel
<1>. QED BY <1>1, <1>3, <1>9, <1>11, <1>12, Zenon DEF LossInv

LEMMA LossInductive ==
    ASSUME FlowInv, LossInv, [Next]_vars
    PROVE  LossInv'
<1>1. ASSUME NEW size \in Sizes, NEW class \in Classes, Send(size, class) PROVE LossInv'
  BY <1>1, SendLoss
<1>2. CASE Reconnect \/ ChangeBaud
  BY <1>2, LoseKernelLoss DEF Reconnect, ChangeBaud
<1>3. CASE UNCHANGED <<packets, kernel, rx_buf, last_packet_len, routed>>
  <2>1. Unread' = Unread /\ packets' = packets /\ routed' = routed
    BY <1>3 DEF Unread
  <2>. QED BY <2>1, Zenon DEF LossInv
<1>4. CASE HandleRead
  BY <1>3, <1>4, Zenon DEF HandleRead
<1>5. CASE ReadMsgNext
  <2>1. PICK left : left = LeftBehind(rx_buf, last_packet_len)
    BY Zenon
  <2>2. left \in Seq(Stream) /\ kernel \in Seq(Stream)
    BY <2>1, Suffix DEF FlowInv, Inv, TypeOK, Stream, LeftBehind
  <2>3. FindPacket(left) /\ kernel' = kernel /\ UNCHANGED packets
    BY <1>5, <2>1 DEF ReadMsgNext
  <2>4. left \o kernel = Unread
    BY <2>1, Zenon DEF Unread
  <2>. QED BY <2>2, <2>3, <2>4, FindPacketLoss, Zenon
<1>6. ASSUME NEW n \in 0..BufMax, ReadMsg(n) PROVE LossInv'
  <2>1. CASE n = 0
    BY <1>3, <1>6, <2>1, Zenon DEF ReadMsg
  <2>2. CASE n # 0
    <3>1. PICK bytes \in Seq(Stream), k \in Seq(Stream) :
              /\ FindPacket(bytes) /\ bytes \o k = Unread /\ kernel' = k
              /\ UNCHANGED <<packets, baudVars>>
      BY <1>6, <2>2, ReadMsgTakes, Zenon
    <3>2. packets' = packets
      BY <3>1
    <3>. QED BY <3>1, <3>2, FindPacketLoss, Zenon
  <2>. QED BY <2>1, <2>2
<1>7. CASE UNCHANGED vars
  <2>1. UNCHANGED <<packets, kernel, rx_buf, last_packet_len, routed>>
    BY <1>7 DEF vars
  <2>. QED BY <1>3, <2>1, Zenon
<1>. QED BY <1>1, <1>2, <1>4, <1>5, <1>6, <1>7, Zenon DEF Next

\* Wherever the reads split the stream, and however links break: a whole packet is
\* passed over only if it begins less than a packet's length behind one that lost
\* its end.
THEOREM FindsItsWayBack == Spec => []LossIsLocal
<1>1. ASSUME Init PROVE LossInv
  <2>1. packets = <<>> /\ Len(<<>>) = 0
    BY <1>1 DEF Init
  <2>2. 1..0 = {}
    OBVIOUS
  <2>. QED BY <2>1, <2>2, Zenon DEF LossInv, Dense, Accounted
<1>2. ASSUME FlowInv, LossInv PROVE LossIsLocal
  <2>1. ASSUME NEW p \in 1..Len(packets), packets[p].class \in {"ok", "unknown"},
               \E i \in 1..Len(routed) : routed[i] > p,
               ~\E i \in 1..Len(routed) : routed[i] = p
        PROVE  \E c \in 1..(p - 1) : packets[c].class = "cut" /\ BytesBetween(c, p) < MaxPacket - 1
    <3>1. Near(packets, p) \/ Has(Unread, p, 1)
      BY <1>2, <2>1, Zenon DEF LossInv, Accounted, Whole
    <3>2. ASSUME Has(Unread, p, 1) PROVE FALSE
      <4>1. PICK i \in 1..Len(Unread) : Unread[i][1] = p
        BY <3>2, Zenon DEF Has
      <4>2. PICK r \in 1..Len(routed) : routed[r] > p
        BY <2>1, Zenon
      <4>3. routed[r] < p
        BY <1>2, <4>1, Zenon DEF FlowInv, Flow
      <4>4. routed[r] \in 1..Len(packets) /\ Len(packets) \in Nat
        BY <1>2, UnreadTyped, Zenon
      <4>. QED BY <4>2, <4>3, <4>4
    <3>. QED BY <3>1, <3>2, Zenon DEF Near, BytesBetween
  <2>. QED BY <2>1, Zenon DEF LossIsLocal
<1>3. FlowInv /\ LossInv /\ [Next]_vars => LossInv'
  BY LossInductive
<1>4. Spec => []FlowInv
  BY FlowKept, PTL
<1>. QED BY <1>1, <1>2, <1>3, <1>4, PTL DEF Spec
=============================================================================
