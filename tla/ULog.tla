-------------------------------- MODULE ULog --------------------------------
(***************************************************************************)
(* The PX4 log: LOGGING_DATA messages carry consecutive chunks of a stream *)
(* of ULog messages.  They arrive late, again, or not at all; the log      *)
(* orders them by a sequence number that wraps, finds the next ULog        *)
(* message after a gap, and writes whole ULog messages to the file, which  *)
(* may take only part of a write.                                          *)
(*                                                                         *)
(* The stream (external) is the file header, message 0, followed by the    *)
(* messages 1, 2, ...; <<m, k>> is byte k of message m.  Chunk n holds     *)
(* ChunkLen bytes and carries the sequence number n % SeqMod.              *)
(***************************************************************************)
EXTENDS LogEndpoint, Integers, Sequences

CONSTANTS
    HeaderLen,    \* ULOG_HEADER_SIZE
    MsgSizes,     \* full_msg_size of each message
    MsgHeader,    \* sizeof(struct ulog_msg_header)
    ChunkLen,     \* bytes per chunk
    BufferLen,    \* BUFFER_LEN
    PartialLen,   \* sizeof(_buffer_partial)
    SeqMod,       \* 2^16
    MaxBack,      \* how old a repeated chunk can be
    MaxAhead      \* how many chunks in a row can be lost

ASSUME ULogAssumption ==
    /\ {HeaderLen, MsgHeader, ChunkLen, BufferLen, PartialLen, SeqMod} \subseteq Nat \ {0}
    /\ MsgSizes \in Seq(MsgHeader..BufferLen)
    /\ HeaderLen <= ChunkLen /\ ChunkLen <= BufferLen /\ HeaderLen <= PartialLen
    /\ MaxBack \in Nat /\ MaxBack < (SeqMod - 1) \div 2
    /\ MaxAhead \in Nat /\ MaxAhead <= (SeqMod - 1) \div 2

VARIABLES
    ulog,       \* [waiting_header, waiting_first_msg_offset, expected_seq, buf (_buffer
                \*  from _buffer_index on), index, partial (_buffer_partial), corrupt]
    next,       \* history: the chunk after the newest one that arrived
    written     \* history: the byte written last before this step, and this step's

ulogVars == <<ulog, next, written>>

SizeOf(m) == IF m = 0 THEN HeaderLen ELSE MsgSizes[m]

BytesOf(m) == [k \in 1..SizeOf(m) |-> <<m, k>>]

\* The header and the first m messages.
StreamTo[m \in 0..Len(MsgSizes)] ==
    IF m = 0 THEN BytesOf(m) ELSE StreamTo[m - 1] \o BytesOf(m)

StreamBytes == StreamTo[Len(MsgSizes)]

Chunks == 0..((Len(StreamBytes) \div ChunkLen) - 1)

Chunk(n) == SubSeq(StreamBytes, n * ChunkLen + 1, (n + 1) * ChunkLen)

NoFirstMsgOffset == 255

\* first_message_offset of a chunk without its header.
FirstMsgOffset(data) ==
    IF \E k \in 1..Len(data) : data[k][2] = 1
    THEN (CHOOSE k \in 1..Len(data) :
             data[k][2] = 1 /\ \A j \in 1..(k - 1) : data[j][2] # 1) - 1
    ELSE NoFirstMsgOffset

-----------------------------------------------------------------------------
\* Mutant: a sequence number below the expected one is a repetition.
IsRepeatedNoWrap(seq, expected) == seq < expected

\* _logging_seq: a repetition, before or after the sequence number wrapped.
IsRepeated(seq, expected) ==
    LET half == (SeqMod - 1) \div 2
    IN  \/ seq > expected /\ seq - expected > half
        \/ seq < expected /\ expected - seq < half

\* A prefix of the buffer that ends with a whole message.
IsWhole(buf, l) == l = 0 \/ buf[l][2] = SizeOf(buf[l][1])

After(buf, l) == SubSeq(buf, l + 1, Len(buf))

\* The first message of a buffer is complete.
HasMessage(buf) ==
    buf # <<>> /\ Len(buf) >= MsgHeader /\ Len(buf) >= SizeOf(buf[1][1])

Consume(s, l) == [s EXCEPT !.buf = After(@, l), !.index = @ + l]

\* Mutant: the rest of a message that was written in part is forgotten.
FlushPartsForgotten(s) ==
    IF ~HasMessage(s.buf) THEN {}
    ELSE LET size == SizeOf(s.buf[1][1])
         IN  {[st |-> Consume(s, size), out |-> SubSeq(s.buf, 1, r)] : r \in 1..(size - 1)}

\* write takes r bytes of the next message: the rest goes to _buffer_partial, or
\* is given up if it does not fit.
FlushParts(s) ==
    IF ~HasMessage(s.buf) THEN {}
    ELSE LET size == SizeOf(s.buf[1][1])
             rest(r) == SubSeq(s.buf, r + 1, size)
         IN  {[st  |-> IF size - r > PartialLen THEN [s EXCEPT !.corrupt = TRUE]
                       ELSE [Consume(s, size) EXCEPT !.partial = rest(r)],
               out |-> SubSeq(s.buf, 1, r)] : r \in 1..(size - 1)}

\* The results of _logging_flush: the state and the bytes written.  It ends
\* anywhere: nothing is left, the file is busy, or write fails.
LoggingFlush(s) ==
    {[st |-> [s EXCEPT !.partial = After(@, p)], out |-> SubSeq(s.partial, 1, p)] :
        p \in 0..(Len(s.partial) - 1)}
    \cup UNION {LET t   == [Consume(s, l) EXCEPT !.partial = <<>>]
                    pre == s.partial \o SubSeq(s.buf, 1, l)
                IN  {[st |-> t, out |-> pre]}
                    \cup {[st |-> r.st, out |-> pre \o r.out] : r \in FlushParts(t)} :
                l \in {x \in 0..Len(s.buf) : IsWhole(s.buf, x)}}

\* ... and with no file open: write fails.
FlushTo(file, s) == IF file = NoFile THEN {[st |-> s, out |-> <<>>]} ELSE LoggingFlush(s)

Wrote(bytes) == written' = <<written[Len(written)]>> \o bytes

-----------------------------------------------------------------------------
Fresh ==
    [waiting_header |-> TRUE, waiting_first_msg_offset |-> FALSE, expected_seq |-> 0,
     buf |-> <<>>, index |-> 0, partial |-> <<>>, corrupt |-> FALSE]

NothingWritten == << <<-1, 0>> >>

ULogInit == ulog = Fresh /\ next = 0 /\ written = NothingWritten

\* ULog::start, when it opened a file: the flight stack begins a new stream.
StartULog == ulog' = Fresh /\ next' = 0 /\ written' = NothingWritten

\* ULog::stop: the buffer is dropped, the rest of a message is written unless
\* write fails, and the file is closed.
StopULog ==
    \E p \in 0..Len(ulog.partial) :
       /\ ulog' = [ulog EXCEPT !.buf = <<>>, !.partial = After(@, p)]
       /\ Wrote(SubSeq(ulog.partial, 1, p))
       /\ UNCHANGED next

\* What a step without log data does.
ULogFollows ==
    CASE Opens(log')  -> StartULog
      [] Closes(log') -> StopULog
      [] OTHER        -> Wrote(<<>>) /\ UNCHANGED <<ulog, next>>

\* Mutant: the data is not moved when it reaches the end of the buffer.
MakeRoomNoMove(s, len) ==
    IF Len(s.buf) + len > BufferLen
    THEN [s EXCEPT !.buf = <<>>, !.waiting_first_msg_offset = TRUE] ELSE s

\* The buffer is emptied if the data does not fit, and moved to its beginning if
\* it does not fit behind _buffer_index.
MakeRoom(s, len) ==
    LET t == IF Len(s.buf) + len > BufferLen
             THEN [s EXCEPT !.buf = <<>>, !.waiting_first_msg_offset = TRUE] ELSE s
    IN  IF t.index + Len(t.buf) + len > BufferLen THEN [t EXCEPT !.index = 0] ELSE t

\* The rest of _logging_data_process, with the data after the file header; out
\* was written before.
Store(file, s, data, out) ==
    LET room  == MakeRoom(s, Len(data))
        first == FirstMsgOffset(data)
        begin == IF room.waiting_first_msg_offset THEN first ELSE 0
        found == [room EXCEPT !.waiting_first_msg_offset = FALSE]
    IN  IF begin = NoFirstMsgOffset THEN ulog' = room /\ written' = out
        ELSE IF data = <<>> THEN ulog' = found /\ written' = out
        ELSE \E r \in FlushTo(file, [found EXCEPT !.buf = @ \o After(data, begin)]) :
                ulog' = r.st /\ written' = out \o r.out

\* Chunks are missing: the buffer is dropped up to the next message's start.
AfterGap(s) ==
    [s EXCEPT !.buf = <<>>, !.index = 0, !.waiting_first_msg_offset = TRUE]

\* A new chunk: the file header, the next one, or one after a gap.
TakeChunk(file, s, n, out) ==
    LET taken == [s EXCEPT !.expected_seq = (n + 1) % SeqMod, !.waiting_header = FALSE]
    IN  IF s.waiting_header
        THEN Store(file, [taken EXCEPT !.partial = SubSeq(Chunk(n), 1, HeaderLen)],
                   After(Chunk(n), HeaderLen), out)
        ELSE IF n % SeqMod = s.expected_seq THEN Store(file, taken, Chunk(n), out)
        ELSE \E f \in FlushTo(file, taken) :
                Store(file, AfterGap(f.st), Chunk(n), out \o f.out)

\* The history next, when chunk n of a stream arrives.
Newest(n, following) == IF n >= following THEN n + 1 ELSE following

\* write_msg of chunk n, and _logging_data_process; the log may start with it.  A
\* log that waits for the file header restarts when another chunk comes.
DataChunk(n, first) ==
    LET s    == HandleAutoStartStop(log, "other", first)
        u    == IF Opens(s) THEN Fresh ELSE ulog
        prev == IF Opens(s) THEN NothingWritten ELSE <<written[Len(written)]>>
    IN  /\ n \in (next - MaxBack)..(next + MaxAhead)
        /\ late' = (late \/ log.file = NoFile)
        /\ unheard' = FALSE
        /\ UNCHANGED armed
        /\ IF IsRepeated(n % SeqMod, u.expected_seq)
           THEN /\ log' = s
                /\ ulog' = u
                /\ next' = IF Opens(s) THEN 0 ELSE Newest(n, next)
                /\ written' = prev
           ELSE IF u.waiting_header /\ n # 0
           THEN /\ \E result \in StartResults : log' = Restart(s, result)
                /\ IF log'.file # NoFile THEN StartULog
                   ELSE /\ ulog' = [u EXCEPT !.expected_seq = (n + 1) % SeqMod]
                        /\ next' = n + 1
                        /\ written' = prev
           ELSE /\ log' = s
                /\ next' = Newest(n, IF Opens(s) THEN 0 ELSE next)
                /\ TakeChunk(s.file, u, n, prev)
        /\ log'.created <= MaxFiles

\* write_msg of the flight stack's answer to the start command.
CommandAck(accepted, first, aliveWorks) ==
    LET s == HandleAutoStartStop(log, "other", first)
    IN  /\ log' = IF s.logging_start /\ accepted THEN StartAlive(s, aliveWorks) ELSE s
        /\ log'.created <= MaxFiles
        /\ unheard' = (unheard /\ ~s.logging_start)
        /\ UNCHANGED <<armed, late>>
        /\ ULogFollows

ULogNext ==
    \/ \E msg \in {"armed", "disarmed", "other"} : Message(msg) /\ ULogFollows
    \/ \E accepted, works \in BOOLEAN, first \in FirstResults :
          CommandAck(accepted, first, works)
    \/ \E n \in Chunks, first \in FirstResults : DataChunk(n, first)
    \/ AliveTimeout /\ ULogFollows

-----------------------------------------------------------------------------
\* The data stays inside _buffer, and what is left of a message inside
\* _buffer_partial, whatever the messages' sizes, the gaps and the failing writes.
InsideBuffer ==
    /\ ulog.index + Len(ulog.buf) <= BufferLen
    /\ Len(ulog.partial) <= PartialLen

Follows(u, v) ==
    \/ v[1] = u[1] /\ v[2] = u[2] + 1
    \/ v[1] > u[1] /\ v[2] = 1 /\ (u[1] >= 0 => u[2] = SizeOf(u[1]))

\* The file is the header and then whole ULog messages in order, none twice; a
\* message that was written in part is completed before the next one begins.
WholeMessages ==
    ~ulog.corrupt => \A i \in 1..(Len(written) - 1) : Follows(written[i], written[i + 1])

\* _expected_seq stays the number of the chunk after the newest one that arrived,
\* across its wrap, gaps, repetitions and restarts: no new chunk is taken for an
\* old one, and no old one for a new one.
SeqFollows == ulog.expected_seq = next % SeqMod
=============================================================================
