------------------------------- MODULE BinLog -------------------------------
(***************************************************************************)
(* The ArduPilot log: data blocks are written at the offset their number   *)
(* gives and acknowledged one by one.  The flight stack may send any block *)
(* at any time: again, out of order, or after it was told to stop.         *)
(***************************************************************************)
EXTENDS LogEndpoint

CONSTANT MaxSeqno    \* bound on block numbers

ASSUME BinLogAssumption == MaxSeqno \in Nat

VARIABLES
    last_acked_seqno,  \* _last_acked_seqno
    disk,              \* <<file, seqno>>: blocks completely written
    begun,             \* history: files in whose session block 0 arrived
    acks               \* history: <<file, seqno>> acknowledged

binlogVars == <<last_acked_seqno, disk, begun, acks>>

BinLogInit ==
    /\ last_acked_seqno = 0
    /\ disk = {} /\ begun = {} /\ acks = {}

\* BinLog::start resets the sequence when a new file was opened.
LastAcked(new) == IF Opens(new) THEN 0 ELSE last_acked_seqno

\* What a step that writes no block does.
BinLogFollows == last_acked_seqno' = LastAcked(log') /\ UNCHANGED <<disk, begun, acks>>

\* BinLog::_send_ack, which is called when the block was written completely.  The
\* nacks it sends with a block beyond a gap change no state.
SendAck(s, seqno) ==
    /\ acks' = acks \cup {<<s.file, seqno>>}
    /\ last_acked_seqno' = IF seqno < LastAcked(s) THEN LastAcked(s) ELSE seqno

\* Mutant: the block is acknowledged whatever the write returned.
WrittenAlways(s, seqno, w) ==
    /\ log' = s
    /\ disk' = IF w = "full" THEN disk \cup {<<s.file, seqno>>} ELSE disk
    /\ SendAck(s, seqno)

\* A block that was written only in part is not acknowledged.  It leaves what an
\* earlier copy of it wrote: the bytes are the same.
Written(s, seqno, w) ==
    /\ log' = s
    /\ IF w = "full"
       THEN disk' = disk \cup {<<s.file, seqno>>} /\ SendAck(s, seqno)
       ELSE last_acked_seqno' = LastAcked(s) /\ UNCHANGED <<disk, acks>>

\* BinLog::_logging_data_process: a failing lseek or write restarts the log.
WriteBlock(s, seqno, w) ==
    IF s.file = NoFile \/ w = "error"
    THEN /\ \E result \in StartResults : log' = Restart(s, result)
         /\ last_acked_seqno' = LastAcked(log')
         /\ UNCHANGED <<disk, acks>>
    ELSE Written(s, seqno, w)

\* Mutant: a block is written whether or not its session has begun.
AwaitsAny(s, seqno) == FALSE

\* The log waits for the first block of a session and this is another one.
AwaitsFirst(s, seqno) == s.logging_start /\ seqno # 0

\* write_msg of a data block; the log may start with it.
Block(seqno, w, first, aliveWorks) ==
    LET s == HandleAutoStartStop(log, "other", first)
        t == IF s.logging_start THEN StartAlive(s, aliveWorks) ELSE s
    IN  /\ late' = (late \/ log.file = NoFile)
        /\ IF AwaitsFirst(s, seqno)
           THEN /\ log' = s
                /\ last_acked_seqno' = LastAcked(s)
                /\ UNCHANGED <<unheard, disk, begun, acks>>
           ELSE /\ WriteBlock(t, seqno, w)
                /\ begun' = IF seqno = 0 /\ s.file # NoFile THEN begun \cup {s.file} ELSE begun
                /\ unheard' = FALSE
        /\ log'.created <= MaxFiles
        /\ UNCHANGED armed

BinLogNext ==
    \/ \E msg \in {"armed", "disarmed", "other"} : Message(msg) /\ BinLogFollows
    \/ \E seqno \in 0..MaxSeqno, w \in {"full", "partial", "error"},
          first \in FirstResults, works \in BOOLEAN :
          Block(seqno, w, first, works)
    \/ AliveTimeout /\ BinLogFollows

-----------------------------------------------------------------------------
\* What was acknowledged is in the file: the flight stack frees a block when it
\* is acknowledged, so nothing else can bring it back.
AckedIsOnDisk == acks \subseteq disk

\* A file holds the blocks of its own session only: blocks of an earlier session
\* that are still on their way are refused until block 0 of the new one comes.
NoStaleBlocks == \A b \in disk : b[1] \in begun
=============================================================================
