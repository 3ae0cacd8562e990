--------------------------- MODULE AutoLogProofs ---------------------------
(***************************************************************************)
(* The log endpoint of AutoLog for any number of files, blocks and chunks, *)
(* and any of the four log types: its timers belong to the open file, it   *)
(* logs while the vehicle is armed, what was acknowledged is on disk, and  *)
(* a PX4 log is written in whole messages and in order.                    *)
(***************************************************************************)
EXTENDS AutoLog, ULogProofs, TLAPS

-----------------------------------------------------------------------------
\* The log endpoint.

LogModes == {"always", "while_armed", "disabled"}

Logs ==
    [file : Nat, created : Nat, readonly : SUBSET Nat, logging_start : BOOLEAN,
     alive : BOOLEAN, fsync : BOOLEAN, log_mode : LogModes, target : BOOLEAN]

\* TimersMatchFile for an endpoint s.
Timed(s) ==
    IF s.file = NoFile THEN ~s.fsync /\ ~s.logging_start /\ ~s.alive
    ELSE s.fsync /\ ~(s.logging_start /\ s.alive)

Good(s) == s \in Logs /\ Timed(s)

\* s may have its file open while the vehicle is armed (a) or not, after late
\* log data (l) or not.  An endpoint that gave up opens no file of its own accord.
MayLog(s, a, l) ==
    s.file # NoFile /\ ~l => s.log_mode # "disabled" /\ (s.log_mode = "while_armed" => a)

\* A file of t that does not wait for its session was open in s and did not either.
SameOrNew(s, t) ==
    t.file # NoFile /\ ~t.logging_start => t.file = s.file /\ ~s.logging_start

-----------------------------------------------------------------------------
LEMMA StartGood ==
    ASSUME NEW s, Good(s), NEW result \in StartResults
    PROVE  /\ Good(Start(s, result))
           /\ SameOrNew(s, Start(s, result))
           /\ Start(s, result).log_mode = s.log_mode
           /\ s.file # NoFile => Start(s, result) = s
<1>1. CASE s.file # NoFile \/ result = "nofile"
  <2>1. Start(s, result) = s
    BY <1>1 DEF Start
  <2>. QED BY <2>1 DEF SameOrNew
<1>2. CASE s.file = NoFile /\ result = "notimer"
  <2>1. Start(s, result) = [s EXCEPT !.created = @ + 1]
    BY <1>2 DEF Start
  <2>2. s \in Logs /\ Timed(s)
    BY DEF Good
  <2>3. Start(s, result) \in Logs /\ Start(s, result).file = s.file
    BY <2>1, <2>2 DEF Logs
  <2>4. Timed(Start(s, result)) /\ Start(s, result).log_mode = s.log_mode
    BY <2>1, <2>2 DEF Logs, Timed
  <2>. QED BY <1>2, <2>3, <2>4 DEF Good, SameOrNew
<1>3. CASE s.file = NoFile /\ result = "ok"
  <2> DEFINE t == [s EXCEPT !.file = s.created + 1, !.created = @ + 1,
                            !.logging_start = TRUE, !.fsync = TRUE]
  <2>1. Start(s, result) = t
    BY <1>3 DEF Start
  <2>2. s \in Logs /\ Timed(s) /\ s.created \in Nat
    BY DEF Good, Logs
  <2>3. t \in Logs
    <3>1. s.created + 1 \in Nat /\ TRUE \in BOOLEAN
      BY <2>2
    <3>2. [s EXCEPT !.file = s.created + 1] \in Logs
      BY <2>2, <3>1 DEF Logs
    <3>. QED BY <2>2, <3>1, <3>2, Zenon DEF Logs
  <2>7. t.logging_start = TRUE /\ t.fsync = TRUE /\ t.alive = s.alive
    BY <2>2 DEF Logs
  <2>4. t.file = s.created + 1 /\ t.file # NoFile /\ t.log_mode = s.log_mode
    BY <2>2 DEF Logs, NoFile
  <2>5. ~s.alive
    BY <1>3, <2>2 DEF Timed
  <2>6. Timed(t)
    BY <2>4, <2>5, <2>7 DEF Timed
  <2>. HIDE DEF t
  <2>. QED BY <1>3, <2>1, <2>3, <2>4, <2>6, <2>7 DEF Good, SameOrNew
<1>. QED BY <1>1, <1>2, <1>3 DEF StartResults

LEMMA StopGood ==
    ASSUME NEW s, Good(s)
    PROVE  /\ Good(Stop(s))
           /\ Stop(s).file = NoFile
           /\ Stop(s).log_mode = s.log_mode
  BY Zenon DEF Good, Stop, Logs, Timed, NoFile

LEMMA RestartGood ==
    ASSUME NEW s, Good(s), NEW result \in StartResults
    PROVE  /\ Good(Restart(s, result))
           /\ Restart(s, result).log_mode = s.log_mode
           /\ Restart(s, result).file # NoFile => Restart(s, result).logging_start
  BY StopGood, StartGood DEF Restart, SameOrNew

LEMMA StartOrDisableGood ==
    ASSUME NEW s, Good(s), NEW result \in StartResults
    PROVE  /\ Good(StartOrDisable(s, result))
           /\ SameOrNew(s, StartOrDisable(s, result))
           /\ StartOrDisable(s, result).file # NoFile =>
                 StartOrDisable(s, result).log_mode = s.log_mode
<1> DEFINE t == Start(s, result)
<1>1. Good(t) /\ SameOrNew(s, t) /\ t.log_mode = s.log_mode
  BY StartGood
<1>. HIDE DEF t
<1>2. StartOrDisable(s, result) =
         IF t.file = NoFile THEN [t EXCEPT !.log_mode = "disabled"] ELSE t
  BY DEF StartOrDisable, t
<1>3. CASE t.file = NoFile
  BY <1>1, <1>2, <1>3 DEF Good, Logs, LogModes, Timed, SameOrNew
<1>4. CASE t.file # NoFile
  BY <1>1, <1>2, <1>4
<1>. QED BY <1>3, <1>4

\* Messages other than log data: the decision when to log.
LEMMA AutoGood ==
    ASSUME NEW s, Good(s), NEW result \in StartResults,
           NEW msg \in {"armed", "disarmed", "other"}, msg # "other" => s.target,
           NEW a, NEW l, MayLog(s, a, l)
    PROVE  /\ Good(HandleAutoStartStop(s, msg, result))
           /\ SameOrNew(s, HandleAutoStartStop(s, msg, result))
           /\ MayLog(HandleAutoStartStop(s, msg, result),
                     IF msg = "other" THEN a ELSE msg = "armed", l)
           /\ msg = "other" /\ s.file # NoFile => HandleAutoStartStop(s, msg, result) = s
<1> DEFINE t == HandleAutoStartStop(s, msg, result)
           u == StartOrDisable(s, result)
<1>0. s.target \in BOOLEAN /\ s.log_mode \in LogModes
  BY DEF Good, Logs
<1>1. CASE ~s.target
  <2>1. t = s /\ msg = "other"
    BY <1>1 DEF HandleAutoStartStop
  <2>. QED BY <2>1 DEF SameOrNew
<1>2. CASE s.target /\ s.log_mode = "always"
  <2>1. t = IF s.file = NoFile THEN u ELSE s
    BY <1>2 DEF HandleAutoStartStop
  <2>2. CASE s.file = NoFile
    BY <1>2, <2>1, <2>2, StartOrDisableGood DEF MayLog
  <2>3. CASE s.file # NoFile
    <3>1. t = s
      BY <2>1, <2>3
    <3>. QED BY <1>2, <3>1 DEF MayLog, SameOrNew
  <2>. QED BY <2>2, <2>3
<1>3. CASE s.target /\ s.log_mode = "while_armed"
  <2>1. t = IF s.file = NoFile /\ msg = "armed" THEN u
            ELSE IF s.file # NoFile /\ msg = "disarmed" THEN Stop(s) ELSE s
    BY <1>3 DEF HandleAutoStartStop
  <2>2. CASE s.file = NoFile /\ msg = "armed"
    BY <1>3, <2>1, <2>2, StartOrDisableGood DEF MayLog
  <2>3. CASE s.file # NoFile /\ msg = "disarmed"
    BY <2>1, <2>3, StopGood DEF MayLog, SameOrNew
  <2>4. CASE ~(s.file = NoFile /\ msg = "armed") /\ ~(s.file # NoFile /\ msg = "disarmed")
    <3>1. t = s
      BY <2>1, <2>4
    <3>. QED BY <2>4, <3>1 DEF MayLog, SameOrNew
  <2>. QED BY <2>2, <2>3, <2>4
<1>4. CASE s.target /\ s.log_mode = "disabled"
  <2>1. t = s
    BY <1>4 DEF HandleAutoStartStop
  <2>. QED BY <1>4, <2>1 DEF MayLog, SameOrNew
<1>. QED BY <1>0, <1>1, <1>2, <1>3, <1>4 DEF LogModes

LEMMA StartAliveGood ==
    ASSUME NEW s, Good(s), s.logging_start, NEW works \in BOOLEAN
    PROVE  /\ Good(StartAlive(s, works))
           /\ StartAlive(s, works).file = s.file
           /\ StartAlive(s, works).log_mode = s.log_mode
  BY Zenon DEF Good, StartAlive, Logs, Timed

-----------------------------------------------------------------------------
\* What holds for every log type.
EndpointInv ==
    Good(log) /\ armed \in BOOLEAN /\ late \in BOOLEAN /\ MayLog(log, armed, late)

\* In a BinLog the session of an open file that waits for nothing has begun.
Inv ==
    /\ EndpointInv
    /\ logger = "none" => log.file = NoFile
    /\ logger = "BinLog" /\ log.file # NoFile /\ ~log.logging_start => log.file \in begun
    /\ AckedIsOnDisk /\ NoStaleBlocks

LEMMA FirstIsResult == FirstResults \subseteq StartResults
  BY DEF FirstResults, StartResults

LEMMA MessageKeeps ==
    ASSUME EndpointInv, NEW msg \in {"armed", "disarmed", "other"}, Message(msg)
    PROVE  EndpointInv' /\ SameOrNew(log, log')
<1> DEFINE s == Seen(log, msg)
<1>1. Good(log) /\ log \in Logs /\ MayLog(log, armed, late)
  BY DEF EndpointInv, Good
<1>2. Good(s) /\ MayLog(s, armed, late)
  BY <1>1, Zenon DEF Seen, Good, Logs, Timed, MayLog
<1>3. s.file = log.file /\ s.logging_start = log.logging_start
  BY <1>1 DEF Seen, Logs
<1>4. msg # "other" => s.target
  BY <1>1, Zenon DEF Seen, Logs
<1>. HIDE DEF s
<1>5. PICK result \in StartResults : log' = HandleAutoStartStop(s, msg, result)
  BY FirstIsResult DEF Message, s
<1>6. armed' = IF msg = "other" THEN armed ELSE msg = "armed"
  BY DEF Message
<1>7. /\ Good(log') /\ SameOrNew(s, log')
      /\ MayLog(log', IF msg = "other" THEN armed ELSE msg = "armed", late)
  BY <1>2, <1>4, <1>5, AutoGood
<1>8. armed' \in BOOLEAN /\ late' = late
  BY <1>6, Zenon DEF EndpointInv, Message
<1>9. MayLog(log', armed', late')
  BY <1>6, <1>7, <1>8
<1>. QED BY <1>3, <1>7, <1>8, <1>9 DEF EndpointInv, SameOrNew

\* An endpoint that restarts the log.
LEMMA RestartMayLog ==
    ASSUME NEW s, Good(s), NEW a, NEW l, MayLog(s, a, l), s.file # NoFile \/ l,
           NEW result \in StartResults
    PROVE  MayLog(Restart(s, result), a, l)
  BY RestartGood DEF MayLog

LEMMA AliveTimeoutKeeps ==
    ASSUME EndpointInv, AliveTimeout
    PROVE  EndpointInv' /\ SameOrNew(log, log')
<1>1. log.file # NoFile /\ armed' = armed /\ late' = late
  BY DEF AliveTimeout, EndpointInv, Good, Timed
<1>2. CASE log' = log
  BY <1>1, <1>2 DEF EndpointInv, SameOrNew
<1>3. ASSUME NEW result \in StartResults, log' = Restart(log, result)
      PROVE  EndpointInv' /\ SameOrNew(log, log')
  <2>1. Good(log') /\ MayLog(log', armed, late)
    BY <1>1, <1>3, RestartGood, RestartMayLog DEF EndpointInv
  <2>2. SameOrNew(log, log')
    BY <1>3, RestartGood DEF EndpointInv, SameOrNew
  <2>. QED BY <1>1, <2>1, <2>2 DEF EndpointInv
<1>. QED BY <1>2, <1>3 DEF AliveTimeout

\* The state of the endpoint when a message other than a heartbeat was looked at.
LEMMA OtherGood ==
    ASSUME EndpointInv, NEW first \in FirstResults
    PROVE  LET s == HandleAutoStartStop(log, "other", first)
           IN  /\ Good(s) /\ SameOrNew(log, s) /\ MayLog(s, armed, late)
               /\ log.file # NoFile => s = log
<1>1. first \in StartResults /\ Good(log) /\ MayLog(log, armed, late)
  BY FirstIsResult DEF EndpointInv
<1>. QED BY <1>1, AutoGood

\* A session that begins moves the timers and nothing else.
LEMMA StartAliveMayLog ==
    ASSUME NEW s, Good(s), s.logging_start, NEW works \in BOOLEAN,
           NEW a, NEW l, MayLog(s, a, l)
    PROVE  MayLog(StartAlive(s, works), a, l)
  BY StartAliveGood DEF MayLog

LEMMA CommandAckKeeps ==
    ASSUME EndpointInv, NEW accepted \in BOOLEAN, NEW works \in BOOLEAN,
           NEW first \in FirstResults, CommandAck(accepted, first, works)
    PROVE  EndpointInv'
<1> DEFINE s == HandleAutoStartStop(log, "other", first)
<1>1. Good(s) /\ MayLog(s, armed, late)
  BY OtherGood
<1>2. /\ armed' = armed /\ late' = late
      /\ log' = IF s.logging_start /\ accepted THEN StartAlive(s, works) ELSE s
  BY DEF CommandAck
<1>. HIDE DEF s
<1>3. CASE s.logging_start /\ accepted
  BY <1>1, <1>2, <1>3, StartAliveGood, StartAliveMayLog DEF EndpointInv
<1>4. CASE ~(s.logging_start /\ accepted)
  BY <1>1, <1>2, <1>4 DEF EndpointInv
<1>. QED BY <1>3, <1>4

LEMMA DataChunkKeeps ==
    ASSUME EndpointInv, NEW n, NEW first \in FirstResults, DataChunk(n, first)
    PROVE  EndpointInv'
<1> DEFINE s == HandleAutoStartStop(log, "other", first)
<1>1. Good(s) /\ MayLog(s, armed, late) /\ (log.file # NoFile => s = log)
  BY OtherGood
<1>2. armed' = armed /\ late' = (late \/ log.file = NoFile)
  BY DEF DataChunk
<1>3. log' = s \/ \E result \in StartResults : log' = Restart(s, result)
  BY DEF DataChunk
<1>. HIDE DEF s
<1>4. late' \in BOOLEAN /\ armed' \in BOOLEAN
  BY <1>2 DEF EndpointInv
<1>5. MayLog(s, armed, late') /\ (s.file # NoFile \/ late')
  BY <1>1, <1>2, Zenon DEF MayLog
<1>6. Good(log') /\ MayLog(log', armed, late')
  BY <1>1, <1>3, <1>5, RestartGood, RestartMayLog
<1>. QED BY <1>2, <1>4, <1>6 DEF EndpointInv

LEMMA BlockKeeps ==
    ASSUME Inv, logger = "BinLog", logger' = logger, NEW seqno, NEW w,
           NEW first \in FirstResults, NEW works \in BOOLEAN,
           Block(seqno, w, first, works)
    PROVE  Inv'
<1> DEFINE s == HandleAutoStartStop(log, "other", first)
           t == IF s.logging_start THEN StartAlive(s, works) ELSE s
<1>0. EndpointInv /\ armed \in BOOLEAN /\ late \in BOOLEAN
  BY DEF Inv, EndpointInv
<1>1. Good(s) /\ SameOrNew(log, s) /\ MayLog(s, armed, late) /\ (log.file # NoFile => s = log)
  BY <1>0, OtherGood
<1>2. armed' = armed /\ late' = (late \/ log.file = NoFile)
  BY DEF Block
<1>3. \/ /\ AwaitsFirst(s, seqno) /\ log' = s /\ UNCHANGED <<disk, begun, acks>>
      \/ /\ ~AwaitsFirst(s, seqno) /\ WriteBlock(t, seqno, w)
         /\ begun' = IF seqno = 0 /\ s.file # NoFile THEN begun \cup {s.file} ELSE begun
  BY DEF Block
<1>. HIDE DEF s
<1>4. late' \in BOOLEAN /\ armed' \in BOOLEAN
  BY <1>0, <1>2
<1>5. MayLog(s, armed, late') /\ (s.file # NoFile \/ late')
  BY <1>1, <1>2, Zenon DEF MayLog
<1>6. s.logging_start \in BOOLEAN
  BY <1>1 DEF Good, Logs
<1>7. Good(t) /\ MayLog(t, armed, late') /\ t.file = s.file /\ ~t.logging_start
  <2>1. CASE s.logging_start
    <3>1. t = StartAlive(s, works)
      BY <2>1
    <3>2. t.logging_start = FALSE
      BY <1>1, <3>1 DEF StartAlive, Good, Logs
    <3>. QED BY <1>1, <1>5, <2>1, <3>1, <3>2, StartAliveGood, StartAliveMayLog
  <2>2. CASE ~s.logging_start
    <3>1. t = s
      BY <2>2
    <3>. QED BY <1>1, <1>5, <2>2, <3>1
  <2>. QED BY <1>6, <2>1, <2>2
<1>. HIDE DEF t
<1>8. CASE AwaitsFirst(s, seqno) /\ log' = s /\ UNCHANGED <<disk, begun, acks>>
  <2>1. EndpointInv'
    BY <1>1, <1>2, <1>4, <1>5, <1>8 DEF EndpointInv
  <2>. QED BY <1>8, <2>1 DEF Inv, AwaitsFirst, AckedIsOnDisk, NoStaleBlocks
<1>9. CASE /\ ~AwaitsFirst(s, seqno) /\ WriteBlock(t, seqno, w)
           /\ begun' = IF seqno = 0 /\ s.file # NoFile THEN begun \cup {s.file} ELSE begun
  <2>1. begun \subseteq begun'
    BY <1>9
  <2>2. CASE t.file = NoFile \/ w = "error"
    <3>1. PICK result \in StartResults : log' = Restart(t, result)
      BY <1>9, <2>2 DEF WriteBlock
    <3>2. UNCHANGED <<disk, acks>>
      BY <1>9, <2>2 DEF WriteBlock
    <3>3. /\ Good(log') /\ MayLog(log', armed, late')
          /\ log'.file # NoFile => log'.logging_start
      BY <1>5, <1>7, <3>1, RestartGood, RestartMayLog
    <3>. QED BY <1>2, <1>4, <2>1, <3>2, <3>3
             DEF Inv, EndpointInv, AckedIsOnDisk, NoStaleBlocks
  <2>3. CASE ~(t.file = NoFile \/ w = "error")
    <3>1. log' = t
      BY <1>9, <2>3 DEF WriteBlock, Written
    <3>2. \/ disk' = disk /\ acks' = acks
          \/ disk' = disk \cup {<<t.file, seqno>>} /\ acks' = acks \cup {<<t.file, seqno>>}
      BY <1>9, <2>3 DEF WriteBlock, Written, SendAck
    <3>3. t.file \in begun'
      <4>1. CASE s.logging_start
        BY <1>7, <1>9, <2>3, <4>1 DEF AwaitsFirst
      <4>2. CASE ~s.logging_start
        BY <1>1, <1>7, <2>1, <2>3, <4>2 DEF SameOrNew, Inv
      <4>. QED BY <4>1, <4>2
    <3>4. EndpointInv'
      BY <1>2, <1>4, <1>7, <3>1 DEF EndpointInv
    <3>5. AckedIsOnDisk' /\ NoStaleBlocks'
      BY <2>1, <3>2, <3>3 DEF Inv, AckedIsOnDisk, NoStaleBlocks
    <3>. QED BY <3>1, <3>3, <3>4, <3>5 DEF Inv
  <2>. QED BY <2>2, <2>3
<1>. QED BY <1>3, <1>8, <1>9

-----------------------------------------------------------------------------
LEMMA InitInv == Init => Inv
<1> SUFFICES ASSUME Init PROVE Inv
  OBVIOUS
<1>1. PICK mode \in Modes, known \in BOOLEAN : log = NewLogEndpoint(mode, known)
  BY DEF Init, EndpointInit
<1>2. mode \in LogModes
  BY LogEndpointAssumption DEF LogModes
<1>3. log.file = NoFile /\ Good(log)
  BY <1>1, <1>2 DEF NewLogEndpoint, Good, Logs, Timed, NoFile
<1>4. EndpointInv
  BY <1>3, Zenon DEF EndpointInv, MayLog, Init, EndpointInit
<1>. QED BY <1>3, <1>4 DEF Inv, Init, BinLogInit, AckedIsOnDisk, NoStaleBlocks

\* What a step needs that neither writes a block nor begins a session.
LEMMA NoBlockKeeps ==
    ASSUME Inv, EndpointInv', logger' # "none",
           UNCHANGED <<disk, begun, acks>>,
           logger' = "BinLog" => SameOrNew(log, log') /\ (logger = "BinLog" \/ log.file = NoFile)
    PROVE  Inv'
<1>1. AckedIsOnDisk' /\ NoStaleBlocks'
  BY DEF Inv, AckedIsOnDisk, NoStaleBlocks
<1>2. logger' = "BinLog" /\ log'.file # NoFile /\ ~log'.logging_start => log'.file \in begun'
  BY DEF Inv, SameOrNew
<1>. QED BY <1>1, <1>2 DEF Inv

LEMMA NextInv == Inv /\ [Next]_vars => Inv'
<1> SUFFICES ASSUME Inv, [Next]_vars PROVE Inv'
  OBVIOUS
<1>0. EndpointInv
  BY DEF Inv
<1>1. ASSUME NEW msg \in {"armed", "disarmed", "other"}, Choose(msg)
      PROVE  Inv'
  <2>1. log.file = NoFile /\ log' = log /\ late' = late /\ UNCHANGED <<disk, begun, acks>>
    BY <1>1 DEF Choose, Inv, binlogVars
  <2>2. armed' \in BOOLEAN
    BY <1>0, <1>1, Zenon DEF Choose, EndpointInv
  <2>3. EndpointInv'
    BY <1>0, <2>1, <2>2 DEF EndpointInv, MayLog
  <2>. QED BY <2>1, <2>3 DEF Inv, AckedIsOnDisk, NoStaleBlocks
<1>2. CASE logger = "BinLog" /\ BinLogNext /\ UNCHANGED logger
  <2>1. ASSUME NEW msg \in {"armed", "disarmed", "other"}, Message(msg), BinLogFollows
        PROVE  Inv'
    BY <1>0, <1>2, <2>1, MessageKeeps, NoBlockKeeps DEF BinLogFollows
  <2>2. ASSUME NEW seqno, NEW w, NEW first \in FirstResults, NEW works \in BOOLEAN,
               Block(seqno, w, first, works)
        PROVE  Inv'
    BY <1>2, <2>2, BlockKeeps
  <2>3. CASE AliveTimeout /\ BinLogFollows
    BY <1>0, <1>2, <2>3, AliveTimeoutKeeps, NoBlockKeeps DEF BinLogFollows
  <2>. QED BY <1>2, <2>1, <2>2, <2>3 DEF BinLogNext
<1>3. CASE logger = "ULog" /\ ULogNext /\ UNCHANGED <<logger, binlogVars>>
  <2>1. EndpointInv'
    BY <1>0, <1>3, MessageKeeps, CommandAckKeeps, DataChunkKeeps, AliveTimeoutKeeps
       DEF ULogNext
  <2>. QED BY <1>3, <2>1, NoBlockKeeps DEF binlogVars
<1>4. CASE logger = "TLog" /\ TLogNext /\ UNCHANGED <<logger, binlogVars>>
  <2>1. EndpointInv'
    BY <1>0, <1>4, MessageKeeps DEF TLogNext
  <2>. QED BY <1>4, <2>1, NoBlockKeeps DEF binlogVars
<1>5. CASE StopAtExit
  <2>1. Good(log') /\ log'.file = NoFile
    BY <1>0, <1>5, StopGood DEF StopAtExit, EndpointInv
  <2>2. EndpointInv'
    BY <1>0, <1>5, <2>1 DEF StopAtExit, EndpointInv, MayLog
  <2>. QED BY <1>5, <2>2, NoBlockKeeps DEF StopAtExit, binlogVars
<1>6. CASE UNCHANGED vars
  BY <1>6 DEF vars, endpointVars, binlogVars, Inv, EndpointInv, Good, Timed, MayLog,
              AckedIsOnDisk, NoStaleBlocks
<1>. QED BY <1>1, <1>2, <1>3, <1>4, <1>5, <1>6 DEF Next, Delegate

\* Inv, along every behaviour, whatever the log type and however often files,
\* timers and writes fail.
LEMMA Invariance == Spec => []Inv
  BY InitInv, NextInv, PTL DEF Spec

\* No timer outlives the file it was created for, and an open file is written
\* back and either awaited or watched.
THEOREM Timers == Spec => []TimersMatchFile
<1>1. Inv => TimersMatchFile
  BY DEF Inv, EndpointInv, Good, Timed, TimersMatchFile
<1>. QED BY <1>1, Invariance, PTL

\* In the while-armed mode _handle_auto_start_stop keeps a file open only while
\* the vehicle is armed, unless log data came while no file was open.
THEOREM WhileArmed == Spec => []LoggedWhileArmed
<1>1. Inv => LoggedWhileArmed
  BY DEF Inv, EndpointInv, Good, Logs, LogModes, MayLog, LoggedWhileArmed
<1>. QED BY <1>1, Invariance, PTL

\* BinLog acknowledges no block that is not in the file.
THEOREM Acked == Spec => []AckedIsOnDisk
<1>1. Inv => AckedIsOnDisk
  BY DEF Inv
<1>. QED BY <1>1, Invariance, PTL

\* BinLog writes no block of an earlier session into a new file.
THEOREM OwnBlocks == Spec => []NoStaleBlocks
<1>1. Inv => NoStaleBlocks
  BY DEF Inv
<1>. QED BY <1>1, Invariance, PTL

-----------------------------------------------------------------------------
\* The log's state is untouched until ULog is the logger.
ULogInv ==
    /\ Kept(log.file, ulog, written, next)
    /\ logger \in {"none", "BinLog", "TLog"} =>
          ulog = Fresh /\ written = NothingWritten /\ next = 0

LEMMA ULogInitially == Init => ULogInv
  BY FreshKept DEF Init, ULogInit, ULogInv

LEMMA ULogInductive == Inv /\ ULogInv /\ [Next]_vars => ULogInv'
<1> SUFFICES ASSUME Inv, ULogInv, [Next]_vars PROVE ULogInv'
  OBVIOUS
<1>0. EndpointInv /\ Kept(log.file, ulog, written, next)
  BY DEF Inv, ULogInv
<1>1. ASSUME UNCHANGED ulogVars, logger \in {"none", "BinLog", "TLog"} PROVE ULogInv'
  <2>1. ulog' = Fresh /\ written' = NothingWritten /\ next' = 0
    BY <1>1 DEF ULogInv, ulogVars
  <2>. QED BY <2>1, FreshKept, Zenon DEF ULogInv
<1>2. ASSUME NEW msg \in {"armed", "disarmed", "other"}, Choose(msg) PROVE ULogInv'
  BY <1>1, <1>2 DEF Choose
<1>3. CASE logger = "ULog" /\ ULogNext /\ logger' = logger
  <2>1. Kept(log'.file, ulog', written', next')
    BY <1>0, <1>3, FollowsKept, DataKept DEF ULogNext, CommandAck
  <2>. QED BY <1>3, <2>1 DEF ULogInv
<1>4. CASE Delegate
  BY <1>1, <1>3, <1>4 DEF Delegate
<1>5. CASE StopAtExit
  <2>1. logger' = "stopped"
    BY <1>5 DEF StopAtExit
  <2>2. CASE logger = "ULog"
    <3>1. Kept(log'.file, ulog', written', next')
      BY <1>0, <1>5, <2>2, FollowsKept DEF StopAtExit
    <3>. QED BY <2>1, <3>1 DEF ULogInv
  <2>3. CASE logger # "ULog"
    <3>1. /\ ulog' = ulog /\ next' = next /\ written' = written /\ log'.file = NoFile
      BY <1>0, <1>5, <2>3, StopGood DEF StopAtExit, ulogVars, EndpointInv
    <3>2. Kept(NoFile, ulog, written, next)
      BY <1>0, Zenon DEF Kept, Ready
    <3>. QED BY <2>1, <3>1, <3>2, Zenon DEF ULogInv
  <2>. QED BY <2>2, <2>3
<1>6. CASE UNCHANGED vars
  BY <1>6 DEF vars, endpointVars, ulogVars, ULogInv, Kept, Ready
<1>. QED BY <1>2, <1>4, <1>5, <1>6 DEF Next

LEMMA ULogInvariance == Spec => []ULogInv
  BY ULogInitially, ULogInductive, Invariance, PTL DEF Spec

\* The bytes of ULog stay within its two buffers, whatever arrives and however
\* much of it the file takes.
THEOREM BufferHolds == Spec => []InsideBuffer
<1>1. ULogInv => InsideBuffer
  BY DEF ULogInv, Kept, Inside, InsideBuffer
<1>. QED BY <1>1, ULogInvariance, PTL

\* ULog writes the header and then whole messages in order, each at most once.
THEOREM FileInOrder == Spec => []WholeMessages
<1>1. ULogInv => WholeMessages
  BY DEF ULogInv, Kept, Linked, WholeMessages
<1>. QED BY <1>1, ULogInvariance, PTL

\* The expected sequence number is that of the chunk after the newest one.
THEOREM SeqKept == Spec => []SeqFollows
<1>1. ULogInv => SeqFollows
  BY DEF ULogInv, Kept, SeqFollows
<1>. QED BY <1>1, ULogInvariance, PTL
=============================================================================
