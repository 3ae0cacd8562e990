---------------------------- MODULE LogEndpoint ----------------------------
(***************************************************************************)
(* What the log endpoints share: opening and closing the log file, its     *)
(* timers, and the decision when to log.  An endpoint is a record:         *)
(*                                                                         *)
(*   file           the open file, or NoFile; files are numbered           *)
(*   created        number of files created so far                         *)
(*   readonly       files marked as finished                               *)
(*   logging_start  the timer that asks the flight stack to start          *)
(*   alive          the timer that watches for silence                     *)
(*   fsync          the timer that writes the file back                    *)
(*   log_mode       "always", "while_armed" or "disabled"                  *)
(*   target         a flight stack's heartbeat was seen                    *)
(***************************************************************************)
EXTENDS Naturals

CONSTANTS
    Modes,       \* the configured LogMode
    MaxFiles     \* bound on the files created

ASSUME LogEndpointAssumption ==
    Modes \subseteq {"always", "while_armed"} /\ MaxFiles \in Nat

VARIABLES
    log,         \* the log endpoint
    unheard,     \* _timeout_write_total = _stat.write.total
    armed,       \* history: the flight stack's last heartbeat
    late         \* history: log data came while no log was open

endpointVars == <<log, unheard, armed, late>>

NoFile == 0

\* How LogEndpoint::start can end: everything works, no file can be opened, or
\* the file was created but a timer was not.
StartResults == {"ok", "nofile", "notimer"}

\* ... of a start that happens only when no file is open.
FirstResults == IF log.file = NoFile THEN StartResults ELSE {"ok"}

\* LogSystemId names the flight stack, or its first heartbeat will.
NewLogEndpoint(mode, known) ==
    [file |-> NoFile, created |-> 0, readonly |-> {},
     logging_start |-> FALSE, alive |-> FALSE, fsync |-> FALSE,
     log_mode |-> mode, target |-> known]

EndpointInit ==
    /\ log \in {NewLogEndpoint(mode, known) : mode \in Modes, known \in BOOLEAN}
    /\ unheard = TRUE
    /\ armed = FALSE /\ late = FALSE

\* LogEndpoint::start.
Start(s, result) ==
    IF s.file # NoFile \/ result = "nofile" THEN s
    ELSE IF result = "notimer" THEN [s EXCEPT !.created = @ + 1]
    ELSE [s EXCEPT !.file = s.created + 1, !.created = @ + 1,
                   !.logging_start = TRUE, !.fsync = TRUE]

\* Mutant: the liveness timer is not deleted.
StopKeepsAlive(s) ==
    IF s.file = NoFile THEN s
    ELSE [s EXCEPT !.file = NoFile, !.logging_start = FALSE, !.fsync = FALSE,
                   !.readonly = @ \cup {s.file}]

\* stop of the log types that call LogEndpoint::stop.
Stop(s) ==
    IF s.file = NoFile THEN s
    ELSE [s EXCEPT !.file = NoFile, !.logging_start = FALSE, !.alive = FALSE,
                   !.fsync = FALSE, !.readonly = @ \cup {s.file}]

Restart(s, result) == Start(Stop(s), result)

\* start, and giving up logging when it fails.
StartOrDisable(s, result) ==
    LET t == Start(s, result)
    IN  IF t.file = NoFile THEN [t EXCEPT !.log_mode = "disabled"] ELSE t

\* Mutant: logging goes on after the vehicle is disarmed.
AutoStartOnly(s, msg, result) ==
    IF s.target /\ s.file = NoFile /\ s.log_mode # "disabled"
       /\ (s.log_mode = "while_armed" => msg = "armed")
    THEN StartOrDisable(s, result) ELSE s

\* LogEndpoint::_handle_auto_start_stop.  msg is "armed" or "disarmed" for a
\* heartbeat of the flight stack, "other" for every other message.
HandleAutoStartStop(s, msg, result) ==
    CASE ~s.target                     -> s
      [] s.target /\ s.log_mode = "always" ->
            IF s.file = NoFile THEN StartOrDisable(s, result) ELSE s
      [] s.target /\ s.log_mode = "while_armed" ->
            IF s.file = NoFile /\ msg = "armed" THEN StartOrDisable(s, result)
            ELSE IF s.file # NoFile /\ msg = "disarmed" THEN Stop(s) ELSE s
      [] OTHER                         -> s

\* A message reaches write_msg: the first heartbeat sets the target.
Seen(s, msg) == [s EXCEPT !.target = @ \/ msg \in {"armed", "disarmed"}]

\* LogEndpoint::_start_alive_timeout, which may fail.
StartAlive(s, works) == [s EXCEPT !.logging_start = FALSE, !.alive = works]

\* A message that is not log data reaches write_msg.
Message(msg) ==
    /\ \E result \in FirstResults :
          log' = HandleAutoStartStop(Seen(log, msg), msg, result)
    /\ log'.created <= MaxFiles
    /\ armed' = IF msg = "other" THEN armed ELSE msg = "armed"
    /\ UNCHANGED <<unheard, late>>

\* LogEndpoint::_alive_timeout: after a silent period the log is restarted.
AliveTimeout ==
    /\ log.alive
    /\ IF unheard THEN \E result \in StartResults : log' = Restart(log, result)
       ELSE UNCHANGED log
    /\ log'.created <= MaxFiles
    /\ unheard' = TRUE
    /\ UNCHANGED <<armed, late>>

\* A file was opened, or the open one was closed and none opened.
Opens(new) == new.file # NoFile /\ new.file # log.file

Closes(new) == new.file = NoFile /\ log.file # NoFile

-----------------------------------------------------------------------------
\* The timers belong to the open file: none outlives it, across restarts by the
\* liveness timer and by write errors, and the log either asks the flight stack
\* to start or watches it, never both.
TimersMatchFile ==
    IF log.file = NoFile THEN ~log.fsync /\ ~log.logging_start /\ ~log.alive
    ELSE log.fsync /\ ~(log.logging_start /\ log.alive)

\* "just while the vehicle is armed" (config.sample), as long as no log data
\* comes while no log is open: it starts one, BinLog because lseek fails, ULog
\* because the data has no file header.
LoggedWhileArmed ==
    log.log_mode # "always" /\ log.file # NoFile /\ ~late => armed
=============================================================================
