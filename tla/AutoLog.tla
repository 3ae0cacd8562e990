------------------------------ MODULE AutoLog ------------------------------
(***************************************************************************)
(* The log endpoint that the configuration asks for: a BinLog, a ULog, a   *)
(* TLog, or an AutoLog, which listens for a heartbeat of the flight stack  *)
(* and then creates the BinLog or the ULog that all later messages go to.  *)
(* The endpoint's own state is that of LogEndpoint.                        *)
(*                                                                         *)
(* There is one vehicle; stack is its autopilot (external).                *)
(***************************************************************************)
EXTENDS BinLog, ULog

VARIABLES
    logger,        \* what receives the messages; "none": AutoLog's _logger is null
    stack,         \* the flight stack of the vehicle
    auto_target    \* AutoLog::_target_system_id is known

vars == <<endpointVars, binlogVars, ulogVars, logger, stack, auto_target>>

\* Mainloop::add_endpoints creates the log endpoint.
Init ==
    /\ EndpointInit
    /\ BinLogInit
    /\ ULogInit
    /\ logger \in {"none", "BinLog", "ULog", "TLog"}
    /\ stack \in {"PX4", "ARDUPILOTMEGA", "GENERIC"}
    /\ logger = "BinLog" => stack = "ARDUPILOTMEGA"
    /\ logger = "ULog" => stack = "PX4"
    /\ auto_target = log.target

\* AutoLog::write_msg before there is a logger.  The heartbeat that decides does
\* not reach the logger, which has a target of its own.
Choose(msg) ==
    /\ logger = "none"
    /\ auto_target' = (auto_target \/ msg # "other")
    /\ logger' = CASE msg # "other" /\ stack = "PX4"           -> "ULog"
                   [] msg # "other" /\ stack = "ARDUPILOTMEGA" -> "BinLog"
                   [] OTHER                                    -> "none"
    /\ armed' = IF msg = "other" THEN armed ELSE msg = "armed"
    /\ UNCHANGED <<log, unheard, late, binlogVars, ulogVars, stack>>

\* TLog::write_msg: every message is telemetry.
TLogNext == \E msg \in {"armed", "disarmed", "other"} : Message(msg)

\* Every message goes to the logger.
Delegate ==
    /\ \/ logger = "BinLog" /\ BinLogNext /\ UNCHANGED ulogVars
       \/ logger = "ULog" /\ ULogNext /\ UNCHANGED binlogVars
       \/ logger = "TLog" /\ TLogNext /\ UNCHANGED <<binlogVars, ulogVars>>
    /\ UNCHANGED <<logger, stack, auto_target>>

\* The main loop ends: stop of the log endpoint.
StopAtExit ==
    /\ logger # "stopped"
    /\ log' = Stop(log)
    /\ IF logger = "ULog" THEN ULogFollows ELSE UNCHANGED ulogVars
    /\ logger' = "stopped"
    /\ UNCHANGED <<unheard, armed, late, binlogVars, stack, auto_target>>

Next ==
    \/ \E msg \in {"armed", "disarmed", "other"} : Choose(msg)
    \/ Delegate
    \/ StopAtExit

Spec == Init /\ [][Next]_vars
=============================================================================
