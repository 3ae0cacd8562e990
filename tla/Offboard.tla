------------------------------ MODULE Offboard ------------------------------
(***************************************************************************)
(* examples/px4-offboard-mode: a program connected to the router that      *)
(* works through a list of tasks: wait for the vehicle, set the mode, arm, *)
(* fly a square, land, disarm.                                             *)
(*                                                                         *)
(* Operators on a record: what a received message and what the 50 ms timer *)
(* do to the program's state, and which messages it sends (out).  A        *)
(* position is <<x, y, z>> in steps of five metres.                        *)
(***************************************************************************)
EXTENDS Integers, Sequences

Task(action, param1) == [action |-> action, param1 |-> param1]

List == <<
    Task("CHECK_STATE", 0), Task("SET_MODE", 0), Task("ARM_DISARM", 1),
    Task("MOVE_Z", -1), Task("WAIT_MOVE", 0), Task("MOVE_X", 1), Task("WAIT_MOVE", 0),
    Task("MOVE_Y", 1), Task("WAIT_MOVE", 0), Task("MOVE_X", -1), Task("WAIT_MOVE", 0),
    Task("MOVE_Y", -1), Task("WAIT_MOVE", 0), Task("LAND", 0), Task("WAIT_LAND", 0),
    Task("ARM_DISARM", 0), Task("END", 0)>>

Home == <<0, 0, 0>>

BasicInfo == {"HEARTBEAT", "LOCAL_POSITION_NED", "EXTENDED_SYS_STATE", "HOME_POSITION"}

OffboardInit ==
    [armed |-> FALSE, offboard |-> FALSE, in_the_air |-> FALSE, landing |-> FALSE,
     vehicle |-> Home, have_basic_info |-> {}, task |-> 1, setpoint |-> Home,
     should_exit |-> FALSE, out |-> <<>>]

HandleExtendedSysState(o, landed_state) ==
    CASE landed_state = "IN_AIR" -> [o EXCEPT !.in_the_air = TRUE, !.landing = FALSE]
      [] landed_state = "ON_GROUND" -> [o EXCEPT !.in_the_air = FALSE, !.landing = FALSE]
      [] landed_state = "LANDING" -> [o EXCEPT !.landing = TRUE]

\* handle_new_message; all messages are from the vehicle.  Acknowledgements
\* are only printed.
HandleReport(o, m) ==
    LET known == IF m.type \in BasicInfo THEN [o EXCEPT !.have_basic_info = @ \cup {m.type}]
                 ELSE o
    IN  CASE m.type = "HEARTBEAT" -> [known EXCEPT !.armed = m.armed, !.offboard = m.offboard]
          [] m.type = "LOCAL_POSITION_NED" -> [known EXCEPT !.vehicle = m.position]
          [] m.type = "EXTENDED_SYS_STATE" -> HandleExtendedSysState(known, m.landed_state)
          [] OTHER -> known

\* The current task is done, without a message to the vehicle.
Advances(o, t) ==
    CASE t.action = "CHECK_STATE" -> o.have_basic_info = BasicInfo /\ ~o.armed /\ ~o.in_the_air
      [] t.action = "SET_MODE" -> o.offboard
      [] t.action = "ARM_DISARM" -> o.armed = (t.param1 = 1)
      [] t.action = "LAND" -> o.landing
      [] t.action = "WAIT_LAND" -> ~o.in_the_air
      [] t.action = "WAIT_MOVE" -> o.vehicle = o.setpoint
      [] t.action \in {"MOVE_X", "MOVE_Y", "MOVE_Z"} -> TRUE
      [] t.action = "END" -> FALSE

\* What is asked of the vehicle as long as the task is not done.
Request(t) ==
    CASE t.action = "SET_MODE" -> <<[type |-> "DO_SET_MODE"]>>
      [] t.action = "ARM_DISARM" -> <<[type |-> "ARM_DISARM", arm |-> t.param1 = 1]>>
      [] t.action = "LAND" -> <<[type |-> "NAV_LAND"]>>
      [] OTHER -> <<>>

Setpoint(o, t) ==
    LET s == o.setpoint
    IN  CASE t.action = "MOVE_X" -> [s EXCEPT ![1] = @ + t.param1]
          [] t.action = "MOVE_Y" -> [s EXCEPT ![2] = @ + t.param1]
          [] t.action = "MOVE_Z" -> [s EXCEPT ![3] = @ + t.param1]
          [] OTHER -> s

\* Mutant: the program does not wait for the ground.
TimeoutCallbackHasty(o) ==
    LET t == List[o.task]
        s == Setpoint(o, t)
    IN  [o EXCEPT !.task = IF Advances(o, t) \/ t.action = "ARM_DISARM" THEN @ + 1 ELSE @,
                  !.setpoint = s,
                  !.should_exit = @ \/ t.action = "END",
                  !.out = (IF Advances(o, t) THEN <<>> ELSE Request(t))
                             \o <<[type |-> "SET_POSITION", position |-> s]>>]

\* Every call handles the current task and then sends the setpoint.
TimeoutCallback(o) ==
    LET t == List[o.task]
        s == Setpoint(o, t)
    IN  [o EXCEPT !.task = IF Advances(o, t) THEN @ + 1 ELSE @,
                  !.setpoint = s,
                  !.should_exit = @ \/ t.action = "END",
                  !.out = (IF Advances(o, t) THEN <<>> ELSE Request(t))
                             \o <<[type |-> "SET_POSITION", position |-> s]>>]

\* One turn of loop().  ret counts the descriptors that are ready, and is also
\* counted down for the socket when only the timer is: the timer is served
\* only in a turn in which there is something to receive.
TurnTcp(o, m) == HandleReport([o EXCEPT !.out = <<>>], m)

TurnBoth(o, m) == TimeoutCallback(TurnTcp(o, m))
=============================================================================
