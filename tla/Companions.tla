----------------------------- MODULE Companions -----------------------------
(***************************************************************************)
(* The two companion programs of examples/ and a vehicle, connected by the *)
(* router.  Offboard tells the vehicle to arm, the vehicle asks            *)
(* ArmAuthorizer, Offboard flies it, lands it and disarms it.              *)
(*                                                                         *)
(* The vehicle is modelled from how the two programs use it.  Every link   *)
(* keeps the order of its messages.  The links between the vehicle and the *)
(* authorizer either lose messages (a full transmit buffer of the router)  *)
(* or delay them past the authorization timeout, depending on lossy.       *)
(***************************************************************************)
EXTENDS ArmAuthorizer, Offboard, SequencesExt

CONSTANTS
    Missions,   \* missions the vehicle may have: altitudes of their items
    Depth,      \* bound: messages under way on a link of the authorizer
    CommandDepth, ReportDepth   \* bounds: messages under way from and to Offboard

ASSUME CompanionsAssumption ==
    /\ \A m \in Missions : m \in Seq({"low", "high"})
    /\ {Depth, CommandDepth, ReportDepth} \subseteq Nat \ {0}

VARIABLES
    auth, ob,               \* the two programs
    veh, mission, lossy,    \* the vehicle, its mission, the kind of link
    to_auth, auth_to_veh, to_ob, ob_to_veh   \* the links

vars == <<auth, ob, veh, mission, lossy, to_auth, auth_to_veh, to_ob, ob_to_veh>>

Init ==
    /\ auth = AuthorizerInit
    /\ ob = OffboardInit
    /\ veh = [armed |-> FALSE, asking |-> FALSE, offboard |-> FALSE, landed |-> "ON_GROUND",
              position |-> Home, target |-> Home]
    /\ mission \in Missions
    /\ lossy \in BOOLEAN
    /\ to_auth = <<>> /\ auth_to_veh = <<>> /\ to_ob = <<>> /\ ob_to_veh = <<>>

\* The contents of a link after messages were sent on it.
Sent(link, messages, depth) ==
    IF Len(link \o messages) <= depth THEN {link \o messages} ELSE {}

SentOrLost(link, messages) == Sent(link, messages, Depth) \cup IF lossy THEN {link} ELSE {}

-----------------------------------------------------------------------------
\* The vehicle ignores IN_PROGRESS and MISSION_ACK.
Noticed(messages) ==
    SelectSeq(messages, LAMBDA m : m # CommandAck("IN_PROGRESS") /\ m.type # "MISSION_ACK")

AuthorizerTurn(m) ==
    LET a == AuthorizerReceives(auth, m)
    IN  /\ auth' = [a EXCEPT !.out = <<>>]
        /\ auth_to_veh' \in SentOrLost(auth_to_veh, Noticed(a.out))
        /\ UNCHANGED <<ob, veh, mission, lossy, to_ob, ob_to_veh>>

AuthorizerHandles ==
    to_auth # <<>> /\ AuthorizerTurn(Head(to_auth)) /\ to_auth' = Tail(to_auth)

\* Traffic that is not for the authorizer.
AuthorizerHears == AuthorizerTurn([type |-> "HEARTBEAT"]) /\ UNCHANGED to_auth

\* No part of a mission, and no request for one, is under way.
Quiet ==
    /\ \A i \in DOMAIN to_auth : to_auth[i].type = "COMMAND_LONG"
    /\ \A i \in DOMAIN auth_to_veh : auth_to_veh[i].type = "COMMAND_ACK"

AuthorizationExpires ==
    /\ auth.state # "IDLE" /\ ~auth.expired
    /\ lossy => Quiet
    /\ auth' = [auth EXCEPT !.expired = TRUE]
    /\ UNCHANGED <<ob, veh, mission, lossy, to_auth, auth_to_veh, to_ob, ob_to_veh>>

OffboardTurn ==
    /\ ~ob.should_exit /\ to_ob # <<>>
    /\ \E o \in {TurnTcp(ob, Head(to_ob)), TurnBoth(ob, Head(to_ob))} :
          /\ ob' = [o EXCEPT !.out = <<>>]
          /\ ob_to_veh' \in Sent(ob_to_veh, o.out, CommandDepth) \cup {ob_to_veh}
    /\ to_ob' = Tail(to_ob)
    /\ UNCHANGED <<auth, veh, mission, lossy, to_auth, auth_to_veh>>

-----------------------------------------------------------------------------
\* The vehicle.  What it answers to a message of the authorizer:
Answer(m) ==
    CASE m.type = "MISSION_REQUEST_LIST" -> <<[type |-> "MISSION_COUNT", count |-> Len(mission)]>>
      [] m.type = "MISSION_REQUEST_INT" /\ m.seq < Len(mission) ->
            <<[type |-> "MISSION_ITEM_INT", seq |-> m.seq, altitude |-> mission[m.seq + 1]]>>
      [] OTHER -> <<>>

VehicleHearsAuthorizer ==
    /\ auth_to_veh # <<>>
    /\ LET m == Head(auth_to_veh)
       IN  /\ veh' = IF m.type = "COMMAND_ACK"
                     THEN [veh EXCEPT !.armed = @ \/ (veh.asking /\ m.result = "ACCEPTED"),
                                      !.asking = FALSE]
                     ELSE veh
           /\ to_auth' \in SentOrLost(to_auth, Answer(m))
    /\ auth_to_veh' = Tail(auth_to_veh)
    /\ UNCHANGED <<auth, ob, mission, lossy, to_ob, ob_to_veh>>

VehicleGivesUp ==
    /\ veh.asking
    /\ veh' = [veh EXCEPT !.asking = FALSE]
    /\ UNCHANGED <<auth, ob, mission, lossy, to_auth, auth_to_veh, to_ob, ob_to_veh>>

Obeys(m) ==
    CASE m.type = "DO_SET_MODE" -> [veh EXCEPT !.offboard = veh.landed # "LANDING"]
      [] m.type = "ARM_DISARM" /\ ~m.arm -> [veh EXCEPT !.armed = @ /\ veh.landed # "ON_GROUND"]
      [] m.type = "ARM_DISARM" /\ m.arm -> [veh EXCEPT !.asking = ~veh.armed]
      [] m.type = "NAV_LAND" /\ veh.landed = "IN_AIR" ->
            [veh EXCEPT !.landed = "LANDING", !.offboard = FALSE]
      [] m.type = "SET_POSITION" -> [veh EXCEPT !.target = m.position]
      [] OTHER -> veh

VehicleObeys ==
    /\ ob_to_veh # <<>>
    /\ LET m == Head(ob_to_veh)
           asks == m.type = "ARM_DISARM" /\ m.arm /\ ~veh.armed /\ ~veh.asking
       IN  /\ asks => Len(to_auth) + 1 < Depth
           /\ veh' = Obeys(m)
           /\ to_auth' \in SentOrLost(to_auth, IF asks THEN <<[type |-> "COMMAND_LONG"]>> ELSE <<>>)
    /\ ob_to_veh' = Tail(ob_to_veh)
    /\ UNCHANGED <<auth, ob, mission, lossy, auth_to_veh, to_ob>>

VehicleMoves ==
    /\ \/ /\ veh.armed /\ veh.offboard /\ veh.position # veh.target
          /\ veh' = [veh EXCEPT !.position = veh.target,
                                !.landed = IF veh.target[3] < 0 THEN "IN_AIR" ELSE @]
       \/ /\ veh.landed = "LANDING"
          /\ veh' = [veh EXCEPT !.landed = "ON_GROUND", !.position = [@ EXCEPT ![3] = 0]]
       \/ /\ veh.armed /\ veh.landed = "ON_GROUND" /\ ~veh.offboard
          /\ veh' = [veh EXCEPT !.armed = FALSE]
    /\ UNCHANGED <<auth, ob, mission, lossy, to_auth, auth_to_veh, to_ob, ob_to_veh>>

Reports == {
    [type |-> "HEARTBEAT", armed |-> veh.armed, offboard |-> veh.offboard],
    [type |-> "LOCAL_POSITION_NED", position |-> veh.position],
    [type |-> "EXTENDED_SYS_STATE", landed_state |-> veh.landed],
    [type |-> "HOME_POSITION"]}

\* A report that is lost is one that was not sent.
VehicleReports ==
    /\ \E m \in Reports : to_ob' \in Sent(to_ob, <<m>>, ReportDepth)
    /\ UNCHANGED <<auth, ob, veh, mission, lossy, to_auth, auth_to_veh, ob_to_veh>>

Next ==
    \/ AuthorizerHandles \/ AuthorizerHears \/ AuthorizationExpires
    \/ OffboardTurn
    \/ VehicleHearsAuthorizer \/ VehicleGivesUp \/ VehicleObeys \/ VehicleMoves
    \/ VehicleReports

\* The links carry what was sent, other traffic never ends, and time passes.
Fairness ==
    /\ WF_vars(AuthorizerHandles) /\ WF_vars(VehicleHearsAuthorizer)
    /\ SF_vars(AuthorizationExpires)
    /\ SF_vars(auth.expired /\ AuthorizerHears)

Spec == Init /\ [][Next]_vars /\ Fairness

-----------------------------------------------------------------------------
\* A vehicle is armed only if its mission has items and none is too high,
\* however often it asked, gave up and asked again, and whatever was lost or
\* late: the authorizer has seen every item since it set mission_valid.
ArmedWasChecked ==
    veh.armed => mission # <<>> /\ \A i \in DOMAIN mission : mission[i] = "low"

\* "then land and disarm" (px4-offboard-mode.cpp:35): when the program has
\* ended the vehicle is on the ground and disarmed, although the program only
\* knows what the vehicle reported some time ago.
EndsSafe == ob.should_exit => veh.landed = "ON_GROUND" /\ ~veh.armed

\* Every request for authorization is answered, or ends with the timeout, if
\* other traffic goes on.
Answered == auth.state # "IDLE" ~> auth.state = "IDLE"
=============================================================================
