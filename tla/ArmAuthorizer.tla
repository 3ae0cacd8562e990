--------------------------- MODULE ArmAuthorizer ---------------------------
(***************************************************************************)
(* examples/arm-authorizer: a program connected to the router that a       *)
(* vehicle asks before it arms.  It fetches the vehicle's mission, item by *)
(* item, and accepts if no item is too high.                               *)
(*                                                                         *)
(* Operators on a record: what a received message does to the program's    *)
(* state, and which messages it sends (out).  Altitudes are "low" or       *)
(* "high".  expired says that the authorization timeout has passed; the    *)
(* program looks at it after it has received something.  Its heartbeats    *)
(* are left out.                                                           *)
(***************************************************************************)
EXTENDS Naturals, Sequences

AuthorizerInit ==
    [state |-> "IDLE", mission_item_count |-> 0, mission_valid |-> FALSE, expired |-> FALSE,
     out |-> <<>>]

CommandAck(result) == [type |-> "COMMAND_ACK", result |-> result]

RequestInt(seq) == [type |-> "MISSION_REQUEST_INT", seq |-> seq]

HandleCommandLong(a) ==
    IF a.state # "IDLE" THEN a
    ELSE [a EXCEPT !.state = "WAITING_MISSING_COUNT", !.expired = FALSE,
                   !.out = <<CommandAck("IN_PROGRESS"), [type |-> "MISSION_REQUEST_LIST"]>>]

HandleMissionCount(a, count) ==
    CASE a.state # "WAITING_MISSING_COUNT" -> a
      [] a.state = "WAITING_MISSING_COUNT" /\ count = 0 ->
            [a EXCEPT !.state = "IDLE", !.out = <<CommandAck("DENIED")>>]
      [] OTHER ->
            [a EXCEPT !.state = "WAITING_MISSION_ITEMS", !.mission_item_count = count,
                      !.mission_valid = TRUE, !.out = <<RequestInt(0)>>]

\* Mutant: only the last item is looked at.
HandleMissionItemIntLast(a, seq, altitude) ==
    CASE a.state # "WAITING_MISSION_ITEMS" -> a
      [] a.state = "WAITING_MISSION_ITEMS" /\ seq + 1 = a.mission_item_count ->
            [a EXCEPT !.state = "IDLE",
                      !.out = <<CommandAck(IF altitude = "low" THEN "ACCEPTED" ELSE "DENIED")>>]
      [] OTHER -> [a EXCEPT !.out = <<RequestInt(seq + 1)>>]

\* Neither the sender of the item nor its number is compared with the request.
HandleMissionItemInt(a, seq, altitude) ==
    LET valid == a.mission_valid /\ altitude = "low"
    IN  CASE a.state # "WAITING_MISSION_ITEMS" -> a
          [] a.state = "WAITING_MISSION_ITEMS" /\ seq + 1 = a.mission_item_count ->
                [a EXCEPT !.state = "IDLE", !.mission_valid = valid,
                          !.out = <<CommandAck(IF valid THEN "ACCEPTED" ELSE "DENIED"),
                                    [type |-> "MISSION_ACK"]>>]
          [] OTHER -> [a EXCEPT !.mission_valid = valid, !.out = <<RequestInt(seq + 1)>>]

HandleNewMessage(a, m) ==
    CASE m.type = "COMMAND_LONG" -> HandleCommandLong(a)
      [] m.type = "MISSION_COUNT" -> HandleMissionCount(a, m.count)
      [] m.type = "MISSION_ITEM_INT" -> HandleMissionItemInt(a, m.seq, m.altitude)
      [] OTHER -> a

\* Mutant: the timeout is announced and the request stays open.
CheckTimeoutOpen(a) ==
    IF a.state # "IDLE" /\ a.expired
    THEN [a EXCEPT !.out = @ \o <<CommandAck("FAILED"), [type |-> "MISSION_ACK"]>>]
    ELSE a

CheckTimeout(a) ==
    IF a.state # "IDLE" /\ a.expired
    THEN [a EXCEPT !.state = "IDLE",
                   !.out = @ \o <<CommandAck("FAILED"), [type |-> "MISSION_ACK"]>>]
    ELSE a

\* One turn of loop(), with one message received.
AuthorizerReceives(a, m) == CheckTimeout(HandleNewMessage([a EXCEPT !.out = <<>>], m))
=============================================================================
