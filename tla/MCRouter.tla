------------------------------ MODULE MCRouter ------------------------------
(***************************************************************************)
(* A small router: vehicle 1 is reached over the links of group "radio",   *)
(* the messages are its broadcast heartbeat, a command of ground station 2 *)
(* to one component, and what a log sends to the whole vehicle.  Station 2 *)
(* is the sniffer.                                                         *)
(***************************************************************************)
EXTENDS Router

Vehicle == <<1, 1>>
Station == <<2, 1>>

MCLogId == <<9, 0>>

MCSysComps == {Vehicle, Station, MCLogId}

Msg(id, src, tgtSys, tgtComp) ==
    [id |-> id, src |-> src, tgtSys |-> tgtSys, tgtComp |-> tgtComp]

Heartbeat == Msg("heartbeat", Vehicle, Broadcast, Broadcast)
Command   == Msg("command", Station, 1, 1)
LogStart  == Msg("command", MCLogId, 1, Broadcast)

MCMessages == {Heartbeat, Command}
MCLogMessages == {LogStart}

NoFilter == [allowMsg |-> {}, blockMsg |-> {}, allowComp |-> {},
             blockComp |-> {}, allowSys |-> {}, blockSys |-> {}]

\* Two links of a group, one of them a TCP client, a client of the TCP server, a
\* log, and "extra", which the command pipe adds to the group.
MCEndpoints == {"uart", "tcp", "client", "log", "extra"}
MCConfigured == <<"uart", "tcp", "log">>
MCKind == [uart |-> "uart", tcp |-> "tcp_client", client |-> "tcp_accepted",
           log |-> "log", extra |-> "udp_client"]
MCName == [e \in MCEndpoints |-> e]
MCGroup == [e \in MCEndpoints |->
               IF e \in {"uart", "tcp", "extra"} THEN "radio" ELSE NoGroup]
MCInFilter == [e \in MCEndpoints |->
                  IF e = "tcp" THEN [NoFilter EXCEPT !.blockMsg = {"command"}]
                  ELSE IF e = "uart" THEN [NoFilter EXCEPT !.allowSys = {1}]
                  ELSE IF e = "client" THEN [NoFilter EXCEPT !.blockMsg = {"heartbeat"}]
                  ELSE NoFilter]
MCOutFilter == [e \in MCEndpoints |->
                   IF e = "client" THEN [NoFilter EXCEPT !.blockSys = {9}]
                   ELSE NoFilter]
=============================================================================
