------------------------------- MODULE Router -------------------------------
(***************************************************************************)
(* The routing core of mavlink-router: the list g_endpoints, the table of  *)
(* (system, component) ids each endpoint has heard from, endpoint groups,  *)
(* de-duplication, the incoming and outgoing message filters, and the loop *)
(* that offers a message to every endpoint.  One step is one handler of    *)
(* the event loop: a message read from an endpoint (Endpoint::handle_read  *)
(* down to Mainloop::route_msg), a command of the command pipe, a TCP      *)
(* connection made or lost.                                                *)
(*                                                                         *)
(* Throttled message ids are left to module ThrottleCache, what a link     *)
(* does with a message it was handed to module TxPath, and the time window *)
(* of the de-duplication to module Dedup: here a message stays in the      *)
(* window until the step DedupExpire takes it out.                         *)
(***************************************************************************)
EXTENDS Naturals, Sequences, FiniteSets

CONSTANTS
    Endpoints,    \* endpoint objects; each one is created at most once
    Configured,   \* the endpoints of the configuration, in creation order
    Kind,         \* Kind[e], a member of Kinds
    Name,         \* Name[e], what the command pipe knows the endpoint by
    Group,        \* Group[e], a group name or NoGroup
    InFilter,     \* InFilter[e], the filters on what e receives
    OutFilter,    \* OutFilter[e], the filters on what e sends
    SysComps,     \* the (system, component) addresses in play
    Messages,     \* the messages that are read from endpoints
    LogMessages,  \* the messages the log endpoints send
    SnifferSys,   \* SnifferSysid of the configuration, or NoSniffer
    DedupEnabled, \* DeduplicationPeriod > 0
    RemoveNames,  \* the names the command pipe is told to remove
    LogId,        \* <<LOG_ENDPOINT_SYSTEM_ID, 0>>, the address of the logs
    NoGroup, NoSniffer, Broadcast

Kinds == {"uart", "udp_client", "udp_server", "udp_receiver",
          "tcp_client", "tcp_accepted", "log"}

SysOf(id) == id[1]
CompOf(id) == id[2]

ASSUME RouterAssumption ==
    /\ Kind \in [Endpoints -> Kinds]
    /\ Configured \in Seq(Endpoints)
    /\ \A i, j \in 1..Len(Configured) :
          Configured[i] = Configured[j] => i = j
    /\ \A i \in 1..Len(Configured) : Kind[Configured[i]] # "tcp_accepted"
    /\ \A e \in Endpoints : Kind[e] \in {"tcp_accepted", "log"} => Group[e] = NoGroup
    /\ \A id \in SysComps : id = <<SysOf(id), CompOf(id)>>
    /\ \A m \in Messages : m.src \in SysComps
    /\ \A m \in LogMessages : m.src = LogId
    /\ LogId \in SysComps
    /\ DedupEnabled \in BOOLEAN

VARIABLES
    created,       \* every endpoint object made so far, in creation order
    g_endpoints,   \* the endpoints messages are offered to: the list of the
                   \*   code is these in creation order
    up,            \* endpoints with a peer or a connection to send to
    invalid,       \* TCP endpoints marked for removal (_valid is false)
    sysCompIds,    \* sysCompIds[e]: the ids endpoint e has learnt
    groupMembers,  \* groupMembers[e]: the endpoints e shares its ids with
    window,        \* messages the de-duplication still remembers
    heard,         \* history: ids whose messages came in on e itself
    last           \* history: what the last step routed, and where to

tables == <<sysCompIds, groupMembers, heard>>

vars == <<created, g_endpoints, up, invalid, tables, window, last>>

-----------------------------------------------------------------------------
Objects == {created[i] : i \in 1..Len(created)}

SameGroup(e, f) == Group[e] # NoGroup /\ Group[e] = Group[f]

\* The last step, if any, routed nothing.
Idle == [verdict |-> "idle"]

-----------------------------------------------------------------------------
(* Learning addresses *)

\* The endpoints one call of _add_sys_comp_id visits: e, and from every one
\* visited that does not have the id yet, all its group members.
Visited(e, id) ==
    LET closed == {S \in SUBSET Endpoints :
                      /\ e \in S
                      /\ \A y \in S : id \notin sysCompIds[y] => groupMembers[y] \subseteq S}
    IN  {x \in Endpoints : \A S \in closed : x \in S}

\* Mutant: the endpoints of the group are not told.
AddSysCompIdAlone(e, id) ==
    [sysCompIds EXCEPT ![e] = @ \cup {id}]

AddSysCompId(e, id) ==
    LET visited == Visited(e, id)
    IN  [x \in Endpoints |-> IF x \in visited THEN sysCompIds[x] \cup {id}
                             ELSE sysCompIds[x]]

HasSysId(ids, sys) == \E id \in ids : SysOf(id) = sys

-----------------------------------------------------------------------------
(* Filters *)

Passes(allow, block, x) == (allow = {} \/ x \in allow) /\ x \notin block

MsgIdPasses(f, m) == Passes(f.allowMsg, f.blockMsg, m.id)

SrcPasses(f, m) == /\ Passes(f.allowComp, f.blockComp, CompOf(m.src))
                   /\ Passes(f.allowSys, f.blockSys, SysOf(m.src))

\* The source also exempts the message id UINT32_MAX; a message read from an
\* endpoint has a 24-bit id, so none has that one.
AllowedIn(e, m) == MsgIdPasses(InFilter[e], m) /\ SrcPasses(InFilter[e], m)

AllowedOut(e, m) == MsgIdPasses(OutFilter[e], m) /\ SrcPasses(OutFilter[e], m)

-----------------------------------------------------------------------------
(* Offering a message to an endpoint that has learnt ids *)

\* Mutant: a message to all components of a system is sent everywhere.
IsTargetAnywhere(ids, m) ==
    \/ m.tgtSys = Broadcast
    \/ m.tgtComp # Broadcast /\ <<m.tgtSys, m.tgtComp>> \in ids
    \/ m.tgtComp = Broadcast
    \/ SnifferSys # NoSniffer /\ HasSysId(ids, SnifferSys)

\* The target address 0 (broadcast) and -1 (the message has none) are treated
\* alike by accept_msg: both are Broadcast here.
IsTarget(ids, m) ==
    \/ m.tgtSys = Broadcast
    \/ m.tgtComp # Broadcast /\ <<m.tgtSys, m.tgtComp>> \in ids
    \/ m.tgtComp = Broadcast /\ HasSysId(ids, m.tgtSys)
    \/ SnifferSys # NoSniffer /\ HasSysId(ids, SnifferSys)

AcceptMsg(e, ids, isUp, m) ==
    CASE Kind[e] = "udp_receiver" -> "Filtered"
      [] Kind[e] # "udp_receiver" /\ ~isUp -> "Rejected"
      [] OTHER -> IF m.src \in ids THEN "Rejected"
                  ELSE IF ~AllowedOut(e, m) THEN "Filtered"
                  ELSE IF ~IsTarget(ids, m) THEN "Rejected"
                  ELSE "Accepted"

\* The endpoints route_msg writes m to, and whether it counts m as sent to an
\* unknown address, with the ids and connections of the moment.
Recipients(ids, ups, m) ==
    {e \in g_endpoints : AcceptMsg(e, ids[e], e \in ups, m) = "Accepted"}

ToUnknown(ids, ups, m) ==
    \A e \in g_endpoints : AcceptMsg(e, ids[e], e \in ups, m) = "Rejected"

-----------------------------------------------------------------------------
PresetIds(e) == IF Kind[e] = "log" THEN {LogId} ELSE {}

\* add_endpoints: a TCP client whose server does not answer starts unconnected.
Init ==
    /\ created = Configured
    /\ g_endpoints = Objects
    /\ \E connected \in SUBSET {e \in g_endpoints : Kind[e] = "tcp_client"} :
          up = connected \cup {e \in g_endpoints : Kind[e] \in {"uart", "udp_client", "log"}}
    /\ invalid = {}
    /\ sysCompIds = [e \in Endpoints |-> PresetIds(e)]
    /\ groupMembers = [e \in Endpoints |->
                          {f \in g_endpoints \ {e} : e \in g_endpoints /\ SameGroup(e, f)}]
    /\ window = {}
    /\ heard = [e \in Endpoints |-> PresetIds(e)]
    /\ last = Idle

\* Endpoint::handle_read for one message m read from e: a duplicate, a message
\* the incoming filters block, or a message to route.  A UDP server learns
\* where to send from the datagram itself.
CanRead(e) ==
    /\ e \in g_endpoints
    /\ Kind[e] # "log"
    /\ Kind[e] \in {"tcp_client", "tcp_accepted"} => e \in up

\* Mutant: a duplicate teaches the endpoint nothing.
ReadDuplicateUnheard(e, m) ==
    /\ CanRead(e)
    /\ m \in window
    /\ up' = up \cup {e}
    /\ heard' = [heard EXCEPT ![e] = @ \cup {m.src}]
    /\ last' = Idle
    /\ UNCHANGED <<created, g_endpoints, invalid, sysCompIds, groupMembers, window>>

ReadDuplicate(e, m) ==
    /\ CanRead(e)
    /\ m \in window
    /\ up' = up \cup {e}
    /\ sysCompIds' = AddSysCompId(e, m.src)
    /\ heard' = [heard EXCEPT ![e] = @ \cup {m.src}]
    /\ last' = Idle
    /\ UNCHANGED <<created, g_endpoints, invalid, groupMembers, window>>

Remember(m) == IF DedupEnabled THEN window \cup {m} ELSE window

ReadBlocked(e, m) ==
    /\ CanRead(e)
    /\ m \notin window
    /\ ~AllowedIn(e, m)
    /\ up' = up \cup {e}
    /\ window' = Remember(m)
    /\ last' = Idle
    /\ UNCHANGED <<created, g_endpoints, invalid, tables>>

Routed(e, m) ==
    [verdict |-> "routed", from |-> e, msg |-> m,
     to |-> Recipients(sysCompIds', up', m),
     unknown |-> ToUnknown(sysCompIds', up', m)]

\* Mutant: the message is routed before its source is learnt.
ReadRoutedFirst(e, m) ==
    /\ CanRead(e)
    /\ m \notin window
    /\ AllowedIn(e, m)
    /\ up' = up \cup {e}
    /\ window' = Remember(m)
    /\ sysCompIds' = AddSysCompId(e, m.src)
    /\ heard' = [heard EXCEPT ![e] = @ \cup {m.src}]
    /\ last' = [Routed(e, m) EXCEPT !.to = Recipients(sysCompIds, up', m)]
    /\ UNCHANGED <<created, g_endpoints, invalid, groupMembers>>

ReadRouted(e, m) ==
    /\ CanRead(e)
    /\ m \notin window
    /\ AllowedIn(e, m)
    /\ up' = up \cup {e}
    /\ window' = Remember(m)
    /\ sysCompIds' = AddSysCompId(e, m.src)
    /\ heard' = [heard EXCEPT ![e] = @ \cup {m.src}]
    /\ last' = Routed(e, m)
    /\ UNCHANGED <<created, g_endpoints, invalid, groupMembers>>

\* LogEndpoint::_send_msg: a log endpoint routes a message of its own.
LogSend(e, m) ==
    /\ e \in g_endpoints
    /\ Kind[e] = "log"
    /\ UNCHANGED <<created, g_endpoints, up, invalid, tables, window>>
    /\ last' = Routed(e, m)

\* The period of a remembered message is over.
DedupExpire(m) ==
    /\ m \in window
    /\ window' = window \ {m}
    /\ last' = Idle
    /\ UNCHANGED <<created, g_endpoints, up, invalid, tables>>

\* "add udp <name> ..." on the command pipe: the new endpoint starts with no
\* ids, and is linked both ways with the endpoints of its group.
AddEndpoint(e) ==
    /\ e \in Endpoints \ Objects
    /\ Kind[e] \in {"udp_client", "udp_server", "udp_receiver"}
    /\ \A f \in g_endpoints : Name[f] # Name[e]
    /\ created' = Append(created, e)
    /\ g_endpoints' = g_endpoints \cup {e}
    /\ up' = IF Kind[e] = "udp_client" THEN up \cup {e} ELSE up
    /\ groupMembers' = [x \in Endpoints |->
                           IF x = e THEN {f \in g_endpoints : SameGroup(e, f)}
                           ELSE IF x \in g_endpoints /\ SameGroup(e, x)
                                THEN groupMembers[x] \cup {e}
                                ELSE groupMembers[x]]
    /\ last' = Idle
    /\ UNCHANGED <<invalid, sysCompIds, heard, window>>

\* "remove <name>": every endpoint of the list drops its group members of that
\* name, then the first endpoint of that name, if any, leaves the list.
UnlinkGroupMember(n) ==
    [x \in Endpoints |-> IF x \in g_endpoints
                         THEN {f \in groupMembers[x] : Name[f] # n}
                         ELSE groupMembers[x]]

FirstNamed(n, e) ==
    /\ e \in g_endpoints
    /\ Name[e] = n
    /\ \A i, j \in 1..Len(created) :
          j < i /\ created[i] = e /\ created[j] \in g_endpoints => Name[created[j]] # n

RemoveEndpoint(n) ==
    /\ \/ \E e \in Endpoints :
             /\ FirstNamed(n, e)
             /\ g_endpoints' = g_endpoints \ {e}
             /\ up' = up \ {e}
             /\ invalid' = invalid \ {e}
       \/ /\ \A e \in g_endpoints : Name[e] # n
          /\ UNCHANGED <<g_endpoints, up, invalid>>
    /\ groupMembers' = UnlinkGroupMember(n)
    /\ last' = Idle
    /\ UNCHANGED <<created, sysCompIds, heard, window>>

\* Mainloop::handle_tcp_connection: a client connects to the TCP server.
TcpAccept(e) ==
    /\ e \in Endpoints \ Objects
    /\ Kind[e] = "tcp_accepted"
    /\ created' = Append(created, e)
    /\ g_endpoints' = g_endpoints \cup {e}
    /\ up' = up \cup {e}
    /\ last' = Idle
    /\ UNCHANGED <<invalid, tables, window>>

\* A client of the TCP server disconnects, or a TCP connection gets EPOLLERR:
\* the endpoint is marked invalid.  The read or write that met the error may
\* have closed the connection of a TCP client before.
TcpSetInvalid(e) ==
    /\ e \in up
    /\ \/ Kind[e] = "tcp_accepted" /\ UNCHANGED up
       \/ Kind[e] = "tcp_client" /\ up' \in {up, up \ {e}}
    /\ invalid' = invalid \cup {e}
    /\ last' = Idle
    /\ UNCHANGED <<created, g_endpoints, tables, window>>

\* The invalid endpoints leave the list; nothing unlinks them from the group
\* lists that name them.
ProcessTcpHangups ==
    /\ invalid # {}
    /\ g_endpoints' = g_endpoints \ invalid
    /\ up' = up \ invalid
    /\ invalid' = {}
    /\ last' = Idle
    /\ UNCHANGED <<created, tables, window>>

\* A TCP client endpoint finds its connection shut: _schedule_reconnect, and
\* the endpoint counts as valid (again).
TcpDisconnect(e) ==
    /\ e \in g_endpoints \cap up
    /\ Kind[e] = "tcp_client"
    /\ up' = up \ {e}
    /\ invalid' = invalid \ {e}
    /\ last' = Idle
    /\ UNCHANGED <<created, g_endpoints, tables, window>>

\* _retry_timeout_cb reaches the server again.
TcpReconnect(e) ==
    /\ e \in g_endpoints \ up
    /\ Kind[e] = "tcp_client"
    /\ up' = up \cup {e}
    /\ invalid' = invalid \ {e}
    /\ last' = Idle
    /\ UNCHANGED <<created, g_endpoints, tables, window>>

Traffic == \E e \in Endpoints, m \in Messages :
              ReadDuplicate(e, m) \/ ReadBlocked(e, m) \/ ReadRouted(e, m)

LogTraffic == \E e \in Endpoints, m \in LogMessages : LogSend(e, m)

Connections == \/ ProcessTcpHangups
               \/ \E e \in Endpoints :
                     \/ TcpAccept(e) \/ TcpSetInvalid(e)
                     \/ TcpDisconnect(e) \/ TcpReconnect(e)

Commands == \/ \E e \in Endpoints : AddEndpoint(e)
            \/ \E n \in RemoveNames : RemoveEndpoint(n)

Next == \/ Traffic
        \/ LogTraffic
        \/ Connections
        \/ Commands
        \/ \E m \in Messages : DedupExpire(m)

Spec == Init /\ [][Next]_vars

-----------------------------------------------------------------------------
(* Properties *)

Results == {Idle}
    \cup [verdict : {"routed"}, from : Endpoints,
          msg : Messages \cup LogMessages, to : SUBSET Endpoints, unknown : BOOLEAN]

TypeOK ==
    /\ created \in Seq(Endpoints)
    /\ \A i, j \in 1..Len(created) : created[i] = created[j] => i = j
    /\ g_endpoints \in SUBSET Objects
    /\ up \in SUBSET g_endpoints
    /\ invalid \in SUBSET g_endpoints
    /\ sysCompIds \in [Endpoints -> SUBSET SysComps]
    /\ groupMembers \in [Endpoints -> SUBSET Objects]
    /\ window \in SUBSET Messages
    /\ heard \in [Endpoints -> SUBSET SysComps]
    /\ last \in Results

\* A message is never written to the endpoint it was read from.
NeverSentBack ==
    last.verdict = "routed" => last.from \notin last.to

InConfiguration(e) == \E i \in 1..Len(Configured) : Configured[i] = e

\* The endpoints of the configuration that share their name with no other one and
\* with no client of the TCP server: "remove" with such a name removes only them.
Steady ==
    {e \in Endpoints :
        /\ InConfiguration(e)
        /\ \A f \in Endpoints : InConfiguration(f) \/ Kind[f] = "tcp_accepted"
                                    => f = e \/ Name[f] # Name[e]}

\* No message read from one endpoint of a group is written to another one of
\* the group: grouping keeps a message that came in on one of the parallel
\* links off the others.  An endpoint added on the command pipe is left out: it
\* never learns the ids its group knew before.
NeverSentToGroup ==
    last.verdict = "routed" /\ last.from \in Steady =>
        \A e \in last.to \cap Steady : ~SameGroup(e, last.from)

\* A message comes back neither on the link it was read from nor on another link
\* of its group: route_msg relies on the sender being learnt before, by the whole
\* group.
NeverEchoed == NeverSentBack /\ NeverSentToGroup

\* Endpoints in the same group have the same list of connected systems, while
\* endpoints are added to the group and removed from it and connections break.
GroupSharesIds ==
    \A e, f \in g_endpoints \cap Steady :
        SameGroup(e, f) => sysCompIds[e] = sysCompIds[f]

\* A message is written only where it was asked to go: on an endpoint whose
\* group has heard from the target (or from the sniffer), never elsewhere.
OnlyWhereHeard ==
    last.verdict = "routed" /\ last.msg.tgtSys # Broadcast =>
        \A e \in last.to :
            \E f \in Endpoints : \E id \in heard[f] :
                /\ f = e \/ SameGroup(e, f)
                /\ \/ SysOf(id) = SnifferSys
                   \/ /\ SysOf(id) = last.msg.tgtSys
                      /\ last.msg.tgtComp \in {CompOf(id), Broadcast}

\* A system that has been heard on an endpoint can be reached through it: a
\* message addressed to it goes there unless the endpoint has no connection,
\* filters the message, or has learnt the sender as well.
HeardIsReachable ==
    last.verdict = "routed" =>
        \A e \in g_endpoints : \A id \in heard[e] :
            ( /\ last.msg.tgtSys = SysOf(id)
              /\ last.msg.tgtComp \in {CompOf(id), Broadcast}
              /\ e \in up /\ Kind[e] # "udp_receiver"
              /\ AllowedOut(e, last.msg)
              /\ \A f \in Endpoints :
                    f = e \/ SameGroup(e, f) => last.msg.src \notin heard[f] )
            => e \in last.to /\ ~last.unknown

=============================================================================
