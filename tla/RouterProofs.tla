---------------------------- MODULE RouterProofs ----------------------------
(***************************************************************************)
(* The properties of module Router for every configuration.  The inductive *)
(* invariant ties the table of learnt ids to the history of what was heard *)
(* where: an id is in the table of an endpoint only because the endpoint   *)
(* or one of its group heard it (LearntHeard), and everything heard is in  *)
(* the table (HeardLearnt).                                                *)
(***************************************************************************)
EXTENDS Router, TLAPS

\* A log endpoint knows its own address, so it never gets back what it sends.
LogKnowsItself ==
    \A e \in Endpoints : Kind[e] = "log" => LogId \in sysCompIds[e]

\* Ids are only shared inside a group.
MembersInGroup ==
    \A e \in Endpoints : \A f \in groupMembers[e] : SameGroup(e, f)

HeardLearnt ==
    \A e \in Endpoints : heard[e] \subseteq sysCompIds[e]

LearntHeard ==
    \A e \in Endpoints : \A id \in sysCompIds[e] :
        \E f \in Endpoints : (f = e \/ SameGroup(e, f)) /\ id \in heard[f]

Inv == TypeOK /\ LogKnowsItself /\ MembersInGroup /\ HeardLearnt /\ LearntHeard

-----------------------------------------------------------------------------
(* What _add_sys_comp_id visits *)

\* Every list of group members names endpoints.
MembersType == groupMembers \in [Endpoints -> SUBSET Endpoints]

LEMMA ObjectsType == ASSUME TypeOK PROVE Objects \subseteq Endpoints
  BY DEF TypeOK, Objects

LEMMA MembersTyped == ASSUME TypeOK PROVE MembersType
  BY ObjectsType DEF TypeOK, MembersType

\* _add_sys_comp_id visits the endpoint itself, and the group members of every
\* endpoint it visits that lacks the id.
LEMMA VisitedClosed ==
    ASSUME MembersType, NEW e \in Endpoints, NEW id
    PROVE  /\ e \in Visited(e, id)
           /\ \A y \in Visited(e, id) :
                 id \notin sysCompIds[y] => groupMembers[y] \subseteq Visited(e, id)
  <1>1. e \in Visited(e, id)
    BY DEF Visited
  <1>2. ASSUME NEW y \in Visited(e, id), id \notin sysCompIds[y],
               NEW x \in groupMembers[y]
        PROVE  x \in Visited(e, id)
    <2>1. y \in Endpoints /\ x \in Endpoints
      BY <1>2 DEF Visited, MembersType
    <2>2. ASSUME NEW S \in SUBSET Endpoints, e \in S,
                 \A z \in S : id \notin sysCompIds[z] => groupMembers[z] \subseteq S
          PROVE  x \in S
      <3>1. y \in S
        BY <2>2 DEF Visited
      <3> QED
        BY <3>1, <2>2, <1>2
    <2> QED
      BY <2>1, <2>2 DEF Visited
  <1> QED
    BY <1>1, <1>2

\* It visits nothing outside a set that is closed in this sense.
LEMMA VisitedLeast ==
    ASSUME NEW e \in Endpoints, NEW id, NEW S \in SUBSET Endpoints, e \in S,
           \A y \in S : id \notin sysCompIds[y] => groupMembers[y] \subseteq S
    PROVE  Visited(e, id) \subseteq S
  BY DEF Visited

\* It stays inside the group of the endpoint.
LEMMA VisitedInGroup ==
    ASSUME MembersType, MembersInGroup, NEW e \in Endpoints, NEW id,
           NEW x \in Visited(e, id)
    PROVE  x \in Endpoints /\ (x = e \/ SameGroup(x, e))
  <1> DEFINE S == {y \in Endpoints : y = e \/ SameGroup(y, e)}
  <1>1. \A y \in S : groupMembers[y] \subseteq S
    BY DEF MembersType, MembersInGroup, SameGroup
  <1>2. Visited(e, id) \subseteq S
    BY <1>1, VisitedLeast, Zenon
  <1> QED
    BY <1>2

\* What learning an id does to the tables: the endpoint has it, nobody loses an
\* id, and whoever gains one gains this one and is of the endpoint's group.
LEMMA LearningFacts ==
    ASSUME TypeOK, MembersInGroup, NEW e \in Endpoints, NEW id \in SysComps
    PROVE  LET new == AddSysCompId(e, id)
           IN  /\ new \in [Endpoints -> SUBSET SysComps]
               /\ id \in new[e]
               /\ \A x \in Endpoints : sysCompIds[x] \subseteq new[x]
               /\ \A x \in Endpoints : \A i \in new[x] :
                     \/ i \in sysCompIds[x]
                     \/ i = id /\ (x = e \/ SameGroup(x, e))
  <1>1. e \in Visited(e, id)
    BY MembersTyped, VisitedClosed
  <1>2. \A x \in Visited(e, id) : x = e \/ SameGroup(x, e)
    BY MembersTyped, VisitedInGroup
  <1>3. sysCompIds \in [Endpoints -> SUBSET SysComps]
    BY DEF TypeOK
  <1> HIDE DEF TypeOK
  <1> QED
    BY <1>1, <1>2, <1>3 DEF AddSysCompId

-----------------------------------------------------------------------------
(* The invariant holds initially *)

LEMMA InitInv == Init => Inv
  <1> SUFFICES ASSUME Init PROVE Inv
    OBVIOUS
  <1>0. Objects \subseteq Endpoints
    BY RouterAssumption DEF Init, Objects
  <1>1. \A e \in Endpoints : PresetIds(e) \in SUBSET SysComps
    BY RouterAssumption DEF PresetIds
  <1>2. TypeOK
    BY <1>0, <1>1, RouterAssumption DEF Init, TypeOK, Results
  <1>3. LogKnowsItself
    BY DEF Init, LogKnowsItself, PresetIds
  <1>4. MembersInGroup
    BY <1>0 DEF Init, MembersInGroup
  <1>5. HeardLearnt /\ LearntHeard
    BY DEF Init, HeardLearnt, LearntHeard
  <1> QED
    BY <1>2, <1>3, <1>4, <1>5 DEF Inv

-----------------------------------------------------------------------------
(* Every step keeps it *)

\* Reading a message that teaches its source keeps the tables right.
LEMMA LearningStep ==
    ASSUME Inv, NEW e \in Endpoints, NEW id \in SysComps,
           sysCompIds' = AddSysCompId(e, id),
           heard' = [heard EXCEPT ![e] = @ \cup {id}],
           groupMembers' = groupMembers
    PROVE  /\ sysCompIds' \in [Endpoints -> SUBSET SysComps]
           /\ heard' \in [Endpoints -> SUBSET SysComps]
           /\ LogKnowsItself' /\ MembersInGroup'
           /\ HeardLearnt' /\ LearntHeard'
  <1> DEFINE new == AddSysCompId(e, id)
  <1>1. /\ new \in [Endpoints -> SUBSET SysComps]
        /\ id \in new[e]
        /\ \A x \in Endpoints : sysCompIds[x] \subseteq new[x]
        /\ \A x \in Endpoints : \A i \in new[x] :
              \/ i \in sysCompIds[x]
              \/ i = id /\ (x = e \/ SameGroup(x, e))
    BY LearningFacts DEF Inv
  <1>2. sysCompIds' = new
    OBVIOUS
  <1>3. heard \in [Endpoints -> SUBSET SysComps]
    BY DEF Inv, TypeOK
  <1> HIDE DEF new
  <1>4. \A x \in Endpoints : heard'[x] = IF x = e THEN heard[x] \cup {id} ELSE heard[x]
    BY <1>3
  <1>5. LogKnowsItself'
    BY <1>1, <1>2 DEF Inv, LogKnowsItself
  <1>6. MembersInGroup'
    BY DEF Inv, MembersInGroup, SameGroup
  <1>7. HeardLearnt'
    BY <1>1, <1>2, <1>4 DEF Inv, HeardLearnt
  <1>8. LearntHeard'
    <2> SUFFICES ASSUME NEW x \in Endpoints, NEW i \in new[x]
                 PROVE  \E f \in Endpoints : (f = x \/ SameGroup(x, f)) /\ i \in heard'[f]
      BY <1>2 DEF LearntHeard, SameGroup
    <2>1. CASE i \in sysCompIds[x]
      BY <2>1, <1>4 DEF Inv, LearntHeard
    <2>2. CASE i = id /\ (x = e \/ SameGroup(x, e))
      BY <2>2, <1>4
    <2> QED
      BY <1>1, <2>1, <2>2
  <1> QED
    BY <1>1, <1>2, <1>3, <1>5, <1>6, <1>7, <1>8

LEMMA RoutedType ==
    ASSUME TypeOK, NEW e \in Endpoints, NEW m \in Messages \cup LogMessages
    PROVE  Routed(e, m) \in Results
  <1>1. g_endpoints \subseteq Endpoints
    BY ObjectsType DEF TypeOK
  <1>2. Recipients(sysCompIds', up', m) \in SUBSET Endpoints
    BY <1>1 DEF Recipients
  <1>3. ToUnknown(sysCompIds', up', m) \in BOOLEAN
    BY DEF ToUnknown
  <1> QED
    BY <1>2, <1>3 DEF Routed, Results

\* A step that changes neither the tables nor the list of objects keeps what
\* the invariant says of them.
LEMMA TablesUnchanged ==
    ASSUME Inv, UNCHANGED tables
    PROVE  LogKnowsItself' /\ MembersInGroup' /\ HeardLearnt' /\ LearntHeard'
  BY DEF Inv, tables, LogKnowsItself, MembersInGroup, HeardLearnt, LearntHeard,
         SameGroup

LEMMA AppendObject ==
    ASSUME TypeOK, NEW e \in Endpoints \ Objects, created' = Append(created, e)
    PROVE  /\ created' \in Seq(Endpoints)
           /\ \A i, j \in 1..Len(created') : created'[i] = created'[j] => i = j
           /\ Objects' = Objects \cup {e}
  <1>1. created \in Seq(Endpoints) /\ Len(created) \in Nat
    BY DEF TypeOK
  <1>2. Len(created') = Len(created) + 1
    BY <1>1
  <1>3. \A i \in 1..Len(created) : created'[i] = created[i]
    BY <1>1
  <1>4. created'[Len(created) + 1] = e
    BY <1>1
  <1>5. Objects' = Objects \cup {e}
    BY <1>1, <1>2, <1>3, <1>4 DEF Objects
  <1>6. ASSUME NEW i \in 1..Len(created'), NEW j \in 1..Len(created'),
               created'[i] = created'[j]
        PROVE  i = j
    BY <1>1, <1>2, <1>3, <1>4, <1>6 DEF Objects, TypeOK
  <1> QED
    BY <1>1, <1>5, <1>6

\* Steps that only change the connections, the window and the history.
LEMMA OtherStep ==
    ASSUME Inv, UNCHANGED <<created, tables>>, g_endpoints' \subseteq g_endpoints,
           up' \in SUBSET g_endpoints', invalid' \in SUBSET g_endpoints',
           window' \in SUBSET Messages, last' \in Results
    PROVE  Inv'
  <1>1. Objects' = Objects
    BY DEF Objects
  <1>2. TypeOK'
    BY <1>1 DEF Inv, TypeOK, tables, Results
  <1> QED
    BY <1>2, TablesUnchanged DEF Inv, tables

LEMMA TrafficInv == ASSUME Inv, Traffic PROVE Inv'
  <1> PICK e \in Endpoints, m \in Messages :
        ReadDuplicate(e, m) \/ ReadBlocked(e, m) \/ ReadRouted(e, m)
    BY DEF Traffic
  <1>0. m.src \in SysComps /\ TypeOK
    BY RouterAssumption DEF Inv
  <1>i. Idle \in Results
    BY DEF Results
  <1>w. Remember(m) \in SUBSET Messages
    BY <1>0 DEF Remember, TypeOK
  <1>1. CASE ReadDuplicate(e, m)
    <2>1. Objects' = Objects
      BY <1>1 DEF ReadDuplicate, Objects
    <2>2. /\ sysCompIds' \in [Endpoints -> SUBSET SysComps]
          /\ heard' \in [Endpoints -> SUBSET SysComps]
          /\ LogKnowsItself' /\ MembersInGroup' /\ HeardLearnt' /\ LearntHeard'
      BY <1>0, <1>1, LearningStep, Zenon DEF ReadDuplicate
    <2>3. TypeOK'
      BY <2>1, <2>2, <1>0, <1>1, <1>i DEF ReadDuplicate, CanRead, TypeOK, Results
    <2> QED
      BY <2>2, <2>3 DEF Inv
  <1>2. CASE ReadBlocked(e, m)
    BY <1>0, <1>2, <1>i, <1>w, OtherStep DEF ReadBlocked, CanRead, TypeOK
  <1>3. CASE ReadRouted(e, m)
    <2>1. Objects' = Objects
      BY <1>3 DEF ReadRouted, Objects
    <2>2. /\ sysCompIds' \in [Endpoints -> SUBSET SysComps]
          /\ heard' \in [Endpoints -> SUBSET SysComps]
          /\ LogKnowsItself' /\ MembersInGroup' /\ HeardLearnt' /\ LearntHeard'
      BY <1>0, <1>3, LearningStep, Zenon DEF ReadRouted
    <2>3. last' \in Results
      BY <1>0, <1>3, RoutedType DEF ReadRouted
    <2>4. TypeOK'
      BY <2>1, <2>2, <2>3, <1>0, <1>3, <1>w DEF ReadRouted, CanRead, TypeOK, Results
    <2> QED
      BY <2>2, <2>4 DEF Inv
  <1> QED
    BY <1>1, <1>2, <1>3

LEMMA LogTrafficInv == ASSUME Inv, LogTraffic PROVE Inv'
  <1> PICK e \in Endpoints, m \in LogMessages : LogSend(e, m)
    BY DEF LogTraffic
  <1>1. last' \in Results
    BY RoutedType DEF LogSend, Inv
  <1> QED
    BY <1>1, OtherStep DEF LogSend, Inv, TypeOK

LEMMA DedupExpireInv ==
    ASSUME Inv, NEW m \in Messages, DedupExpire(m) PROVE Inv'
  BY OtherStep DEF DedupExpire, Inv, TypeOK, Results

LEMMA TcpAcceptInv ==
    ASSUME Inv, NEW e \in Endpoints, TcpAccept(e) PROVE Inv'
  <1>1. /\ created' \in Seq(Endpoints)
        /\ \A i, j \in 1..Len(created') : created'[i] = created'[j] => i = j
        /\ Objects' = Objects \cup {e}
    BY AppendObject DEF Inv, TcpAccept
  <1>2. TypeOK'
    BY <1>1 DEF Inv, TypeOK, TcpAccept, tables, Results
  <1> QED
    BY <1>2, TablesUnchanged DEF Inv, TcpAccept

LEMMA ConnectionsInv == ASSUME Inv, Connections PROVE Inv'
  <1>i. Idle \in Results
    BY DEF Results
  <1>1. CASE ProcessTcpHangups
    BY <1>1, <1>i, OtherStep DEF ProcessTcpHangups, Inv, TypeOK
  <1>2. ASSUME NEW e \in Endpoints, TcpSetInvalid(e) PROVE Inv'
    BY <1>2, <1>i, OtherStep DEF TcpSetInvalid, Inv, TypeOK
  <1>3. ASSUME NEW e \in Endpoints, TcpDisconnect(e) PROVE Inv'
    BY <1>3, <1>i, OtherStep DEF TcpDisconnect, Inv, TypeOK
  <1>4. ASSUME NEW e \in Endpoints, TcpReconnect(e) PROVE Inv'
    BY <1>4, <1>i, OtherStep DEF TcpReconnect, Inv, TypeOK
  <1> QED
    BY <1>1, <1>2, <1>3, <1>4, TcpAcceptInv DEF Connections

LEMMA AddEndpointInv ==
    ASSUME Inv, NEW e \in Endpoints, AddEndpoint(e) PROVE Inv'
  <1>1. /\ created' \in Seq(Endpoints)
        /\ \A i, j \in 1..Len(created') : created'[i] = created'[j] => i = j
        /\ Objects' = Objects \cup {e}
    BY AppendObject DEF Inv, AddEndpoint
  <1>2. groupMembers' \in [Endpoints -> SUBSET Objects']
    BY <1>1 DEF Inv, TypeOK, AddEndpoint
  <1>3. TypeOK'
    BY <1>1, <1>2 DEF Inv, TypeOK, AddEndpoint, Results
  <1>4. MembersInGroup'
    BY DEF Inv, AddEndpoint, MembersInGroup, SameGroup
  <1>5. LogKnowsItself' /\ HeardLearnt' /\ LearntHeard'
    BY DEF Inv, AddEndpoint, LogKnowsItself, HeardLearnt, LearntHeard, SameGroup
  <1> QED
    BY <1>3, <1>4, <1>5 DEF Inv

LEMMA RemoveEndpointInv ==
    ASSUME Inv, NEW n, RemoveEndpoint(n) PROVE Inv'
  <1>1. Objects' = Objects
    BY DEF RemoveEndpoint, Objects
  <1>2. groupMembers' \in [Endpoints -> SUBSET Objects']
    BY <1>1 DEF Inv, TypeOK, RemoveEndpoint, UnlinkGroupMember
  <1>3. /\ g_endpoints' \in SUBSET Objects
        /\ up' \in SUBSET g_endpoints' /\ invalid' \in SUBSET g_endpoints'
    BY DEF Inv, TypeOK, RemoveEndpoint
  <1>4. TypeOK'
    BY <1>1, <1>2, <1>3 DEF Inv, TypeOK, RemoveEndpoint, Results
  <1>5. MembersInGroup'
    BY DEF Inv, RemoveEndpoint, UnlinkGroupMember, MembersInGroup, SameGroup
  <1>6. LogKnowsItself' /\ HeardLearnt' /\ LearntHeard'
    BY DEF Inv, RemoveEndpoint, LogKnowsItself, HeardLearnt, LearntHeard, SameGroup
  <1> QED
    BY <1>4, <1>5, <1>6 DEF Inv

LEMMA NextInv == Inv /\ [Next]_vars => Inv'
  <1> SUFFICES ASSUME Inv, [Next]_vars PROVE Inv'
    OBVIOUS
  <1>1. CASE UNCHANGED vars
    BY <1>1, OtherStep DEF vars, Inv, TypeOK
  <1>2. CASE Commands
    BY <1>2, AddEndpointInv, RemoveEndpointInv DEF Commands
  <1> QED
    BY <1>1, <1>2, TrafficInv, LogTrafficInv, ConnectionsInv, DedupExpireInv DEF Next

LEMMA Invariance == Spec => []Inv
  BY InitInv, NextInv, PTL DEF Spec

\* The lists, connections and tables of the router are well formed: only
\* endpoints of the list have a peer, only they are marked invalid, and no
\* object is in the list twice.
THEOREM TypeCorrect == Spec => []TypeOK
  BY Invariance, PTL DEF Inv

-----------------------------------------------------------------------------
(* What a step routes, and where to *)

\* A message is routed only after the endpoint it comes from knows its source.
RoutesLearnt ==
    \E e \in Endpoints, m \in Messages \cup LogMessages :
        /\ e \in g_endpoints
        /\ last' = Routed(e, m)
        /\ m.src \in sysCompIds'[e]
        /\ UNCHANGED g_endpoints

LEMMA StepRoutes ==
    ASSUME Inv, Next PROVE last' = Idle \/ RoutesLearnt
  <1>1. ASSUME NEW e \in Endpoints, NEW m \in Messages, ReadRouted(e, m)
        PROVE  RoutesLearnt
    <2>1. m.src \in sysCompIds'[e]
      BY <1>1, RouterAssumption, LearningFacts DEF ReadRouted, Inv
    <2> QED
      BY <1>1, <2>1 DEF ReadRouted, CanRead, RoutesLearnt
  <1>2. ASSUME NEW e \in Endpoints, NEW m \in LogMessages, LogSend(e, m)
        PROVE  RoutesLearnt
    <2>1. m.src \in sysCompIds'[e]
      BY <1>2, RouterAssumption DEF LogSend, Inv, LogKnowsItself, tables
    <2> QED
      BY <1>2, <2>1 DEF LogSend, RoutesLearnt
  <1>3. CASE Commands
    BY <1>3 DEF Commands, AddEndpoint, RemoveEndpoint
  <1>4. CASE Connections
    BY <1>4 DEF Connections, ProcessTcpHangups, TcpAccept, TcpSetInvalid,
                TcpDisconnect, TcpReconnect
  <1>5. CASE Traffic
    BY <1>5, <1>1 DEF Traffic, ReadDuplicate, ReadBlocked
  <1>6. CASE \E m \in Messages : DedupExpire(m)
    BY <1>6 DEF DedupExpire
  <1> QED
    BY <1>2, <1>3, <1>4, <1>5, <1>6 DEF Next, LogTraffic

\* An endpoint that knows the source of a message does not accept it.
LEMMA KnownSourceRejected ==
    ASSUME NEW e \in Endpoints, NEW ids, NEW S, NEW m, m.src \in ids
    PROVE  AcceptMsg(e, ids, e \in S, m) # "Accepted"
  BY DEF AcceptMsg

\* What accept_msg accepts is addressed to an id of the endpoint.
LEMMA AcceptedIsTarget ==
    ASSUME NEW e \in Endpoints, NEW ids, NEW S, NEW m,
           AcceptMsg(e, ids, e \in S, m) = "Accepted"
    PROVE  IsTarget(ids, m)
  BY DEF AcceptMsg

LEMMA NotRouted ==
    ASSUME last' = Idle
    PROVE  /\ NeverSentBack' /\ NeverSentToGroup'
           /\ OnlyWhereHeard' /\ HeardIsReachable'
  BY DEF Idle, NeverSentBack, NeverSentToGroup, OnlyWhereHeard, HeardIsReachable

LEMMA SentBackStep ==
    ASSUME Inv, RoutesLearnt PROVE NeverSentBack'
  <1> PICK s \in Endpoints, m \in Messages \cup LogMessages :
        last' = Routed(s, m) /\ m.src \in sysCompIds'[s]
    BY DEF RoutesLearnt
  <1>1. AcceptMsg(s, sysCompIds'[s], s \in up', m) # "Accepted"
    BY KnownSourceRejected
  <1> QED
    BY <1>1 DEF Routed, NeverSentBack, Recipients

LEMMA WhereHeardStep ==
    ASSUME Inv, Inv', RoutesLearnt PROVE OnlyWhereHeard'
  <1> PICK s \in Endpoints, m \in Messages \cup LogMessages :
        last' = Routed(s, m) /\ UNCHANGED g_endpoints
    BY DEF RoutesLearnt
  <1> SUFFICES ASSUME m.tgtSys # Broadcast, NEW e \in last'.to
               PROVE  \E f \in Endpoints : \E id \in heard'[f] :
                         /\ f = e \/ SameGroup(e, f)
                         /\ \/ SysOf(id) = SnifferSys
                            \/ /\ SysOf(id) = m.tgtSys
                               /\ m.tgtComp \in {CompOf(id), Broadcast}
    BY DEF OnlyWhereHeard, Routed, SameGroup, SysOf, CompOf
  <1>1. /\ e \in Endpoints
        /\ AcceptMsg(e, sysCompIds'[e], e \in up', m) = "Accepted"
    BY ObjectsType DEF Routed, Recipients, Inv, TypeOK
  <1>2. IsTarget(sysCompIds'[e], m)
    BY <1>1, AcceptedIsTarget
  <1>3. \E id \in sysCompIds'[e] :
           \/ SysOf(id) = SnifferSys
           \/ SysOf(id) = m.tgtSys /\ m.tgtComp \in {CompOf(id), Broadcast}
    BY <1>2 DEF IsTarget, HasSysId, SysOf, CompOf
  <1> QED
    BY <1>1, <1>3 DEF Inv, LearntHeard, SameGroup

LEMMA ReachableStep ==
    ASSUME Inv, Inv', RoutesLearnt PROVE HeardIsReachable'
  <1> PICK s \in Endpoints, m \in Messages \cup LogMessages :
        last' = Routed(s, m) /\ UNCHANGED g_endpoints
    BY DEF RoutesLearnt
  <1> SUFFICES ASSUME NEW e \in g_endpoints, NEW id \in heard'[e],
                      m.tgtSys = SysOf(id), m.tgtComp \in {CompOf(id), Broadcast},
                      e \in up', Kind[e] # "udp_receiver", AllowedOut(e, m),
                      \A f \in Endpoints :
                         f = e \/ SameGroup(e, f) => m.src \notin heard'[f]
               PROVE  e \in last'.to /\ ~last'.unknown
    BY SMTT(30) DEF HeardIsReachable, Routed, SameGroup, SysOf, CompOf, AllowedOut,
           MsgIdPasses, SrcPasses, Passes
  <1>1. e \in Endpoints
    BY ObjectsType DEF Inv, TypeOK
  <1>2. m.src \notin sysCompIds'[e]
    BY <1>1 DEF Inv, LearntHeard, SameGroup
  <1>3. id \in sysCompIds'[e] /\ id = <<SysOf(id), CompOf(id)>>
    BY <1>1, RouterAssumption DEF Inv, HeardLearnt, TypeOK
  <1>4. IsTarget(sysCompIds'[e], m)
    BY <1>3 DEF IsTarget, HasSysId
  <1>5. AcceptMsg(e, sysCompIds'[e], e \in up', m) = "Accepted"
    BY <1>2, <1>4 DEF AcceptMsg
  <1> QED
    BY <1>5 DEF Routed, Recipients, ToUnknown

\* A message is never written to the endpoint it was read from, whatever the
\* configuration, the commands on the pipe and the connections do.
THEOREM NeverBack == Spec => []NeverSentBack
  <1>1. Init => NeverSentBack
    BY DEF Init, Idle, NeverSentBack
  <1>2. Inv /\ NeverSentBack /\ [Next]_vars => NeverSentBack'
    BY StepRoutes, NotRouted, SentBackStep DEF vars, NeverSentBack
  <1> QED
    BY <1>1, <1>2, Invariance, PTL DEF Spec

\* A message with a target is written only on endpoints whose group has heard
\* from the target (or the sniffer).
THEOREM WhereHeard == Spec => []OnlyWhereHeard
  <1>1. Init => OnlyWhereHeard
    BY DEF Init, Idle, OnlyWhereHeard
  <1>2. Inv /\ Inv' /\ OnlyWhereHeard /\ [Next]_vars => OnlyWhereHeard'
    BY StepRoutes, NotRouted, WhereHeardStep
       DEF vars, tables, OnlyWhereHeard, SameGroup, SysOf, CompOf
  <1> QED
    BY <1>1, <1>2, Invariance, PTL DEF Spec

\* A system heard on an endpoint can be reached through it, unless the endpoint
\* has no connection, filters the message or has learnt the sender too.
THEOREM Reachable == Spec => []HeardIsReachable
  <1>1. Init => HeardIsReachable
    BY DEF Init, Idle, HeardIsReachable
  <1>2. Inv /\ Inv' /\ HeardIsReachable /\ [Next]_vars => HeardIsReachable'
    <2> SUFFICES ASSUME Inv, Inv', HeardIsReachable, [Next]_vars
                 PROVE  HeardIsReachable'
      OBVIOUS
    <2>1. CASE UNCHANGED vars
      BY <2>1, SMTT(30) DEF vars, tables, HeardIsReachable, SameGroup, SysOf, CompOf,
                  AllowedOut, MsgIdPasses, SrcPasses, Passes
    <2> QED
      BY <2>1, StepRoutes, NotRouted, ReachableStep
  <1> QED
    BY <1>1, <1>2, Invariance, PTL DEF Spec

-----------------------------------------------------------------------------
(* Groups *)

\* The command pipe makes no endpoint of the configuration, for they all exist.
ConfiguredMade == \A e \in Endpoints : InConfiguration(e) => e \in Objects

\* No other endpoint of the list has the name of a steady one.
NamesApart ==
    \A e, f \in g_endpoints : e \in Steady /\ f # e => Name[f] # Name[e]

\* Any two steady endpoints of a group name each other.
GroupLinked ==
    \A e, f \in g_endpoints :
        e \in Steady /\ f \in Steady /\ e # f /\ SameGroup(e, f) => f \in groupMembers[e]

GroupInv == ConfiguredMade /\ NamesApart /\ GroupLinked /\ GroupSharesIds

LEMMA InitGroup == Init => GroupInv
  <1> SUFFICES ASSUME Init PROVE GroupInv
    OBVIOUS
  <1>1. /\ Objects \subseteq Endpoints /\ g_endpoints = Objects
        /\ \A e \in Objects : InConfiguration(e)
    BY RouterAssumption DEF Init, Objects, InConfiguration
  <1>2. ConfiguredMade
    BY DEF Init, ConfiguredMade, InConfiguration, Objects
  <1>3. NamesApart
    BY <1>1 DEF NamesApart, Steady
  <1>4. GroupLinked
    BY <1>1 DEF Init, GroupLinked
  <1>5. \A e \in Objects : Group[e] # NoGroup => Kind[e] # "log"
    BY <1>1, RouterAssumption
  <1>6. GroupSharesIds
    BY <1>1, <1>5 DEF Init, GroupSharesIds, SameGroup, PresetIds
  <1> QED
    BY <1>2, <1>3, <1>4, <1>6 DEF GroupInv

\* A source learnt somewhere is learnt on both of two linked endpoints or on
\* neither: one that is visited and lacks it passes it on, and if one has it so
\* has the other.
LEMMA LearningGroup ==
    ASSUME Inv, GroupInv, NEW s \in Endpoints, NEW id \in SysComps,
           sysCompIds' = AddSysCompId(s, id),
           UNCHANGED <<created, g_endpoints, groupMembers>>
    PROVE  GroupInv'
  <1>1. MembersType /\ Objects' = Objects /\ g_endpoints \subseteq Endpoints
    BY MembersTyped, ObjectsType DEF Inv, Objects, TypeOK
  <1>2. ConfiguredMade' /\ NamesApart' /\ GroupLinked'
    BY <1>1 DEF GroupInv, ConfiguredMade, NamesApart, GroupLinked, Steady,
                InConfiguration, SameGroup
  <1>3. \A x \in Endpoints : sysCompIds'[x] = IF x \in Visited(s, id)
                                             THEN sysCompIds[x] \cup {id}
                                             ELSE sysCompIds[x]
    BY DEF AddSysCompId
  <1>4. ASSUME NEW e \in g_endpoints, NEW f \in g_endpoints,
               e \in Steady, f \in Steady, SameGroup(e, f)
        PROVE  sysCompIds'[e] = sysCompIds'[f]
    <2>1. e \in Endpoints /\ f \in Endpoints /\ SameGroup(f, e)
      BY <1>1, <1>4 DEF SameGroup
    <2>2. sysCompIds[e] = sysCompIds[f]
      BY <1>4 DEF GroupInv, GroupSharesIds
    <2>3. CASE id \in sysCompIds[e]
      BY <1>3, <2>1, <2>2, <2>3
    <2>4. CASE id \notin sysCompIds[e]
      <3>1. e = f \/ (f \in groupMembers[e] /\ e \in groupMembers[f])
        BY <1>4, <2>1 DEF GroupInv, GroupLinked
      <3>2. e \in Visited(s, id) <=> f \in Visited(s, id)
        BY <1>1, <2>2, <2>4, <3>1, VisitedClosed
      <3> QED
        BY <1>3, <2>1, <2>2, <3>2, Zenon
    <2> QED
      BY <2>3, <2>4
  <1>5. GroupSharesIds'
    BY <1>4, SMTT(30) DEF GroupSharesIds, Steady, InConfiguration, SameGroup
  <1> QED
    BY <1>2, <1>5 DEF GroupInv

\* Steps that leave the tables alone and add nothing to the list.
LEMMA OtherGroup ==
    ASSUME GroupInv, UNCHANGED <<created, tables>>, g_endpoints' \subseteq g_endpoints
    PROVE  GroupInv'
  BY DEF GroupInv, ConfiguredMade, NamesApart, GroupLinked, GroupSharesIds, Objects,
         tables, Steady, InConfiguration, SameGroup

\* A new endpoint is not steady, and has a name of its own.
LEMMA NewObjectGroup ==
    ASSUME Inv, GroupInv, NEW x \in Endpoints \ Objects,
           created' = Append(created, x), g_endpoints' = g_endpoints \cup {x},
           sysCompIds' = sysCompIds,
           \A e \in g_endpoints : groupMembers[e] \subseteq groupMembers'[e],
           \A e \in g_endpoints : e \in Steady => Name[x] # Name[e]
    PROVE  GroupInv'
  <1>1. Objects' = Objects \cup {x} /\ g_endpoints \subseteq Endpoints
    BY AppendObject, ObjectsType DEF Inv, TypeOK
  <1>2. ~InConfiguration(x) /\ x \notin Steady
    BY DEF GroupInv, ConfiguredMade, Steady
  <1>3. ConfiguredMade'
    BY <1>1 DEF GroupInv, ConfiguredMade, InConfiguration
  <1>4. NamesApart'
    BY <1>2 DEF GroupInv, NamesApart, Steady, InConfiguration
  <1>5. GroupLinked'
    BY <1>1, <1>2 DEF GroupInv, GroupLinked, Steady, InConfiguration, SameGroup
  <1>6. GroupSharesIds'
    <2>1. Steady' = Steady
      BY DEF Steady, InConfiguration
    <2>2. ASSUME NEW e \in g_endpoints' \cap Steady', NEW f \in g_endpoints' \cap Steady',
                 SameGroup(e, f)'
          PROVE  sysCompIds'[e] = sysCompIds'[f]
      <3>1. e \in g_endpoints \cap Steady /\ f \in g_endpoints \cap Steady
        BY <1>2, <2>1, Zenon
      <3>2. SameGroup(e, f)
        BY <2>2, Zenon DEF SameGroup
      <3> QED
        BY <3>1, <3>2, Zenon DEF GroupInv, GroupSharesIds
    <2> QED
      BY <2>2, Zenon DEF GroupSharesIds
  <1> QED
    BY <1>3, <1>4, <1>5, <1>6 DEF GroupInv

\* "remove" unlinks by name, and a steady endpoint that stays has another name.
LEMMA RemoveGroup ==
    ASSUME Inv, GroupInv, NEW n, RemoveEndpoint(n) PROVE GroupInv'
  <1>1. Objects' = Objects /\ g_endpoints' \subseteq g_endpoints
    BY DEF RemoveEndpoint, Objects
  <1>2. ASSUME NEW f \in g_endpoints', f \in Steady PROVE Name[f] # n
    BY <1>2 DEF RemoveEndpoint, FirstNamed, GroupInv, NamesApart
  <1>3. ConfiguredMade' /\ NamesApart' /\ GroupSharesIds'
    BY <1>1 DEF RemoveEndpoint, GroupInv, ConfiguredMade, NamesApart, GroupSharesIds,
                Steady, InConfiguration, SameGroup
  <1>4. g_endpoints \subseteq Endpoints
    BY ObjectsType DEF Inv, TypeOK
  <1>5. ASSUME NEW e \in g_endpoints', NEW f \in g_endpoints',
               e \in Steady, f \in Steady, e # f, SameGroup(e, f)
        PROVE  f \in groupMembers'[e]
    <2>1. f \in groupMembers[e] /\ Name[f] # n /\ e \in Endpoints
      BY <1>1, <1>2, <1>4, <1>5 DEF GroupInv, GroupLinked
    <2> QED
      BY <2>1, <1>1, <1>5 DEF RemoveEndpoint, UnlinkGroupMember
  <1>6. GroupLinked'
    BY <1>5 DEF GroupLinked, Steady, InConfiguration, SameGroup
  <1> QED
    BY <1>3, <1>6 DEF GroupInv

LEMMA NextGroup ==
    ASSUME Inv, GroupInv, [Next]_vars PROVE GroupInv'
  <1>1. CASE Traffic
    <2> PICK e \in Endpoints, m \in Messages :
          ReadDuplicate(e, m) \/ ReadBlocked(e, m) \/ ReadRouted(e, m)
      BY <1>1 DEF Traffic
    <2>1. m.src \in SysComps
      BY RouterAssumption
    <2>2. CASE ReadDuplicate(e, m) \/ ReadRouted(e, m)
      BY <2>1, <2>2, LearningGroup DEF ReadDuplicate, ReadRouted
    <2> QED
      BY <2>2, OtherGroup DEF ReadBlocked
  <1>2. ASSUME NEW x \in Endpoints, TcpAccept(x) PROVE GroupInv'
    <2>1. \A e \in g_endpoints : e \in Steady => Name[x] # Name[e]
      BY <1>2 DEF TcpAccept, Steady, Inv, TypeOK
    <2> QED
      BY <1>2, <2>1, NewObjectGroup DEF TcpAccept, tables
  <1>3. ASSUME NEW x \in Endpoints, AddEndpoint(x) PROVE GroupInv'
    <2>1. \A e \in g_endpoints : groupMembers[e] \subseteq groupMembers'[e]
      BY <1>3, ObjectsType DEF AddEndpoint, Inv, TypeOK
    <2> QED
      BY <1>3, <2>1, NewObjectGroup DEF AddEndpoint
  <1>4. CASE Connections
    BY <1>2, <1>4, OtherGroup DEF Connections, ProcessTcpHangups, TcpSetInvalid,
                                  TcpDisconnect, TcpReconnect
  <1>5. CASE LogTraffic
    BY <1>5, OtherGroup DEF LogTraffic, LogSend
  <1>6. CASE \E m \in Messages : DedupExpire(m)
    BY <1>6, OtherGroup DEF DedupExpire
  <1>7. CASE UNCHANGED vars
    BY <1>7, OtherGroup DEF vars
  <1> QED
    BY <1>1, <1>3, <1>4, <1>5, <1>6, <1>7, RemoveGroup DEF Next, Commands

LEMMA GroupInvariance == Spec => [](Inv /\ GroupInv)
  <1>1. Inv /\ GroupInv /\ [Next]_vars => GroupInv'
    BY NextGroup
  <1> QED
    BY <1>1, InitGroup, Invariance, PTL DEF Spec

\* The endpoints of the configuration that are in the same group have the same
\* list of connected systems, whatever is added, removed or disconnected.
THEOREM GroupShares == Spec => []GroupSharesIds
  BY GroupInvariance, PTL DEF GroupInv

LEMMA ToGroupStep ==
    ASSUME Inv, Inv', GroupInv', RoutesLearnt PROVE NeverSentToGroup'
  <1> PICK s \in Endpoints, m \in Messages \cup LogMessages :
        /\ last' = Routed(s, m) /\ m.src \in sysCompIds'[s]
        /\ s \in g_endpoints /\ UNCHANGED g_endpoints
    BY DEF RoutesLearnt
  <1> SUFFICES ASSUME s \in Steady, NEW e \in last'.to, e \in Steady, SameGroup(e, s)
               PROVE  FALSE
    BY DEF NeverSentToGroup, Routed, SameGroup, Steady, InConfiguration
  <1>1. e \in Endpoints /\ e \in g_endpoints' /\ s \in g_endpoints'
    BY ObjectsType DEF Routed, Recipients, Inv, TypeOK
  <1>2. AcceptMsg(e, sysCompIds'[e], e \in up', m) = "Accepted"
    BY DEF Routed, Recipients
  <1>3. m.src \in sysCompIds'[e]
    BY <1>1 DEF GroupInv, GroupSharesIds, SameGroup, Steady, InConfiguration
  <1> QED
    BY <1>1, <1>2, <1>3, KnownSourceRejected

\* What came in on one of the parallel links the configuration groups is never
\* written to another one.
THEOREM NeverToGroup == Spec => []NeverSentToGroup
  <1>1. Init => NeverSentToGroup
    <2> SUFFICES ASSUME Init PROVE NeverSentToGroup
      OBVIOUS
    <2>1. last.verdict = "idle"
      BY DEF Init, Idle
    <2>2. last.verdict # "routed"
      BY <2>1
    <2> QED
      BY <2>2, Zenon DEF NeverSentToGroup
  <1>2. /\ Inv /\ Inv' /\ GroupInv' /\ NeverSentToGroup /\ [Next]_vars
        => NeverSentToGroup'
    BY StepRoutes, NotRouted, ToGroupStep
       DEF vars, NeverSentToGroup, SameGroup, Steady, InConfiguration
  <1> QED
    BY <1>1, <1>2, GroupInvariance, PTL DEF Spec

\* Both together: nothing comes back on the link or the group it came from.
THEOREM NoEcho == Spec => []NeverEchoed
  <1>1. NeverSentBack /\ NeverSentToGroup => NeverEchoed
    BY DEF NeverEchoed
  <1> QED
    BY <1>1, NeverBack, NeverToGroup, PTL

=============================================================================
