---------------------------- MODULE TunnelProofs ----------------------------
(* Theorems about the tunnel, for every number of workers, users, sessions *)
(* and addresses.                                                          *)
EXTENDS Tunnel, TLAPS

(* A worker has a request exactly while it is not idle, points to no       *)
(* connection while it is, and dials for connect requests only.            *)
HasRequest ==
  \A w \in Workers :
    /\ pc[w] = "idle" <=> req[w] = NoRequest
    /\ pc[w] = "idle" => held[w] = None
    /\ pc[w] \in {"dial", "save"} => req[w].kind = "connect"

(* A session, its user, and an address of a connect request.               *)
LEMMA RequestType ==
  ASSUME NEW r \in Request
  PROVE  /\ r.session \in Sessions
         /\ r.session[1] \in Users
         /\ r.session # None
         /\ r.kind \in {"connect", "write", "read", "close", "status"}
         /\ r.kind = "connect" => r.addr \in Addrs
         /\ r # NoRequest
<1>1. r.session \in Sessions
  BY DEF Request
<1>2. r.kind \in {"connect", "write", "read", "close", "status"}
      /\ (r.kind = "connect" => r.addr \in Addrs)
  BY DEF Request
<1>3. r.session[1] \in Users
  BY <1>1 DEF Sessions
<1>4. r.session # None
  BY <1>1, TunnelAssumption
<1>5. r # NoRequest
  BY <1>4 DEF NoRequest
<1> QED BY <1>1, <1>2, <1>3, <1>4, <1>5

(* The types of the variables are preserved by every step.                 *)
TypeInv == TypeOK /\ HasRequest

(* At first every worker is idle.                                            *)
LEMMA TypeInit == Init => TypeInv
BY DEF Init, TypeInv, TypeOK, HasRequest, Pcs

(* Every step keeps the types.                                               *)
LEMMA TypeStep == TypeInv /\ [Next]_vars => TypeInv'
<1> SUFFICES ASSUME TypeInv, [Next]_vars PROVE TypeInv'
  OBVIOUS
<1> USE DEF TypeInv
<1> USE TunnelAssumption
<1> DEFINE Busy(w) == /\ req[w] \in Request
                      /\ Session(w) \in Sessions
                      /\ Owner(w) \in Users
                      /\ req[w] # NoRequest
<1>1. \A w \in Workers : pc[w] # "idle" => Busy(w)
  BY RequestType DEF TypeOK, HasRequest, Session, Owner
<1>2. ASSUME NEW w \in Workers, NEW r \in Request, Receive(w, r)
      PROVE  TypeInv'
  <2>1. EntryPoint(r.kind) \in {"lookup", "close", "reply"}
    BY <1>2, RequestType DEF EntryPoint
  <2>2. overlapped' \subseteq Sessions
    BY <1>2, RequestType DEF Receive, TypeOK
  <2> QED BY <1>2, <2>1, <2>2, RequestType DEF Receive, TypeOK, HasRequest, Pcs
<1> DEFINE Keep(w) == /\ pc[w] # "idle" /\ pc' \in [Workers -> Pcs]
                      /\ \A v \in Workers : v # w => pc'[v] = pc[v]
                      /\ pc'[w] # "idle" /\ req' = req
                      /\ pc'[w] \in {"dial", "save"} => req[w].kind = "connect"
           HeldOf(w) == \A v \in Workers : v # w => held'[v] = held[v]
<1>3. ASSUME NEW w \in Workers, Keep(w), HeldOf(w) PROVE HasRequest'
  BY <1>3, <1>1 DEF HasRequest, TypeOK
<1>4. ASSUME NEW w \in Workers, NEW l \in Pcs \ {"idle"}, pc[w] # "idle",
             l \in {"dial", "save"} => req[w].kind = "connect",
             Goto(w, l), req' = req
      PROVE  Keep(w)
  BY <1>4 DEF Goto, TypeOK
<1>5. ASSUME NEW w \in Workers, pc[w] # "idle", EnterDial(w), req' = req,
             req[w].kind = "connect"
      PROVE  Keep(w) /\ dialRaced' \subseteq Sessions
  BY <1>5, <1>1, <1>4 DEF EnterDial, TypeOK, Pcs
<1>6. ASSUME NEW w \in Workers, NEW e \in {"none", "opened", "closed"},
             pc[w] # "idle", Answer(w, e), req' = req
      PROVE  Keep(w) /\ reply' \in [Workers -> {"none", "opened", "closed"}]
  BY <1>6, <1>4 DEF Answer, TypeOK, Pcs
<1>7. ASSUME NEW w \in Workers, NEW n \in BOOLEAN, pc[w] # "idle",
             HaveConn(w, n), req' = req
      PROVE  Keep(w) /\ reply' \in [Workers -> {"none", "opened", "closed"}]
  BY <1>7, <1>4, <1>6 DEF HaveConn, TypeOK, Pcs
<1>8. ASSUME NEW w \in Workers, pc[w] # "idle", AfterClose(w), req' = req
      PROVE  /\ Keep(w)
             /\ reply' \in [Workers -> {"none", "opened", "closed"}]
             /\ dialRaced' \subseteq Sessions
  <2>1. CASE req[w].kind = "connect" /\ EnterDial(w) /\ UNCHANGED reply
    BY <1>8, <2>1, <1>5 DEF TypeOK
  <2>2. CASE /\ Answer(w, IF req[w].kind = "close" THEN "none" ELSE "closed")
             /\ UNCHANGED dialRaced
    BY <1>8, <2>2, <1>6 DEF TypeOK
  <2> QED BY <1>8, <2>1, <2>2 DEF AfterClose
<1>9. ASSUME NEW w \in Workers, LookupForConnect(w) PROVE TypeInv'
  <2>1. pc[w] # "idle" /\ req' = req /\ connOf[Entry(w)] \in Conns \cup {None}
    BY <1>9, <1>1 DEF LookupForConnect, GetTunnelConn, TypeOK, Entry
  <2>2. userMaps' \subseteq Users
    BY <1>9, <1>1, <2>1 DEF LookupForConnect, GetTunnelConn, TypeOK, WithInnerMap
  <2>3. /\ Keep(w) /\ dialRaced' \subseteq Sessions /\ HeldOf(w)
        /\ held' \in [Workers -> Conns \cup {None}]
        /\ reply' \in [Workers -> {"none", "opened", "closed"}]
    <3>1. CASE EnterDial(w) /\ UNCHANGED <<held, reply>>
      BY <1>9, <3>1, <2>1, <1>5 DEF LookupForConnect, TypeOK
    <3>2. CASE /\ held' = [held EXCEPT ![w] = connOf[Entry(w)]]
               /\ HaveConn(w, FALSE) /\ UNCHANGED dialRaced
      BY <3>2, <2>1, <1>7 DEF TypeOK
    <3>3. CASE ChangeTarget(w) /\ UNCHANGED <<held, reply>>
      BY <3>3, <2>1, <1>4 DEF TypeOK, ChangeTarget, Pcs
    <3> QED BY <1>9, <3>1, <3>2, <3>3 DEF LookupForConnect
  <2> QED BY <1>9, <2>1, <2>2, <2>3, <1>3
          DEF LookupForConnect, GetTunnelConn, TypeOK
<1>10. ASSUME NEW w \in Workers, LookupForIO(w) PROVE TypeInv'
  <2>1. pc[w] # "idle" /\ req' = req /\ connOf[Entry(w)] \in Conns \cup {None}
    BY <1>10, <1>1 DEF LookupForIO, GetTunnelConn, TypeOK, Entry
  <2>2. userMaps' \subseteq Users
    BY <1>10, <1>1, <2>1 DEF LookupForIO, GetTunnelConn, TypeOK, WithInnerMap
  <2>3. /\ Keep(w) /\ HeldOf(w) /\ held' \in [Workers -> Conns \cup {None}]
        /\ reply' \in [Workers -> {"none", "opened", "closed"}]
    <3>1. CASE Answer(w, "closed") /\ UNCHANGED held
      BY <3>1, <2>1, <1>6 DEF TypeOK
    <3>2. CASE /\ held' = [held EXCEPT ![w] = connOf[Entry(w)]]
               /\ Goto(w, "io") /\ UNCHANGED reply
      BY <3>2, <2>1, <1>4 DEF TypeOK, Pcs
    <3> QED BY <1>10, <3>1, <3>2 DEF LookupForIO
  <2> QED BY <1>10, <2>1, <2>2, <2>3, <1>3
          DEF LookupForIO, GetTunnelConn, TypeOK
<1>11. ASSUME NEW w \in Workers, DialOk(w) PROVE TypeInv'
  <2>1. [session |-> Session(w), addr |-> req[w].addr] \in Peer
    BY <1>11, <1>1, RequestType DEF DialOk, Peer, HasRequest
  <2>2. Keep(w) /\ HeldOf(w)
    BY <1>11, <1>4 DEF DialOk, Pcs, HasRequest, TypeOK
  <2>3. PICK c \in Conns :
          /\ socket' = [socket EXCEPT ![c] = [session |-> Session(w),
                                              addr |-> req[w].addr]]
          /\ held' = [held EXCEPT ![w] = c]
    BY <1>11 DEF DialOk
  <2>4. socket' \in [Conns -> Peer \cup {Shut}]
        /\ held' \in [Workers -> Conns \cup {None}]
    BY <2>1, <2>3 DEF TypeOK
  <2> QED BY <1>11, <2>2, <2>4, <1>3 DEF DialOk, TypeOK
<1>12. ASSUME NEW w \in Workers, DialFail(w) PROVE TypeInv'
  <2>1. Keep(w) /\ reply' \in [Workers -> {"none", "opened", "closed"}]
    BY <1>12, <1>6 DEF DialFail
  <2> QED BY <1>12, <2>1, <1>3 DEF DialFail, TypeOK
<1>13. ASSUME NEW w \in Workers, SaveTunnelConn(w) PROVE TypeInv'
  <2>1. Keep(w) /\ reply' \in [Workers -> {"none", "opened", "closed"}]
    BY <1>13, <1>7 DEF SaveTunnelConn
  <2> QED BY <1>13, <2>1, <1>3 DEF SaveTunnelConn, TypeOK
<1>14. ASSUME NEW w \in Workers, IOOk(w) PROVE TypeInv'
  <2>1. Keep(w) /\ reply' \in [Workers -> {"none", "opened", "closed"}]
    BY <1>14, <1>6 DEF IOOk
  <2> QED BY <1>14, <2>1, <1>3 DEF IOOk, TypeOK
<1>15. ASSUME NEW w \in Workers, IOFail(w) PROVE TypeInv'
  <2>1. Keep(w) /\ reply' \in [Workers -> {"none", "opened", "closed"}]
    BY <1>15, <1>6, <1>4 DEF IOFail, Pcs, TypeOK
  <2> QED BY <1>15, <2>1, <1>3 DEF IOFail, TypeOK
<1>16. ASSUME NEW w \in Workers, CloseNothing(w) PROVE TypeInv'
  <2>1. userMaps' \subseteq Users
    BY <1>16, <1>1 DEF CloseNothing, TypeOK, WithInnerMap
  <2> QED BY <1>16, <2>1, <1>8, <1>3 DEF CloseNothing, TypeOK
<1>17. ASSUME NEW w \in Workers, CloseLock(w) PROVE TypeInv'
  <2>1. Keep(w)
    BY <1>17, <1>4 DEF CloseLock, Pcs
  <2> QED BY <1>17, <2>1, <1>3 DEF CloseLock, HoldMutex, TypeOK
<1>18. ASSUME NEW w \in Workers, CloseSocket(w) PROVE TypeInv'
  <2>1. Keep(w)
    BY <1>18, <1>4 DEF CloseSocket, Pcs
  <2> QED BY <1>18, <2>1, <1>3 DEF CloseSocket, ShutDown, TypeOK
<1>19. ASSUME NEW w \in Workers, DeleteEntry(w) PROVE TypeInv'
  BY <1>19, <1>8, <1>3 DEF DeleteEntry, RemoveAndUnlock, TypeOK
<1>20. ASSUME NEW w \in Workers, Reply(w) PROVE TypeInv'
  BY <1>20 DEF Reply, Goto, TypeOK, HasRequest, Pcs, NoRequest
<1>21. CASE UNCHANGED vars
  BY <1>21 DEF vars, TypeOK, HasRequest
<1> QED
  BY <1>2, <1>9, <1>10, <1>11, <1>12, <1>13, <1>14, <1>15, <1>16, <1>17,
     <1>18, <1>19, <1>20, <1>21 DEF Next, NeedsMutex, OnItsOwn

(* The variables keep their types in every reachable state.                *)
THEOREM TypeCorrect == Spec => []TypeOK
<1>1. Spec => []TypeInv
  BY TypeInit, TypeStep, PTL DEF Spec
<1> QED BY <1>1, PTL DEF TypeInv

-----------------------------------------------------------------------------
(* The inductive invariant.  None of the safety properties is inductive:   *)
(* each depends on who may be inside closeTunnelConn and on a connection   *)
(* being unknown to everyone else until it is saved.                       *)

\* Only the holder of the mutex is inside closeTunnelConn, and the entry it
\* found there stays until it deletes it.
InCritical(w) == pc[w] \in {"closing", "delete"}
Critical ==
  \A w \in Workers :
    /\ InCritical(w) => mutex = w /\ connOf[Session(w)] # None
    /\ pc[w] = "closing" => socket[connOf[Session(w)]] # Shut
    /\ pc[w] = "delete" => socket[connOf[Session(w)]] = Shut

\* An open connection in the map was dialled for the session it serves.
MappedOwn ==
  \A s \in Sessions :
    connOf[s] # None /\ socket[connOf[s]] # Shut =>
      socket[connOf[s]].session = s

\* A connection that is yet to be saved is open and only its dialler has it.
Unsaved ==
  \A w \in Workers : pc[w] = "save" =>
    /\ held[w] # None /\ socket[held[w]] # Shut
    /\ \A s \in Sessions : connOf[s] # held[w]
    /\ \A v \in Workers \ {w} : held[v] # held[w]

\* A connect request that has looked its session up has made the inner map.
InnerMapMade ==
  \A w \in Workers :
    req[w].kind = "connect" /\ pc[w] \notin {"lookup", "io", "reply"} =>
      Owner(w) \in userMaps

SafetyInv ==
  /\ TypeInv
  /\ Critical
  /\ MappedSocketsOpen
  /\ MappedOwn
  /\ Unsaved
  /\ SessionIsolation
  /\ ConnectReachesAddress
  /\ InnerMapMade

(* At first there are no connections.                                        *)
LEMMA SafetyInit == Init => SafetyInv
<1> SUFFICES ASSUME Init PROVE SafetyInv
  OBVIOUS
<1>1. \A w \in Workers : req[w] = NoRequest /\ pc[w] = "idle" /\ held[w] = None
  BY DEF Init
<1>2. TypeInv
  BY TypeInit
<1> QED
  BY <1>1, <1>2
  DEF Init, SafetyInv, Critical, InCritical, MappedSocketsOpen, MappedOwn,
      Unsaved, SessionIsolation, ConnectReachesAddress, InnerMapMade, NoRequest

(* Steps of a worker that touch nothing shared and leave its connection.   *)
Quiet(w) ==
  /\ UNCHANGED <<connOf, mutex, socket, req, held>>
  /\ userMaps \subseteq userMaps'
  /\ ~InCritical(w) /\ pc[w] # "save"
  /\ \A v \in Workers \ {w} : pc'[v] = pc[v]
  /\ pc'[w] \notin {"closing", "delete", "save"}
  /\ req[w].kind = "connect" /\ pc'[w] \notin {"lookup", "io", "reply"} =>
       Owner(w) \in userMaps'

(* A step that leaves map, sockets and mutex.                                *)
LEMMA QuietStep ==
  ASSUME SafetyInv, TypeInv', NEW w \in Workers, Quiet(w)
  PROVE  SafetyInv'
<1> USE DEF SafetyInv, Quiet
<1>1. Critical'
  BY DEF Critical, InCritical, Session
<1>2. MappedSocketsOpen'
  BY DEF MappedSocketsOpen, Session, InCritical
<1>3. MappedOwn'
  BY DEF MappedOwn
<1>4. Unsaved'
  BY DEF Unsaved
<1>5. SessionIsolation' /\ ConnectReachesAddress'
  BY DEF SessionIsolation, ConnectReachesAddress, Session
<1>6. InnerMapMade'
  BY DEF InnerMapMade, Owner, Session
<1> QED BY <1>1, <1>2, <1>3, <1>4, <1>5, <1>6

(* A worker takes the connection that the map has for its session.         *)
Take(w) ==
  /\ UNCHANGED <<connOf, mutex, socket, req>>
  /\ userMaps \subseteq userMaps'
  /\ pc[w] = "lookup" /\ mutex = None
  /\ connOf[Session(w)] # None
  /\ req[w].kind = "connect" =>
       socket[connOf[Session(w)]].addr = req[w].addr
  /\ held' = [held EXCEPT ![w] = connOf[Session(w)]]
  /\ \A v \in Workers \ {w} : pc'[v] = pc[v]
  /\ pc'[w] \in {"io", "reply"}

(* A worker takes the connection that is mapped.                             *)
LEMMA TakeStep ==
  ASSUME SafetyInv, TypeInv', NEW w \in Workers, Take(w)
  PROVE  SafetyInv'
<1> USE DEF SafetyInv, Take
<1>0. /\ Session(w) \in Sessions
      /\ held' \in [Workers -> Conns \cup {None}]
      /\ \A v \in Workers : held'[v] = IF v = w THEN connOf[Session(w)] ELSE held[v]
  BY RequestType DEF TypeInv, TypeOK, HasRequest, Session
<1>1. Critical'
  BY DEF Critical, InCritical, Session
<1>2. MappedSocketsOpen'
  BY DEF MappedSocketsOpen, Session
<1>3. MappedOwn'
  BY DEF MappedOwn
<1>4. Unsaved'
  BY <1>0 DEF Unsaved
<1>5. SessionIsolation' /\ ConnectReachesAddress'
  BY <1>0 DEF SessionIsolation, ConnectReachesAddress, Session, MappedOwn
<1>6. InnerMapMade'
  BY DEF InnerMapMade, Owner, Session
<1> QED BY <1>1, <1>2, <1>3, <1>4, <1>5, <1>6

(* Every step keeps the invariant.                                           *)
LEMMA SafetyStep == SafetyInv /\ [Next]_vars => SafetyInv'
<1> SUFFICES ASSUME SafetyInv, [Next]_vars PROVE SafetyInv'
  OBVIOUS
<1>1. TypeInv /\ TypeInv'
  BY TypeStep DEF SafetyInv
<1>2. ASSUME NEW w \in Workers, pc[w] # "idle"
      PROVE  Session(w) \in Sessions /\ Owner(w) \in Users
  BY <1>1, <1>2, RequestType DEF TypeInv, TypeOK, HasRequest, Session, Owner
<1>3. ASSUME NEW w \in Workers, NEW r \in Request, Receive(w, r)
      PROVE  SafetyInv'
  <2> USE DEF Receive, SafetyInv
  <2>1. /\ held[w] = None /\ pc[w] = "idle"
        /\ pc'[w] \in {"lookup", "close", "reply"}
        /\ r.kind = "connect" => pc'[w] = "lookup"
        /\ req'[w] = r
        /\ \A v \in Workers \ {w} : pc'[v] = pc[v] /\ req'[v] = req[v]
    BY <1>1, <1>3, RequestType DEF TypeInv, HasRequest, EntryPoint, TypeOK
  <2>2. Critical' /\ Unsaved'
    BY <1>3, <2>1 DEF Critical, InCritical, Unsaved, Session
  <2>3. MappedSocketsOpen' /\ MappedOwn'
    BY <1>3, <2>1 DEF MappedSocketsOpen, MappedOwn, Session
  <2>4. SessionIsolation' /\ ConnectReachesAddress' /\ InnerMapMade'
    BY <1>3, <2>1
    DEF SessionIsolation, ConnectReachesAddress, InnerMapMade, Session, Owner
  <2> QED BY <1>1, <2>2, <2>3, <2>4
<1>4. ASSUME NEW w \in Workers, EnterDial(w), pc[w] # "save", ~InCritical(w),
             UNCHANGED <<connOf, mutex, socket, req, held>>,
             userMaps' = userMaps \cup {Owner(w)}
      PROVE  SafetyInv'
  <2>1. Quiet(w)
    BY <1>1, <1>4 DEF Quiet, EnterDial, Goto, TypeInv, TypeOK
  <2> QED BY <1>1, <2>1, QuietStep
<1>5. ASSUME NEW w \in Workers, LookupForConnect(w) PROVE SafetyInv'
  <2> USE <1>5 DEF LookupForConnect, GetTunnelConn
  <2>1. CASE EnterDial(w) /\ UNCHANGED <<held, reply>>
    BY <2>1, <1>4 DEF InCritical, WithInnerMap
  <2>2. CASE /\ connOf[Entry(w)] # None
             /\ SameTarget(w, connOf[Entry(w)])
             /\ held' = [held EXCEPT ![w] = connOf[Entry(w)]]
             /\ HaveConn(w, FALSE)
    <3>1. Take(w)
      BY <1>1, <2>2
      DEF Take, Entry, SameTarget, HaveConn, Answer, Goto, WithInnerMap,
          TypeInv, TypeOK
    <3> QED BY <1>1, <3>1, TakeStep
  <2>3. CASE ChangeTarget(w) /\ UNCHANGED <<held, reply>>
    <3>1. Quiet(w)
      BY <1>1, <2>3
      DEF Quiet, ChangeTarget, Goto, InCritical, WithInnerMap, TypeInv, TypeOK
    <3> QED BY <1>1, <3>1, QuietStep
  <2> QED BY <2>1, <2>2, <2>3
<1>6. ASSUME NEW w \in Workers, LookupForIO(w) PROVE SafetyInv'
  <2> USE <1>6 DEF LookupForIO, GetTunnelConn
  <2>1. CASE Answer(w, "closed") /\ UNCHANGED held
    <3>1. Quiet(w)
      BY <1>1, <2>1
      DEF Quiet, Answer, Goto, InCritical, WithInnerMap, TypeInv, TypeOK
    <3> QED BY <1>1, <3>1, QuietStep
  <2>2. CASE /\ connOf[Entry(w)] # None
             /\ held' = [held EXCEPT ![w] = connOf[Entry(w)]]
             /\ Goto(w, "io")
    <3>1. Take(w)
      BY <1>1, <2>2
      DEF Take, Entry, Goto, WithInnerMap, TypeInv, TypeOK
    <3> QED BY <1>1, <3>1, TakeStep
  <2> QED BY <2>1, <2>2
<1>7. ASSUME NEW w \in Workers, DialOk(w) PROVE SafetyInv'
  <2>1. PICK c \in Conns :
          /\ socket[c] = Shut
          /\ ~Referenced(c)
          /\ socket' = [socket EXCEPT ![c] = [session |-> Session(w),
                                              addr |-> req[w].addr]]
          /\ held' = [held EXCEPT ![w] = c]
    BY <1>7 DEF DialOk
  <2>2. /\ pc[w] = "dial" /\ pc'[w] = "save"
        /\ \A v \in Workers \ {w} : pc'[v] = pc[v]
        /\ UNCHANGED <<userMaps, connOf, mutex, req>>
    BY <1>1, <1>7 DEF DialOk, Goto, TypeInv, TypeOK
  <2>3. /\ \A s \in Sessions : connOf[s] # c
        /\ \A v \in Workers : held[v] # c
    BY <2>1 DEF Referenced
  <2>4. /\ socket'[c].session = Session(w) /\ socket'[c].addr = req[w].addr
        /\ socket'[c] # Shut
        /\ \A d \in Conns \ {c} : socket'[d] = socket[d]
        /\ held'[w] = c /\ \A v \in Workers \ {w} : held'[v] = held[v]
    BY <1>1, <1>2, <2>1, <2>2, TunnelAssumption DEF TypeInv, TypeOK, Shut
  <2>5. /\ c # None
        /\ \A s \in Sessions : connOf[s] \in Conns \cup {None}
        /\ \A v \in Workers : held[v] \in Conns \cup {None}
        /\ \A v \in Workers : pc[v] # "idle" => Session(v) \in Sessions
    BY <1>1, <1>2, TunnelAssumption DEF TypeInv, TypeOK
  <2> USE <2>2, <2>3, <2>4, <2>5 DEF SafetyInv
  <2>6. Critical'
    BY DEF Critical, InCritical, Session
  <2>7. MappedSocketsOpen' /\ MappedOwn'
    BY DEF MappedSocketsOpen, MappedOwn, Session
  <2>8. Unsaved'
    BY DEF Unsaved
  <2>9. SessionIsolation' /\ ConnectReachesAddress'
    BY DEF SessionIsolation, ConnectReachesAddress, Session
  <2>10. InnerMapMade'
    BY DEF InnerMapMade, Owner, Session
  <2> QED BY <1>1, <2>6, <2>7, <2>8, <2>9, <2>10
<1>8. ASSUME NEW w \in Workers, DialFail(w) \/ IOOk(w) \/ IOFail(w)
      PROVE  SafetyInv'
  <2>1. Quiet(w)
    BY <1>1, <1>8
    DEF DialFail, IOOk, IOFail, Quiet, Answer, Goto, InCritical, TypeInv, TypeOK
  <2> QED BY <1>1, <2>1, QuietStep
<1>9. ASSUME NEW w \in Workers, SaveTunnelConn(w) PROVE SafetyInv'
  <2>1. /\ pc[w] = "save" /\ pc'[w] \in {"io", "reply"} /\ mutex = None
        /\ \A v \in Workers \ {w} : pc'[v] = pc[v]
        /\ UNCHANGED <<userMaps, mutex, socket, req, held>>
        /\ Session(w) \in Sessions
        /\ connOf'[Session(w)] = held[w]
        /\ \A s \in Sessions \ {Session(w)} : connOf'[s] = connOf[s]
    BY <1>1, <1>2, <1>9
    DEF SaveTunnelConn, HaveConn, Answer, Goto, Entry, TypeInv, TypeOK
  <2>2. held[w] # None /\ socket[held[w]] # Shut
        /\ socket[held[w]].session = Session(w)
    BY <2>1 DEF SafetyInv, Unsaved, SessionIsolation
  <2> USE <2>1, <2>2 DEF SafetyInv
  <2>3. Critical'
    BY TunnelAssumption DEF Critical, InCritical, Session
  <2>4. MappedSocketsOpen' /\ MappedOwn'
    BY TunnelAssumption DEF MappedSocketsOpen, MappedOwn, Session
  <2>5. Unsaved'
    BY DEF Unsaved
  <2>6. SessionIsolation' /\ ConnectReachesAddress' /\ InnerMapMade'
    BY DEF SessionIsolation, ConnectReachesAddress, InnerMapMade, Owner, Session
  <2> QED BY <1>1, <2>3, <2>4, <2>5, <2>6
<1>10. ASSUME NEW w \in Workers, CloseNothing(w) PROVE SafetyInv'
  <2> USE <1>10 DEF CloseNothing, WithInnerMap
  <2>1. CASE EnterDial(w)
    BY <2>1, <1>4 DEF InCritical
  <2>2. CASE Answer(w, IF req[w].kind = "close" THEN "none" ELSE "closed")
    <3>1. Quiet(w)
      BY <1>1, <2>2 DEF Quiet, Answer, Goto, InCritical, TypeInv, TypeOK
    <3> QED BY <1>1, <3>1, QuietStep
  <2> QED BY <2>1, <2>2 DEF AfterClose
<1>11. ASSUME NEW w \in Workers, CloseLock(w) PROVE SafetyInv'
  <2>1. /\ pc[w] = "close" /\ pc'[w] = "closing" /\ mutex = None /\ mutex' = w
        /\ \A v \in Workers \ {w} : pc'[v] = pc[v]
        /\ UNCHANGED <<userMaps, connOf, socket, req, held>>
        /\ Session(w) \in Sessions /\ connOf[Session(w)] # None
    BY <1>1, <1>2, <1>11 DEF CloseLock, HoldMutex, Goto, Entry, TypeInv, TypeOK
  <2> USE <2>1 DEF SafetyInv
  <2>2. Critical'
    BY TunnelAssumption DEF Critical, InCritical, Session, MappedSocketsOpen
  <2>3. MappedSocketsOpen' /\ MappedOwn'
    BY TunnelAssumption DEF MappedSocketsOpen, MappedOwn, Session
  <2>4. Unsaved' /\ SessionIsolation' /\ ConnectReachesAddress' /\ InnerMapMade'
    BY DEF Unsaved, SessionIsolation, ConnectReachesAddress, InnerMapMade,
           Owner, Session
  <2> QED BY <1>1, <2>2, <2>3, <2>4
<1>12. ASSUME NEW w \in Workers, CloseSocket(w) PROVE SafetyInv'
  <2> DEFINE c == connOf[Session(w)]
  <2>1. /\ pc[w] = "closing" /\ pc'[w] = "delete" /\ mutex = w
        /\ \A v \in Workers \ {w} : pc'[v] = pc[v]
        /\ UNCHANGED <<userMaps, connOf, mutex, req, held>>
        /\ Session(w) \in Sessions /\ c \in Conns /\ socket[c] # Shut
        /\ socket[c].session = Session(w)
        /\ socket'[c] = Shut
        /\ \A d \in Conns \ {c} : socket'[d] = socket[d]
    BY <1>1, <1>2, <1>12
    DEF CloseSocket, ShutDown, Goto, Entry, TypeInv, TypeOK, SafetyInv,
        Critical, InCritical, MappedOwn
  <2>2. /\ \A s \in Sessions : connOf[s] \in Conns \cup {None}
        /\ \A v \in Workers : held[v] \in Conns \cup {None}
    BY <1>1 DEF TypeInv, TypeOK
  <2> HIDE DEF c
  <2> USE <2>1, <2>2 DEF SafetyInv
  <2>3. Critical'
    BY DEF Critical, InCritical, Session, c
  <2>4. \A s \in Sessions : connOf[s] = c => s = Session(w)
    BY TunnelAssumption DEF MappedOwn
  <2>5. MappedSocketsOpen' /\ MappedOwn'
    BY <2>4 DEF MappedSocketsOpen, MappedOwn, Session
  <2>6. \A v \in Workers : pc[v] = "save" => held[v] # c
    BY DEF Unsaved, c
  <2>7. Unsaved'
    BY <2>6 DEF Unsaved
  <2>8. SessionIsolation' /\ ConnectReachesAddress' /\ InnerMapMade'
    BY DEF SessionIsolation, ConnectReachesAddress, InnerMapMade, Owner, Session
  <2> QED BY <1>1, <2>3, <2>5, <2>7, <2>8
<1>13. ASSUME NEW w \in Workers, DeleteEntry(w) PROVE SafetyInv'
  <2>1. /\ pc[w] = "delete" /\ pc'[w] \in {"dial", "reply"}
        /\ pc'[w] = "dial" => Owner(w) \in userMaps
        /\ mutex = w /\ mutex' = None
        /\ \A v \in Workers \ {w} : pc'[v] = pc[v]
        /\ UNCHANGED <<userMaps, socket, req, held>>
        /\ Session(w) \in Sessions
        /\ connOf'[Session(w)] = None
        /\ \A s \in Sessions \ {Session(w)} : connOf'[s] = connOf[s]
    BY <1>1, <1>2, <1>13
    DEF DeleteEntry, RemoveAndUnlock, AfterClose, EnterDial, Answer, Goto,
        Entry, TypeInv, TypeOK, SafetyInv, Critical, InCritical, InnerMapMade
  <2> USE <2>1 DEF SafetyInv
  <2>2. Critical'
    BY TunnelAssumption DEF Critical, InCritical, Session
  <2>3. MappedSocketsOpen' /\ MappedOwn'
    BY DEF MappedSocketsOpen, MappedOwn, Session
  <2>4. Unsaved'
    BY DEF Unsaved
  <2>5. SessionIsolation' /\ ConnectReachesAddress' /\ InnerMapMade'
    BY DEF SessionIsolation, ConnectReachesAddress, InnerMapMade, Owner, Session
  <2> QED BY <1>1, <2>2, <2>3, <2>4, <2>5
<1>14. ASSUME NEW w \in Workers, Reply(w) PROVE SafetyInv'
  <2>1. /\ pc[w] = "reply" /\ pc'[w] = "idle"
        /\ \A v \in Workers \ {w} :
             pc'[v] = pc[v] /\ req'[v] = req[v] /\ held'[v] = held[v]
        /\ req'[w].kind # "connect" /\ held'[w] = None
        /\ UNCHANGED <<userMaps, connOf, mutex, socket>>
    BY <1>1, <1>14 DEF Reply, Goto, TypeInv, TypeOK, NoRequest
  <2> USE <2>1 DEF SafetyInv
  <2>2. Critical' /\ MappedSocketsOpen' /\ MappedOwn'
    BY DEF Critical, InCritical, MappedSocketsOpen, MappedOwn, Session
  <2>3. Unsaved'
    BY DEF Unsaved
  <2>4. SessionIsolation' /\ ConnectReachesAddress' /\ InnerMapMade'
    BY DEF SessionIsolation, ConnectReachesAddress, InnerMapMade, Owner, Session
  <2> QED BY <1>1, <2>2, <2>3, <2>4
<1>15. CASE UNCHANGED vars
  BY <1>1, <1>15
  DEF vars, SafetyInv, Critical, InCritical, MappedSocketsOpen, MappedOwn,
      Unsaved, SessionIsolation, ConnectReachesAddress, InnerMapMade, Session,
      Owner
<1> QED
  BY <1>3, <1>5, <1>6, <1>7, <1>8, <1>9, <1>10, <1>11, <1>12, <1>13, <1>14,
     <1>15 DEF Next, NeedsMutex, OnItsOwn

(* The invariant holds in every state.                                       *)
LEMMA Safety == Spec => []SafetyInv
BY SafetyInit, SafetyStep, PTL DEF Spec

(* A connection in the map is open, except inside closeTunnelConn.         *)
THEOREM MappedOpen == Spec => []MappedSocketsOpen
BY Safety, PTL DEF SafetyInv

(* The socket about to be closed is still open: none is closed twice.      *)
THEOREM ClosedOnce == Spec => []NoDoubleClose
<1>1. SafetyInv => NoDoubleClose
  BY DEF SafetyInv, Critical, InCritical, NoDoubleClose
<1> QED BY <1>1, Safety, PTL

(* No worker ever holds an open connection of another session or user.     *)
THEOREM Isolated == Spec => []SessionIsolation
BY Safety, PTL DEF SafetyInv

(* Initial data only goes to the address the connect request names.        *)
THEOREM ReachesAddress == Spec => []ConnectReachesAddress
BY Safety, PTL DEF SafetyInv

(* The assignment in saveTunnelConn always finds the inner map.            *)
THEOREM SaveNeverPanics == Spec => []SaveFindsUserMap
<1>1. SafetyInv => SaveFindsUserMap
  BY DEF SafetyInv, TypeInv, HasRequest, InnerMapMade, SaveFindsUserMap
<1> QED BY <1>1, Safety, PTL

-----------------------------------------------------------------------------
(* Leaks and silent switches.  They need, beyond SafetyInv, that a session *)
(* whose connect is dialling has no entry, and that two dials of one       *)
(* session have been recorded as a race.                                   *)

DialsUnmapped ==
  \A w \in Workers : Dialling(w) =>
    connOf[Session(w)] = None \/ Session(w) \in dialRaced

RaceRecorded ==
  \A v, w \in Workers :
    v # w /\ Dialling(v) /\ Dialling(w) /\ Session(v) = Session(w) =>
      Session(w) \in dialRaced

LeakInv == SafetyInv /\ DialsUnmapped /\ RaceRecorded /\ NoLeakWithoutRace

(* At first nothing is leaked.                                               *)
LEMMA LeakInit == Init => LeakInv
BY SafetyInit
DEF Init, LeakInv, DialsUnmapped, RaceRecorded, NoLeakWithoutRace, Dialling

(* Steps that neither dial nor touch an entry or a socket.                 *)
Calm(w) ==
  /\ UNCHANGED <<connOf, socket, dialRaced>>
  /\ pc[w] # "save" /\ pc'[w] \notin {"dial", "save"}
  /\ \A v \in Workers \ {w} :
       pc'[v] = pc[v] /\ req'[v] = req[v] /\ held'[v] = held[v]

(* A step that leaves map and sockets.                                       *)
LEMMA CalmStep ==
  ASSUME LeakInv, SafetyInv', NEW w \in Workers, Calm(w)
  PROVE  LeakInv'
<1> USE DEF LeakInv, Calm
<1>1. DialsUnmapped' /\ RaceRecorded'
  BY DEF DialsUnmapped, RaceRecorded, Dialling, Session
<1>2. NoLeakWithoutRace'
  BY DEF NoLeakWithoutRace
<1> QED BY <1>1, <1>2

(* Steps that enter the dial, possibly deleting a closed entry first.      *)
Enter(w) ==
  /\ EnterDial(w)
  /\ UNCHANGED <<socket, req, held>>
  /\ pc[w] \notin {"idle", "dial", "save"}
  /\ Session(w) \in Sessions
  /\ connOf'[Session(w)] = None
  /\ \A s \in Sessions \ {Session(w)} : connOf'[s] = connOf[s]
  /\ connOf[Session(w)] # None => socket[connOf[Session(w)]] = Shut

(* A request that enters is counted.                                         *)
LEMMA EnterStep ==
  ASSUME LeakInv, SafetyInv', NEW w \in Workers, Enter(w)
  PROVE  LeakInv'
<1> USE DEF LeakInv, Enter
<1>1. /\ pc'[w] = "dial"
      /\ \A v \in Workers \ {w} : pc'[v] = pc[v]
      /\ dialRaced \subseteq dialRaced'
      /\ \A v \in Workers \ {w} :
           Dialling(v) /\ Session(v) = Session(w) => Session(w) \in dialRaced'
  BY DEF EnterDial, Goto, SafetyInv, TypeInv, TypeOK
<1>2. \A v \in Workers : pc[v] # "idle" => Session(v) \in Sessions
  BY RequestType DEF SafetyInv, TypeInv, TypeOK, HasRequest, Session
<1>3. DialsUnmapped'
  BY <1>1, <1>2 DEF DialsUnmapped, Dialling, Session
<1>4. RaceRecorded'
  BY <1>1 DEF RaceRecorded, Dialling, Session
<1>5. NoLeakWithoutRace'
  <2> SUFFICES ASSUME NEW c \in Conns, socket[c] # Shut
               PROVE  \/ connOf'[socket[c].session] = c
                      \/ \E v \in Workers : pc'[v] = "save" /\ held[v] = c
                      \/ socket[c].session \in dialRaced'
    BY DEF NoLeakWithoutRace
  <2>1. socket[c].session \in Sessions
    BY DEF SafetyInv, TypeInv, TypeOK, Peer, Shut
  <2>2. connOf[socket[c].session] = c => socket[c].session # Session(w)
    BY TunnelAssumption
  <2> QED BY <1>1, <2>1, <2>2 DEF NoLeakWithoutRace
<1> QED BY <1>3, <1>4, <1>5

(* Every step keeps the invariant.                                           *)
LEMMA LeakStep == LeakInv /\ [Next]_vars => LeakInv'
<1> SUFFICES ASSUME LeakInv, [Next]_vars PROVE LeakInv'
  OBVIOUS
<1>1. SafetyInv /\ SafetyInv'
  BY SafetyStep DEF LeakInv
<1>2. TypeOK /\ \A v \in Workers : pc[v] # "idle" => Session(v) \in Sessions
  BY <1>1, RequestType DEF SafetyInv, TypeInv, TypeOK, HasRequest, Session
<1>3. ASSUME NEW w \in Workers, NEW r \in Request, Receive(w, r)
      PROVE  LeakInv'
  <2>1. Calm(w)
    BY <1>2, <1>3, RequestType DEF Receive, Calm, EntryPoint, TypeOK
  <2> QED BY <1>1, <2>1, CalmStep
<1>4. ASSUME NEW w \in Workers, LookupForConnect(w) PROVE LeakInv'
  <2> USE <1>4 DEF LookupForConnect, GetTunnelConn
  <2>1. CASE connOf[Entry(w)] = None /\ EnterDial(w) /\ UNCHANGED held
    <3>1. Enter(w)
      BY <1>2, <2>1 DEF Enter, Entry
    <3> QED BY <1>1, <3>1, EnterStep
  <2>2. CASE /\ held' = [held EXCEPT ![w] = connOf[Entry(w)]]
             /\ HaveConn(w, FALSE) /\ UNCHANGED dialRaced
    <3>1. Calm(w)
      BY <1>2, <2>2 DEF Calm, HaveConn, Answer, Goto, TypeOK
    <3> QED BY <1>1, <3>1, CalmStep
  <2>3. CASE ChangeTarget(w) /\ UNCHANGED held
    <3>1. Calm(w)
      BY <1>2, <2>3 DEF Calm, ChangeTarget, Goto, TypeOK
    <3> QED BY <1>1, <3>1, CalmStep
  <2> QED BY <2>1, <2>2, <2>3
<1>5. ASSUME NEW w \in Workers, LookupForIO(w) PROVE LeakInv'
  <2>1. Calm(w)
    BY <1>2, <1>5 DEF LookupForIO, GetTunnelConn, Calm, Answer, Goto, TypeOK
  <2> QED BY <1>1, <2>1, CalmStep
<1>6. ASSUME NEW w \in Workers, DialOk(w) PROVE LeakInv'
  <2>1. PICK c \in Conns :
          /\ socket[c] = Shut
          /\ ~Referenced(c)
          /\ socket' = [socket EXCEPT ![c] = [session |-> Session(w),
                                              addr |-> req[w].addr]]
          /\ held' = [held EXCEPT ![w] = c]
    BY <1>6 DEF DialOk
  <2>2. /\ pc[w] = "dial" /\ pc'[w] = "save"
        /\ \A v \in Workers \ {w} : pc'[v] = pc[v]
        /\ UNCHANGED <<connOf, req, dialRaced>>
        /\ held'[w] = c
        /\ \A v \in Workers \ {w} : held'[v] = held[v]
        /\ \A d \in Conns \ {c} : socket'[d] = socket[d]
    BY <1>2, <1>6, <2>1 DEF DialOk, Goto, TypeOK
  <2>3. DialsUnmapped' /\ RaceRecorded'
    BY <2>2 DEF LeakInv, DialsUnmapped, RaceRecorded, Dialling, Session
  <2>4. NoLeakWithoutRace'
    BY <2>2 DEF LeakInv, NoLeakWithoutRace
  <2> QED BY <1>1, <2>3, <2>4 DEF LeakInv
<1>7. ASSUME NEW w \in Workers, DialFail(w) \/ IOOk(w) \/ IOFail(w)
      PROVE  LeakInv'
  <2>1. Calm(w)
    BY <1>2, <1>7 DEF DialFail, IOOk, IOFail, Calm, Answer, Goto, TypeOK
  <2> QED BY <1>1, <2>1, CalmStep
<1>8. ASSUME NEW w \in Workers, SaveTunnelConn(w) PROVE LeakInv'
  <2>1. /\ pc[w] = "save" /\ pc'[w] \in {"io", "reply"}
        /\ \A v \in Workers \ {w} : pc'[v] = pc[v]
        /\ UNCHANGED <<socket, req, held, dialRaced>>
        /\ Session(w) \in Sessions
        /\ connOf'[Session(w)] = held[w]
        /\ \A s \in Sessions \ {Session(w)} : connOf'[s] = connOf[s]
        /\ Dialling(w)
    BY <1>1, <1>2, <1>8
    DEF SaveTunnelConn, HaveConn, Answer, Goto, Entry, TypeOK, Dialling,
        SafetyInv, TypeInv, HasRequest
  <2>2. socket[held[w]].session = Session(w)
    BY <1>1, <2>1 DEF SafetyInv, Unsaved, SessionIsolation
  <2>3. RaceRecorded'
    BY <2>1 DEF LeakInv, RaceRecorded, Dialling, Session
  <2>4. DialsUnmapped'
    <3> SUFFICES ASSUME NEW v \in Workers, Dialling(v)'
                 PROVE  \/ connOf'[Session(v)] = None
                        \/ Session(v) \in dialRaced'
      BY <2>1 DEF DialsUnmapped, Session
    <3>1. v # w /\ Dialling(v) /\ Session(v) \in Sessions
      BY <1>2, <2>1 DEF Dialling
    <3>2. CASE Session(v) = Session(w)
      BY <2>1, <3>1, <3>2 DEF LeakInv, RaceRecorded
    <3>3. CASE Session(v) # Session(w)
      BY <2>1, <3>1, <3>3 DEF LeakInv, DialsUnmapped
    <3> QED BY <3>2, <3>3
  <2>5. NoLeakWithoutRace'
    <3> SUFFICES ASSUME NEW c \in Conns, socket[c] # Shut
                 PROVE  \/ connOf'[socket[c].session] = c
                        \/ \E v \in Workers : pc'[v] = "save" /\ held[v] = c
                        \/ socket[c].session \in dialRaced'
      BY <2>1 DEF NoLeakWithoutRace
    <3>1. socket[c].session \in Sessions
      BY <1>2 DEF TypeOK, Peer, Shut
    <3>2. CASE connOf[socket[c].session] = c
      BY <2>1, <3>1, <3>2, TunnelAssumption DEF LeakInv, DialsUnmapped
    <3>3. CASE \E v \in Workers : pc[v] = "save" /\ held[v] = c
      BY <2>1, <2>2, <3>3
    <3> QED BY <2>1, <3>2, <3>3 DEF LeakInv, NoLeakWithoutRace
  <2> QED BY <1>1, <2>3, <2>4, <2>5 DEF LeakInv
<1>9. ASSUME NEW w \in Workers, CloseNothing(w) PROVE LeakInv'
  <2> USE <1>9 DEF CloseNothing
  <2>1. CASE EnterDial(w)
    <3>1. Enter(w)
      BY <1>2, <2>1 DEF Enter, Entry
    <3> QED BY <1>1, <3>1, EnterStep
  <2>2. CASE /\ Answer(w, IF req[w].kind = "close" THEN "none" ELSE "closed")
             /\ UNCHANGED dialRaced
    <3>1. Calm(w)
      BY <1>2, <2>2 DEF Calm, Answer, Goto, TypeOK
    <3> QED BY <1>1, <3>1, CalmStep
  <2> QED BY <2>1, <2>2 DEF AfterClose
<1>10. ASSUME NEW w \in Workers, CloseLock(w) PROVE LeakInv'
  <2>1. Calm(w)
    BY <1>2, <1>10 DEF CloseLock, Calm, Goto, TypeOK
  <2> QED BY <1>1, <2>1, CalmStep
<1>11. ASSUME NEW w \in Workers, CloseSocket(w) PROVE LeakInv'
  <2>1. /\ pc[w] = "closing" /\ pc'[w] = "delete"
        /\ \A v \in Workers \ {w} : pc'[v] = pc[v]
        /\ UNCHANGED <<connOf, req, held, dialRaced>>
        /\ \A c \in Conns : socket'[c] # Shut => socket'[c] = socket[c]
    BY <1>2, <1>11 DEF CloseSocket, ShutDown, Goto, TypeOK
  <2>2. DialsUnmapped' /\ RaceRecorded'
    BY <2>1 DEF LeakInv, DialsUnmapped, RaceRecorded, Dialling, Session
  <2>3. NoLeakWithoutRace'
    BY <2>1 DEF LeakInv, NoLeakWithoutRace
  <2> QED BY <1>1, <2>2, <2>3 DEF LeakInv
<1>12. ASSUME NEW w \in Workers, DeleteEntry(w) PROVE LeakInv'
  <2>1. /\ pc[w] = "delete"
        /\ UNCHANGED <<socket, req, held>>
        /\ Session(w) \in Sessions
        /\ connOf'[Session(w)] = None
        /\ \A s \in Sessions \ {Session(w)} : connOf'[s] = connOf[s]
        /\ connOf[Session(w)] # None /\ socket[connOf[Session(w)]] = Shut
    BY <1>1, <1>2, <1>12
    DEF DeleteEntry, RemoveAndUnlock, Entry, TypeOK, SafetyInv, Critical,
        InCritical
  <2>2. CASE EnterDial(w)
    <3>1. Enter(w)
      BY <2>1, <2>2 DEF Enter
    <3> QED BY <1>1, <3>1, EnterStep
  <2>3. CASE /\ Answer(w, IF req[w].kind = "close" THEN "none" ELSE "closed")
             /\ UNCHANGED dialRaced
    <3>1. /\ pc'[w] = "reply"
          /\ \A v \in Workers \ {w} : pc'[v] = pc[v]
      BY <1>2, <2>3 DEF Answer, Goto, TypeOK
    <3>2. DialsUnmapped' /\ RaceRecorded'
      BY <1>2, <2>1, <2>3, <3>1
      DEF LeakInv, DialsUnmapped, RaceRecorded, Dialling, Session
    <3>3. NoLeakWithoutRace'
      <4> SUFFICES ASSUME NEW c \in Conns, socket[c] # Shut
                   PROVE  \/ connOf'[socket[c].session] = c
                          \/ \E v \in Workers : pc'[v] = "save" /\ held[v] = c
                          \/ socket[c].session \in dialRaced'
        BY <2>1 DEF NoLeakWithoutRace
      <4>1. socket[c].session \in Sessions
        BY <1>2 DEF TypeOK, Peer, Shut
      <4> QED BY <2>1, <2>3, <3>1, <4>1 DEF LeakInv, NoLeakWithoutRace
    <3> QED BY <1>1, <3>2, <3>3 DEF LeakInv
  <2> QED BY <1>12, <2>2, <2>3 DEF DeleteEntry, AfterClose
<1>13. ASSUME NEW w \in Workers, Reply(w) PROVE LeakInv'
  <2>1. Calm(w)
    BY <1>2, <1>13 DEF Reply, Calm, Goto, TypeOK
  <2> QED BY <1>1, <2>1, CalmStep
<1>14. CASE UNCHANGED vars
  BY <1>1, <1>14
  DEF vars, LeakInv, DialsUnmapped, RaceRecorded, NoLeakWithoutRace, Dialling,
      Session
<1> QED
  BY <1>3, <1>4, <1>5, <1>6, <1>7, <1>8, <1>9, <1>10, <1>11, <1>12, <1>13,
     <1>14 DEF Next, NeedsMutex, OnItsOwn

(* The invariant holds in every state.                                       *)
LEMMA Leak == Spec => []LeakInv
BY LeakInit, LeakStep, PTL DEF Spec

(* Without a race of two connects, every open socket is in the map or on   *)
(* its way into it.                                                        *)
THEOREM NoLeak == Spec => []NoLeakWithoutRace
BY Leak, PTL DEF LeakInv

(* Without such a race no entry is overwritten by another connection.      *)
THEOREM NoSwitch == Spec => NoSilentSwitch
<1>1. ASSUME LeakInv, [Next]_vars, NEW s \in Sessions,
             connOf[s] # None, connOf'[s] \notin {None, connOf[s]}
      PROVE  s \in dialRaced
  <2>1. ASSUME NEW w \in Workers, SaveTunnelConn(w) PROVE s \in dialRaced
    <3>1. s = Session(w) /\ Dialling(w)
      BY <1>1, <2>1
      DEF SaveTunnelConn, Entry, Dialling, LeakInv, SafetyInv, TypeInv,
          TypeOK, HasRequest
    <3> QED BY <1>1, <3>1 DEF LeakInv, DialsUnmapped
  <2>2. ASSUME NEW w \in Workers, DeleteEntry(w) PROVE FALSE
    BY <1>1, <2>2
    DEF DeleteEntry, RemoveAndUnlock, LeakInv, SafetyInv, TypeInv, TypeOK
  <2> QED
    BY <1>1, <2>1, <2>2
    DEF Next, NeedsMutex, OnItsOwn, vars, Receive, LookupForConnect,
        LookupForIO, GetTunnelConn, DialOk, DialFail, IOOk, IOFail,
        CloseNothing, CloseLock, CloseSocket, Reply
<1>2. LeakInv /\ [Next]_vars =>
        [\A s \in Sessions :
           connOf[s] # None /\ connOf'[s] \notin {None, connOf[s]} =>
             s \in dialRaced]_vars
  BY <1>1
<1> QED BY <1>2, Leak, PTL DEF Spec, NoSilentSwitch

-----------------------------------------------------------------------------
(* Truth of answers.  A worker that is alone with its session, in all the  *)
(* time since its request came, knows what the map has for it.             *)

\* Two requests of one session in flight have been recorded.
Recorded ==
  \A v, w \in Workers :
    v # w /\ pc[v] # "idle" /\ pc[w] # "idle" /\ Session(v) = Session(w) =>
      Session(w) \in overlapped

Knows(w) ==
  LET mapped == connOf[Session(w)] IN
  /\ pc[w] = "lookup" => held[w] = None
  /\ pc[w] \in {"dial", "save"} => mapped = None
  /\ pc[w] = "io" => mapped = held[w]
  /\ pc[w] \in {"close", "closing", "delete"} => held[w] \in {None, mapped}
  /\ pc[w] = "reply" =>
       /\ reply[w] = "opened" => mapped = held[w]
       /\ reply[w] = "closed" =>
            mapped = None \/ (req[w].kind = "connect" /\ mapped = held[w])

AnswerInv ==
  /\ TypeInv
  /\ Recorded
  /\ \A w \in Workers : pc[w] = "idle" => reply[w] = "none"
  /\ \A w \in Workers : pc[w] # "idle" /\ Session(w) \notin overlapped => Knows(w)

(* At first nobody was answered.                                             *)
LEMMA AnswerInit == Init => AnswerInv
BY TypeInit DEF Init, AnswerInv, Recorded

(* A step of a worker on its own session, but for Receive and Reply, leaves *)
(* what the workers of other sessions know.                                 *)
Works(w) ==
  /\ UNCHANGED <<req, overlapped>>
  /\ pc[w] # "idle" /\ pc'[w] # "idle"
  /\ \A v \in Workers \ {w} :
       pc'[v] = pc[v] /\ held'[v] = held[v] /\ reply'[v] = reply[v]
  /\ \A s \in Sessions \ {Session(w)} : connOf'[s] = connOf[s]

(* A step of one worker, seen by another of its session.                     *)
LEMMA WorkStep ==
  ASSUME AnswerInv, TypeInv', NEW w \in Workers, Works(w),
         Session(w) \notin overlapped => Knows(w)'
  PROVE  AnswerInv'
<1> USE DEF Works
<1>1. \A v \in Workers : Session(v)' = Session(v)
  BY DEF Session
<1>2. Recorded'
  BY <1>1 DEF AnswerInv, Recorded
<1>3. \A v \in Workers : pc'[v] = "idle" => reply'[v] = "none"
  BY DEF AnswerInv
<1>4. ASSUME NEW v \in Workers, pc'[v] # "idle", Session(v)' \notin overlapped'
      PROVE  Knows(v)'
  <2>1. CASE v = w
    BY <2>1, <1>1, <1>4
  <2>2. CASE v # w
    <3>1. Session(v) \in Sessions /\ Session(v) # Session(w)
      BY <2>2, <1>1, <1>4, RequestType
      DEF AnswerInv, Recorded, TypeInv, TypeOK, HasRequest, Session
    <3>2. Knows(v)
      BY <2>2, <1>1, <1>4 DEF AnswerInv
    <3> QED BY <2>2, <3>1, <3>2, <1>1 DEF Knows
  <2> QED BY <2>1, <2>2
<1> QED BY <1>2, <1>3, <1>4 DEF AnswerInv

(* Every step keeps the invariant.                                           *)
LEMMA AnswerStep == AnswerInv /\ [Next]_vars => AnswerInv'
<1> SUFFICES ASSUME AnswerInv, [Next]_vars PROVE AnswerInv'
  OBVIOUS
<1>1. TypeInv /\ TypeInv' /\ TypeOK
  BY TypeStep DEF AnswerInv, TypeInv
<1>2. ASSUME NEW w \in Workers, pc[w] # "idle"
      PROVE  Session(w) \in Sessions /\ req[w] \in Request
  BY <1>1, <1>2, RequestType DEF TypeOK, TypeInv, HasRequest, Session
<1>3. ASSUME NEW w \in Workers, pc[w] # "idle", Session(w) \notin overlapped
      PROVE  Knows(w)
  BY <1>3 DEF AnswerInv
<1>4. ASSUME NEW w \in Workers, NEW r \in Request, Receive(w, r)
      PROVE  AnswerInv'
  <2>1. /\ pc[w] = "idle" /\ req'[w] = r /\ held[w] = None /\ reply[w] = "none"
        /\ pc'[w] \in {"lookup", "close", "reply"}
        /\ UNCHANGED <<connOf, held, reply>>
        /\ \A v \in Workers \ {w} : pc'[v] = pc[v] /\ req'[v] = req[v]
        /\ overlapped \subseteq overlapped'
        /\ \A v \in Workers : Session(v) = r.session => r.session \in overlapped'
    BY <1>1, <1>4, RequestType
    DEF Receive, EntryPoint, AnswerInv, TypeInv, TypeOK, HasRequest
  <2>2. Session(w)' = r.session /\ \A v \in Workers \ {w} : Session(v)' = Session(v)
    BY <2>1 DEF Session
  <2>3. Recorded'
    BY <2>1, <2>2 DEF AnswerInv, Recorded
  <2>4. \A v \in Workers : pc'[v] = "idle" => reply'[v] = "none"
    BY <2>1 DEF AnswerInv
  <2>5. ASSUME NEW v \in Workers, pc'[v] # "idle", Session(v)' \notin overlapped'
        PROVE  Knows(v)'
    <3>1. CASE v = w
      BY <3>1, <2>1 DEF Knows
    <3>2. CASE v # w
      <4>1. Knows(v)
        BY <3>2, <2>1, <2>2, <2>5 DEF AnswerInv
      <4> QED BY <3>2, <4>1, <2>1, <2>2 DEF Knows
    <3> QED BY <3>1, <3>2
  <2> QED BY <1>1, <2>3, <2>4, <2>5 DEF AnswerInv
<1>5. ASSUME NEW w \in Workers, LookupForConnect(w) PROVE AnswerInv'
  <2> USE <1>5 DEF LookupForConnect, GetTunnelConn
  <2>1. pc[w] # "idle" /\ held[w] \in Conns \cup {None}
    BY <1>1 DEF TypeOK
  <2>2. CASE connOf[Entry(w)] = None /\ EnterDial(w) /\ UNCHANGED <<held, reply>>
    <3>1. Works(w) /\ Knows(w)'
      BY <1>1, <2>2 DEF Works, Knows, EnterDial, Goto, Entry, Session, TypeOK
    <3> QED BY <1>1, <3>1, WorkStep
  <2>3. CASE /\ held' = [held EXCEPT ![w] = connOf[Entry(w)]]
             /\ HaveConn(w, FALSE)
    <3>1. Works(w) /\ Knows(w)'
      BY <1>1, <2>3 DEF Works, Knows, HaveConn, Answer, Goto, Entry, Session, TypeOK
    <3> QED BY <1>1, <3>1, WorkStep
  <2>4. CASE ChangeTarget(w) /\ UNCHANGED <<held, reply>>
    <3>1. Works(w) /\ (Session(w) \notin overlapped => Knows(w)')
      BY <1>1, <1>3, <2>4 DEF Works, Knows, ChangeTarget, Goto, Session, TypeOK
    <3> QED BY <1>1, <3>1, WorkStep
  <2> QED BY <2>2, <2>3, <2>4
<1>6. ASSUME NEW w \in Workers, LookupForIO(w) PROVE AnswerInv'
  <2>1. Works(w) /\ Knows(w)'
    BY <1>1, <1>6
    DEF LookupForIO, GetTunnelConn, Works, Knows, Answer, Goto, Entry, Session, TypeOK
  <2> QED BY <1>1, <2>1, WorkStep
<1>7. ASSUME NEW w \in Workers, DialOk(w) \/ DialFail(w) PROVE AnswerInv'
  <2>1. Works(w) /\ (Session(w) \notin overlapped => Knows(w)')
    BY <1>1, <1>3, <1>7
    DEF DialOk, DialFail, Works, Knows, Answer, Goto, Session, TypeOK
  <2> QED BY <1>1, <2>1, WorkStep
<1>8. ASSUME NEW w \in Workers, SaveTunnelConn(w) PROVE AnswerInv'
  <2>1. Works(w) /\ Knows(w)'
    BY <1>1, <1>2, <1>8
    DEF SaveTunnelConn, HaveConn, Works, Knows, Answer, Goto, Entry, Session, TypeOK
  <2> QED BY <1>1, <2>1, WorkStep
<1>9. ASSUME NEW w \in Workers, IOOk(w) \/ IOFail(w) PROVE AnswerInv'
  <2>1. Works(w) /\ (Session(w) \notin overlapped => Knows(w)')
    BY <1>1, <1>3, <1>9
    DEF IOOk, IOFail, Works, Knows, Answer, Goto, Session, TypeOK
  <2> QED BY <1>1, <2>1, WorkStep
<1>10. ASSUME NEW w \in Workers, CloseNothing(w) \/ DeleteEntry(w) PROVE AnswerInv'
  <2>1. connOf'[Session(w)] = None /\ \A s \in Sessions \ {Session(w)} : connOf'[s] = connOf[s]
    BY <1>1, <1>2, <1>10 DEF CloseNothing, DeleteEntry, RemoveAndUnlock, Entry, TypeOK
  <2>2. Works(w) /\ Knows(w)'
    BY <1>1, <1>10, <2>1
    DEF CloseNothing, DeleteEntry, AfterClose, EnterDial, Works, Knows, Answer, Goto, Session, TypeOK
  <2> QED BY <1>1, <2>2, WorkStep
<1>11. ASSUME NEW w \in Workers, CloseLock(w) \/ CloseSocket(w) PROVE AnswerInv'
  <2>1. Works(w) /\ (Session(w) \notin overlapped => Knows(w)')
    BY <1>1, <1>3, <1>11 DEF CloseLock, CloseSocket, Works, Knows, Goto, Session, TypeOK
  <2> QED BY <1>1, <2>1, WorkStep
<1>12. ASSUME NEW w \in Workers, Reply(w) PROVE AnswerInv'
  <2>1. /\ pc'[w] = "idle" /\ reply'[w] = "none" /\ UNCHANGED <<connOf, overlapped>>
        /\ \A v \in Workers \ {w} : /\ pc'[v] = pc[v] /\ req'[v] = req[v]
                                    /\ held'[v] = held[v] /\ reply'[v] = reply[v]
    BY <1>1, <1>12 DEF Reply, Goto, TypeOK
  <2>2. \A v \in Workers \ {w} : Session(v)' = Session(v)
    BY <2>1 DEF Session
  <2>3. Recorded' /\ \A v \in Workers : pc'[v] = "idle" => reply'[v] = "none"
    BY <2>1, <2>2 DEF AnswerInv, Recorded
  <2>4. ASSUME NEW v \in Workers, pc'[v] # "idle", Session(v)' \notin overlapped'
        PROVE  Knows(v)'
    BY <2>1, <2>2, <2>4 DEF AnswerInv, Knows
  <2> QED BY <1>1, <2>3, <2>4 DEF AnswerInv
<1>13. CASE UNCHANGED vars
  BY <1>1, <1>13 DEF vars, AnswerInv, Recorded, Knows, Session
<1> QED
  BY <1>4, <1>5, <1>6, <1>7, <1>8, <1>9, <1>10, <1>11, <1>12, <1>13
  DEF Next, NeedsMutex, OnItsOwn

(* The invariant holds in every state.                                       *)
LEMMA Answers == Spec => []AnswerInv
BY AnswerInit, AnswerStep, PTL DEF Spec

(* An answer to a request that was alone with its session is true: OPENED, *)
(* the new connection is the one in the map; CLOSED, the map has none, but *)
(* for a connect whose initial write failed.                               *)
THEOREM TrueAnswers == Spec => []AnswersAreTrue
<1>1. AnswerInv => AnswersAreTrue
  BY DEF AnswerInv, AnswersAreTrue, Knows
<1> QED BY <1>1, Answers, PTL

(* closeTunnelConn never closes a newer connection of the session and      *)
(* leaves open the one on which the worker's write or read failed, unless  *)
(* two connects of the session raced.                                      *)
THEOREM ClosedAsFailed == Spec => ClosesWhatFailed
<1>1. ASSUME LeakInv, [Next]_vars, NEW w \in Workers, NEW c \in Conns,
             pc[w] = "closing", socket[c] # Shut, socket'[c] = Shut
      PROVE  \/ held[w] \in {c, None}
             \/ socket[held[w]] = Shut
             \/ Session(w) \in dialRaced
  <2> SafetyInv /\ TypeOK
    BY <1>1 DEF LeakInv, SafetyInv, TypeInv
  <2>1. PICK v \in Workers : CloseSocket(v) \/ DialOk(v)
    BY <1>1
    DEF Next, NeedsMutex, OnItsOwn, vars, Receive, LookupForConnect,
        LookupForIO, GetTunnelConn, SaveTunnelConn, DialFail, IOOk, IOFail,
        CloseNothing, CloseLock, DeleteEntry, Reply
  <2>2. ~DialOk(v)
    <3> SUFFICES ASSUME DialOk(v) PROVE FALSE
      OBVIOUS
    <3>1. Session(v) # None
      BY RequestType, <1>1
      DEF DialOk, SafetyInv, TypeInv, TypeOK, HasRequest, Session
    <3> QED BY <1>1, <3>1 DEF DialOk, SafetyInv, TypeInv, TypeOK, Shut
  <2>3. pc[v] = "closing" /\ v = w
    BY <1>1, <2>1, <2>2 DEF CloseSocket, SafetyInv, Critical, InCritical
  <2>4. c = connOf[Session(w)] /\ Session(w) \in Sessions
    <3>1. Session(w) \in Sessions
      BY RequestType, <1>1 DEF SafetyInv, TypeInv, TypeOK, HasRequest, Session
    <3> QED BY <1>1, <2>1, <2>2, <2>3, <3>1
            DEF CloseSocket, ShutDown, Entry, SafetyInv, TypeInv, TypeOK
  <2>5. ASSUME held[w] \notin {c, None}, socket[held[w]] # Shut
        PROVE  Session(w) \in dialRaced
    <3>1. held[w] \in Conns /\ socket[held[w]].session = Session(w)
      BY <2>5 DEF SafetyInv, SessionIsolation, TypeOK
    <3>2. \/ \E u \in Workers : pc[u] = "save" /\ held[u] = held[w]
          \/ Session(w) \in dialRaced
      BY <1>1, <2>4, <2>5, <3>1 DEF LeakInv, NoLeakWithoutRace
    <3>3. ASSUME NEW u \in Workers, pc[u] = "save", held[u] = held[w]
          PROVE  Session(w) \in dialRaced
      <4>1. Dialling(u) /\ Session(u) = Session(w)
        BY <2>5, <3>1, <3>3
        DEF Dialling, SafetyInv, TypeInv, HasRequest, SessionIsolation
      <4> QED BY <1>1, <2>4, <4>1, TunnelAssumption DEF LeakInv, DialsUnmapped
    <3> QED BY <3>2, <3>3
  <2> QED BY <2>5
<1>2. LeakInv /\ [Next]_vars =>
        [\A w \in Workers, c \in Conns :
           pc[w] = "closing" /\ socket[c] # Shut /\ socket'[c] = Shut =>
             \/ held[w] \in {c, None}
             \/ socket[held[w]] = Shut
             \/ Session(w) \in dialRaced]_vars
  BY <1>1
<1> QED BY <1>2, Leak, PTL DEF Spec, ClosesWhatFailed
=============================================================================
