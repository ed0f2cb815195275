------------------------------- MODULE Tunnel -------------------------------
(***************************************************************************)
(* The TCP tunnel of the Go server (service/tunnel.go).  Every request is  *)
(* served by a goroutine (a worker) of its own.  The workers share the     *)
(* two-level map tunnel_conn_map: user -> session id -> connection.  A     *)
(* mutex guards each single access to the map, not the sequence of         *)
(* accesses that one request makes, and it is held across the call that    *)
(* closes a socket.  Dialling, reading and writing happen outside it.      *)
(* A definition marked "Variant" is a fault put in place of the definition *)
(* it precedes to see that the properties notice it.                       *)
(***************************************************************************)
EXTENDS Naturals, FiniteSets

CONSTANTS
  Users,    \* values of EventHeaderTags.UserToken
  Sids,     \* values of EventHeader.Hash: a client's session ids
  Addrs,    \* remote addresses
  Workers,  \* goroutines that serve requests
  Conns,    \* identities of tunnelConn objects, each with its socket
  None

Sessions == Users \X Sids

ASSUME TunnelAssumption ==
  /\ None \notin Conns
  /\ None \notin Workers
  /\ None \notin Addrs
  /\ None \notin Sessions

(***************************************************************************)
(* A request: the event the worker was started with.  "connect" is         *)
(* SocketConnectWithDataEvent (data tells whether Content is non-empty),   *)
(* "write" is TCPChunkEvent, "read" is SocketReadEvent, "close" and        *)
(* "status" are SocketConnectionEvent with Status TCP_CONN_CLOSED or not.  *)
(* Only a connect request carries an address.                              *)
(***************************************************************************)
Request ==
  [session : Sessions, kind : {"connect"}, addr : Addrs, data : BOOLEAN]
    \cup
  [session : Sessions, kind : {"write", "read", "close", "status"},
   addr : {None}, data : {FALSE}]

NoRequest == [session |-> None, kind |-> "none", addr |-> None, data |-> FALSE]

\* What a socket is connected for and to; Shut when it is not open.
Peer == [session : Sessions, addr : Addrs]
Shut == [session |-> None, addr |-> None]

Pcs == {"idle", "lookup", "close", "closing", "delete", "dial", "save",
        "io", "reply"}

VARIABLES
  userMaps,  \* users whose inner map exists
  connOf,    \* the entries of the inner maps
  mutex,     \* holder of tunnel_conn_map_mutex
  socket,    \* what the socket of each connection is connected to
  pc, req,   \* per worker: program counter and request
  held,      \* per worker: the connection its local variable c points to
  created,   \* per worker: the flag of getCreateTunnelConn
  reply,     \* per worker: the event it answers with
  overlapped, \* history: sessions that had two requests in flight at once
  dialRaced   \* history: sessions that had two connects dialling at once

vars == <<userMaps, connOf, mutex, socket, pc, req, held, created, reply,
          overlapped, dialRaced>>

Session(w) == req[w].session
Owner(w) == Session(w)[1]

TypeOK ==
  /\ userMaps \subseteq Users
  /\ connOf \in [Sessions -> Conns \cup {None}]
  /\ mutex \in Workers \cup {None}
  /\ socket \in [Conns -> Peer \cup {Shut}]
  /\ pc \in [Workers -> Pcs]
  /\ req \in [Workers -> Request \cup {NoRequest}]
  /\ held \in [Workers -> Conns \cup {None}]
  /\ created \in [Workers -> BOOLEAN]
  /\ reply \in [Workers -> {"none", "opened", "closed"}]
  /\ overlapped \subseteq Sessions
  /\ dialRaced \subseteq Sessions

Init ==
  /\ userMaps = {}
  /\ connOf = [s \in Sessions |-> None]
  /\ mutex = None
  /\ socket = [c \in Conns |-> Shut]
  /\ pc = [w \in Workers |-> "idle"]
  /\ req = [w \in Workers |-> NoRequest]
  /\ held = [w \in Workers |-> None]
  /\ created = [w \in Workers |-> FALSE]
  /\ reply = [w \in Workers |-> "none"]
  /\ overlapped = {}
  /\ dialRaced = {}

-----------------------------------------------------------------------------
(* A request arrives and is dispatched on its type.                        *)

EntryPoint(kind) ==
  CASE kind \in {"connect", "write", "read"} -> "lookup"
    [] kind = "close" -> "close"
    [] kind = "status" -> "reply"

Receive(w, r) ==
  /\ pc[w] = "idle"
  /\ req' = [req EXCEPT ![w] = r]
  /\ pc' = [pc EXCEPT ![w] = EntryPoint(r.kind)]
  /\ overlapped' = IF \E v \in Workers : Session(v) = r.session
                   THEN overlapped \cup {r.session} ELSE overlapped
  /\ UNCHANGED <<userMaps, connOf, mutex, socket, held, created, reply,
                 dialRaced>>

Goto(w, label) == pc' = [pc EXCEPT ![w] = label]

Answer(w, ev) ==
  /\ Goto(w, "reply")
  /\ reply' = [reply EXCEPT ![w] = ev]

\* getCreateTunnelConn falls through to its dial.
Dialling(w) == req[w].kind = "connect" /\ pc[w] \in {"dial", "save"}

EnterDial(w) ==
  /\ Goto(w, "dial")
  /\ dialRaced' =
       IF \E v \in Workers \ {w} : Dialling(v) /\ Session(v) = Session(w)
       THEN dialRaced \cup {Session(w)} ELSE dialRaced

\* TunnelConn has its connection: it writes the initial data, if any.
HaveConn(w, isNew) ==
  \/ req[w].data /\ Goto(w, "io") /\ UNCHANGED reply
  \/ ~req[w].data /\ Answer(w, IF isNew THEN "opened" ELSE "none")

-----------------------------------------------------------------------------
(* The map tunnel_conn_map[uid][sid].                                      *)

\* Variant: one map for all users.
EntryOfSid(w) == <<CHOOSE u \in Users : TRUE, Session(w)[2]>>
Entry(w) == Session(w)

\* Variant: the inner map is not created; it is created under the session id.
NoInnerMap(w) == userMaps
InnerMapOfSid(w) == userMaps \cup {Session(w)[2]}
WithInnerMap(w) == userMaps \cup {Owner(w)}

\* Variant: the address is not compared.
AnyTarget(w, c) == TRUE
SameTarget(w, c) == socket[c].addr = req[w].addr

\* Variant: the old connection is left in the map when the address changes.
DialAnyway(w) == EnterDial(w)
ChangeTarget(w) == Goto(w, "close") /\ UNCHANGED dialRaced

-----------------------------------------------------------------------------
(* getTunnelConn: one critical section; it creates a missing inner map.    *)

GetTunnelConn(w) ==
  /\ pc[w] = "lookup"
  /\ mutex = None
  /\ userMaps' = WithInnerMap(w)
  /\ UNCHANGED <<connOf, mutex, socket, req, created, overlapped>>

LookupForConnect(w) ==
  /\ req[w].kind = "connect"
  /\ GetTunnelConn(w)
  /\ LET c == connOf[Entry(w)] IN
       \/ /\ c = None
          /\ EnterDial(w)
          /\ UNCHANGED <<held, reply>>
       \/ /\ c # None
          /\ SameTarget(w, c)
          /\ held' = [held EXCEPT ![w] = c]
          /\ HaveConn(w, FALSE)
          /\ UNCHANGED dialRaced
       \/ /\ c # None
          /\ ~SameTarget(w, c)
          /\ ChangeTarget(w)
          /\ UNCHANGED <<held, reply>>

LookupForIO(w) ==
  /\ req[w].kind \in {"write", "read"}
  /\ GetTunnelConn(w)
  /\ LET c == connOf[Entry(w)] IN
       \/ c = None /\ Answer(w, "closed") /\ UNCHANGED held
       \/ /\ c # None
          /\ held' = [held EXCEPT ![w] = c]
          /\ Goto(w, "io")
          /\ UNCHANGED reply
  /\ UNCHANGED dialRaced

-----------------------------------------------------------------------------
(* DialTimeout and saveTunnelConn.  An identity that is not open and not   *)
(* referenced stands for a fresh object; with none left every dial fails.  *)

Referenced(c) ==
  \/ \E s \in Sessions : connOf[s] = c
  \/ \E w \in Workers : held[w] = c

DialOk(w) ==
  /\ pc[w] = "dial"
  /\ \E c \in Conns :
       /\ socket[c] = Shut
       /\ ~Referenced(c)
       /\ socket' = [socket EXCEPT ![c] = [session |-> Session(w),
                                           addr |-> req[w].addr]]
       /\ held' = [held EXCEPT ![w] = c]
  /\ created' = [created EXCEPT ![w] = TRUE]
  /\ Goto(w, "save")
  /\ UNCHANGED <<userMaps, connOf, mutex, req, reply, overlapped, dialRaced>>

DialFail(w) ==
  /\ pc[w] = "dial"
  /\ Answer(w, "closed")
  /\ UNCHANGED <<userMaps, connOf, mutex, socket, req, held, created,
                 overlapped, dialRaced>>

\* Assigning to an entry of a missing inner map would panic: not enabled.
SaveTunnelConn(w) ==
  /\ pc[w] = "save"
  /\ mutex = None
  /\ Owner(w) \in userMaps
  /\ connOf' = [connOf EXCEPT ![Entry(w)] = held[w]]
  /\ HaveConn(w, TRUE)
  /\ UNCHANGED <<userMaps, mutex, socket, req, held, created,
                 overlapped, dialRaced>>

-----------------------------------------------------------------------------
(* Socket input and output, outside the mutex.  A call on a socket closed  *)
(* on this side fails; on an open one the peer or a deadline may fail it.  *)

IOOk(w) ==
  /\ pc[w] = "io"
  /\ socket[held[w]] # Shut
  /\ Answer(w, IF created[w] THEN "opened" ELSE "none")
  /\ UNCHANGED <<userMaps, connOf, mutex, socket, req, held, created,
                 overlapped, dialRaced>>

\* TunnelConn answers at once and leaves the entry; the others close it.
IOFail(w) ==
  /\ pc[w] = "io"
  /\ \/ req[w].kind = "connect" /\ Answer(w, "closed")
     \/ req[w].kind # "connect" /\ Goto(w, "close") /\ UNCHANGED reply
  /\ UNCHANGED <<userMaps, connOf, mutex, socket, req, held, created,
                 overlapped, dialRaced>>

-----------------------------------------------------------------------------
(* closeTunnelConn: the mutex is held from the lookup to the deletion.     *)

\* Variant: the entry is dropped and its socket stays open.
LeaveOpen(c) == UNCHANGED socket
ShutDown(c) == socket' = [socket EXCEPT ![c] = Shut]

\* Variant: the mutex is released before the socket is closed.
LockNothing(w) == UNCHANGED mutex
HoldMutex(w) == mutex' = w

AfterClose(w) ==
  \/ req[w].kind = "connect" /\ EnterDial(w) /\ UNCHANGED reply
  \/ /\ req[w].kind # "connect"
     /\ Answer(w, IF req[w].kind = "close" THEN "none" ELSE "closed")
     /\ UNCHANGED dialRaced

CloseNothing(w) ==
  /\ pc[w] = "close"
  /\ mutex = None
  /\ connOf[Entry(w)] = None
  /\ userMaps' = WithInnerMap(w)
  /\ AfterClose(w)
  /\ UNCHANGED <<connOf, mutex, socket, req, held, created, overlapped>>

CloseLock(w) ==
  /\ pc[w] = "close"
  /\ mutex = None
  /\ connOf[Entry(w)] # None
  /\ HoldMutex(w)
  /\ Goto(w, "closing")
  /\ UNCHANGED <<userMaps, connOf, socket, req, held, created, reply,
                 overlapped, dialRaced>>

CloseSocket(w) ==
  /\ pc[w] = "closing"
  /\ ShutDown(connOf[Entry(w)])
  /\ Goto(w, "delete")
  /\ UNCHANGED <<userMaps, connOf, mutex, req, held, created, reply,
                 overlapped, dialRaced>>

\* Variant: the delete is missing; the mutex is not released.
NoRemoval(w) == UNCHANGED connOf /\ mutex' = None
RemoveWithoutUnlock(w) ==
  connOf' = [connOf EXCEPT ![Entry(w)] = None] /\ UNCHANGED mutex
RemoveAndUnlock(w) ==
  connOf' = [connOf EXCEPT ![Entry(w)] = None] /\ mutex' = None

DeleteEntry(w) ==
  /\ pc[w] = "delete"
  /\ RemoveAndUnlock(w)
  /\ AfterClose(w)
  /\ UNCHANGED <<userMaps, socket, req, held, created, overlapped>>

\* The answer is sent and the worker's locals are gone.
Reply(w) ==
  /\ pc[w] = "reply"
  /\ Goto(w, "idle")
  /\ req' = [req EXCEPT ![w] = NoRequest]
  /\ held' = [held EXCEPT ![w] = None]
  /\ created' = [created EXCEPT ![w] = FALSE]
  /\ reply' = [reply EXCEPT ![w] = "none"]
  /\ UNCHANGED <<userMaps, connOf, mutex, socket, overlapped, dialRaced>>

-----------------------------------------------------------------------------
NeedsMutex(w) ==
  \/ LookupForConnect(w)
  \/ LookupForIO(w)
  \/ SaveTunnelConn(w)
  \/ CloseNothing(w)
  \/ CloseLock(w)

OnItsOwn(w) ==
  \/ DialOk(w)
  \/ DialFail(w)
  \/ IOOk(w)
  \/ IOFail(w)
  \/ CloseSocket(w)
  \/ DeleteEntry(w)
  \/ Reply(w)

Next ==
  \E w \in Workers :
    \/ \E r \in Request : Receive(w, r)
    \/ NeedsMutex(w)
    \/ OnItsOwn(w)

Spec == Init /\ [][Next]_vars

(***************************************************************************)
(* Every call out of the package returns: the dial and the read carry a    *)
(* timeout, a write and a close are bounded by the platform's deadline.    *)
(* A goroutine that waits for the mutex gets it in the end (the run-time   *)
(* wakes waiters in order), hence strong fairness.  Clients owe nothing.   *)
(***************************************************************************)
Fairness == \A w \in Workers : WF_vars(OnItsOwn(w)) /\ SF_vars(NeedsMutex(w))

FairSpec == Spec /\ Fairness

-----------------------------------------------------------------------------
(* A connection in the map has an open socket, except while the holder of  *)
(* the mutex is between closing it and deleting its entry: no lookup ever  *)
(* hands out a connection that the server itself has closed.               *)
MappedSocketsOpen ==
  \A s \in Sessions : connOf[s] # None =>
    \/ socket[connOf[s]] # Shut
    \/ \E w \in Workers : mutex = w /\ pc[w] = "delete" /\ Session(w) = s

(* Two workers never close the same socket, whatever requests cross: the   *)
(* socket that closeTunnelConn is about to close is still open.            *)
NoDoubleClose ==
  \A w \in Workers : pc[w] = "closing" =>
    /\ connOf[Session(w)] # None
    /\ socket[connOf[Session(w)]] # Shut

(* Users and sessions are isolated: the connection a worker reads from,    *)
(* writes to or saves is open for the session its request names, if open.  *)
SessionIsolation ==
  \A w \in Workers : held[w] # None /\ socket[held[w]] # Shut =>
    socket[held[w]].session = Session(w)

(* A connect request only ever sends its initial data to the address it    *)
(* asked for, be the connection new or an existing one that it re-uses.    *)
ConnectReachesAddress ==
  \A w \in Workers :
    req[w].kind = "connect" /\ held[w] # None /\ socket[held[w]] # Shut =>
      socket[held[w]].addr = req[w].addr

(* saveTunnelConn finds the user's inner map, created by an earlier lookup *)
(* of the same request: the assignment to the nested map never panics.     *)
SaveFindsUserMap ==
  \A w \in Workers : pc[w] = "save" => Owner(w) \in userMaps

(* No socket leaks: an open one is in the map under its own session or on  *)
(* its way into it, unless that session had two connects dialling at once  *)
(* (then the later save overwrites the entry of the earlier one).          *)
NoLeakWithoutRace ==
  \A c \in Conns : socket[c] # Shut =>
    \/ connOf[socket[c].session] = c
    \/ \E w \in Workers : pc[w] = "save" /\ held[w] = c
    \/ socket[c].session \in dialRaced

(* closeTunnelConn closes what the session id names at that moment, not    *)
(* the connection on which the worker's write or read failed.  It takes a  *)
(* newer connection down only when the failed one has been closed already  *)
(* by another request (or when two connects of the session raced): never   *)
(* does it close a newer connection and leave the failed one open.         *)
ClosesWhatFailed ==
  [][\A w \in Workers, c \in Conns :
       pc[w] = "closing" /\ socket[c] # Shut /\ socket'[c] = Shut =>
         \/ held[w] \in {c, None}
         \/ socket[held[w]] = Shut
         \/ Session(w) \in dialRaced]_vars

(* An answer tells the client the truth, if it has no other request of the *)
(* session in flight: OPENED, the new connection is the one in the map;    *)
(* CLOSED, the map has none.  A connect whose initial write failed is the  *)
(* exception: it answers CLOSED and leaves its connection in the map.      *)
AnswersAreTrue ==
  \A w \in Workers : pc[w] = "reply" /\ Session(w) \notin overlapped =>
    /\ reply[w] = "opened" => connOf[Session(w)] = held[w]
    /\ reply[w] = "closed" =>
         \/ connOf[Session(w)] = None
         \/ req[w].kind = "connect" /\ connOf[Session(w)] = held[w]

(* A session never passes from one connection straight to another: the old *)
(* one is closed and deleted in between, unless connects raced.            *)
NoSilentSwitch ==
  [][\A s \in Sessions :
       connOf[s] # None /\ connOf'[s] \notin {None, connOf[s]} =>
         s \in dialRaced]_vars

(* Every request is answered, with any number of others in flight: the     *)
(* mutex is never held for good, not even across the closing of a socket.  *)
EveryRequestAnswered ==
  \A w \in Workers : pc[w] # "idle" ~> pc[w] = "idle"
=============================================================================
