---------------------------- MODULE SharedAppIds ----------------------------
(***************************************************************************)
(* The share centre of a master node (service/master.go), with the lazy    *)
(* start-up of an instance (entry/entry.go).  Each instance keeps the list *)
(* of shared app ids in memory and writes it through to the datastore; an  *)
(* instance that starts fills its list from the datastore, in the first    *)
(* request it serves.  Requests of one instance are goroutines of one      *)
(* thread: another one runs only while a request waits for a call out of   *)
(* the instance (a query, a put, a delete, a fetch), so the code between   *)
(* two such calls is one action.  A put or delete that fails is logged and *)
(* otherwise ignored.  A definition marked "Variant" is a fault put in     *)
(* place of the one it precedes to see that the properties notice it.      *)
(***************************************************************************)
EXTENDS Integers, FiniteSets

CONSTANTS
  Instances,  \* instances of the application
  Workers,    \* goroutines that serve requests
  Apps,       \* app ids
  Emails,     \* the e-mail addresses that requests carry
  Admin,      \* misc.MasterAdminEmail
  None

ASSUME SharedAppIdsAssumption ==
  Admin \in Emails /\ None \notin Emails \cup Apps \cup Instances

Item == [app : Apps, email : Emails]

\* "index" is any request that starts the instance and asks for nothing more.
Request ==
  [op : {"share", "unshare"}, app : Apps, email : Emails]
    \cup [op : {"retrieve", "index"}, app : {None}, email : {None}]

NoRequest == [op |-> "none", app |-> None, email |-> None]
NoItem == [app |-> None, email |-> None]

VARIABLES
  inited,  \* serverInited, per instance
  list,    \* sharedAppIdItems, per instance: how often each item occurs
  store,   \* the datastore: the e-mail stored under each app id
  pc, at,  \* per worker: program counter, instance it runs on
  req,     \* per worker: its request
  item,    \* per worker: the item it verifies, puts or deletes
  rows,    \* per worker: result of its start-up query, yet to be appended
  torn     \* history: app ids that a fault or a race has touched

vars == <<inited, list, store, pc, at, req, item, rows, torn>>

Pcs == {"idle", "query", "load", "serve", "verify", "put", "delete", "reply"}

TypeOK ==
  /\ inited \in [Instances -> BOOLEAN]
  /\ list \in [Instances -> [Item -> Nat]]
  /\ store \in [Apps -> Emails \cup {None}]
  /\ pc \in [Workers -> Pcs]
  /\ at \in [Workers -> Instances \cup {None}]
  /\ req \in [Workers -> Request \cup {NoRequest}]
  /\ item \in [Workers -> Item \cup {NoItem}]
  /\ rows \in [Workers -> SUBSET Item]
  /\ torn \subseteq Apps

EmptyList == [x \in Item |-> 0]

Init ==
  /\ inited = [i \in Instances |-> FALSE]
  /\ list = [i \in Instances |-> EmptyList]
  /\ store = [a \in Apps |-> None]
  /\ pc = [w \in Workers |-> "idle"]
  /\ at = [w \in Workers |-> None]
  /\ req = [w \in Workers |-> NoRequest]
  /\ item = [w \in Workers |-> NoItem]
  /\ rows = [w \in Workers |-> {}]
  /\ torn = {}

Goto(w, label) == pc' = [pc EXCEPT ![w] = label]

\* What may be under way on an instance or with an app id.
Starting(w) == pc[w] \in {"query", "load"}
Writing(w, a) == pc[w] \in {"put", "delete"} /\ item[w].app = a
Loaded(i) == inited[i] \/ \E w \in Workers : at[w] = i /\ Starting(w)

-----------------------------------------------------------------------------
(* A request arrives at an instance: initGAEProxyServer, InitMasterService *)

\* The master loads its list only while it is empty; a request that meets
\* another one loading finds rows in it and goes on with what there is.
Receive(w, i, r) ==
  /\ pc[w] = "idle"
  /\ at' = [at EXCEPT ![w] = i]
  /\ req' = [req EXCEPT ![w] = r]
  /\ \/ /\ inited[i]
        /\ Goto(w, "serve")
        /\ UNCHANGED <<inited, torn>>
     \/ /\ ~inited[i] /\ list[i] = EmptyList
        /\ Goto(w, "query")
        /\ torn' = IF Loaded(i) THEN Apps
                   ELSE torn \cup {a \in Apps : \E v \in Workers : Writing(v, a)}
        /\ UNCHANGED inited
     \/ /\ ~inited[i] /\ list[i] # EmptyList
        /\ inited' = [inited EXCEPT ![i] = TRUE]
        /\ Goto(w, "serve")
        /\ torn' = Apps
  /\ UNCHANGED <<list, store, item, rows>>

\* Variant: the e-mail property is not restored.
RowWithoutEmail(a) == [app |-> a, email |-> None]
Row(a) == [app |-> a, email |-> store[a]]

\* Variant: an instance starts with an empty list.
NoRows == {}
StoredRows == {Row(a) : a \in {b \in Apps : store[b] # None}}

Query(w) ==
  /\ pc[w] = "query"
  /\ rows' = [rows EXCEPT ![w] = StoredRows]
  /\ Goto(w, "load")
  /\ UNCHANGED <<inited, list, store, at, req, item, torn>>

LoadRow(w) ==
  /\ pc[w] = "load"
  /\ \E x \in rows[w] :
       /\ list' = [list EXCEPT ![at[w]][x] = @ + 1]
       /\ rows' = [rows EXCEPT ![w] = @ \ {x}]
  /\ UNCHANGED <<inited, store, pc, at, req, item, torn>>

EndLoad(w) ==
  /\ inited' = [inited EXCEPT ![at[w]] = TRUE]
  /\ rows' = [rows EXCEPT ![w] = {}]
  /\ Goto(w, "serve")
  /\ UNCHANGED <<list, store, at, req, item>>

LoadDone(w) ==
  /\ pc[w] = "load"
  /\ rows[w] = {}
  /\ EndLoad(w)
  /\ UNCHANGED torn

\* An error ends the loop like the end of the result does.
LoadFail(w) ==
  /\ Starting(w)
  /\ EndLoad(w)
  /\ torn' = Apps

-----------------------------------------------------------------------------
(* The list and the write-through.                                         *)

Listed(i, a) == {x \in Item : x.app = a /\ list[i][x] > 0}

\* Variant: an app id that is shared already is shared again.
NeverShared(i, a) == FALSE
AlreadyShared(i, a) == Listed(i, a) # {}

\* Variant: anyone may unshare; items shared by the administrator stay.
RemovableByAll(x, email) == TRUE
RemovableUnlessAdmin(x, email) == x.email = email /\ email # Admin
Removable(x, email) == x.email = email \/ x.email = Admin

\* A write overlaps with another of the same app id, or another instance has
\* its own copy of the list.
Overlap(w, a) ==
  \/ \E v \in Workers \ {w} : Writing(v, a)
  \/ \E j \in Instances \ {at[w]} : Loaded(j)

Issue(w, call, a, e) ==
  /\ Goto(w, call)
  /\ item' = [item EXCEPT ![w] = [app |-> a, email |-> e]]
  /\ torn' = IF Overlap(w, a) THEN torn \cup {a} ELSE torn

\* RetrieveAppIds tries the next item, unShareAppID answers.
AfterUnshare(w) == Goto(w, IF req[w].op = "retrieve" THEN "serve" ELSE "reply")

\* unShareAppID up to its first call out of the instance.
UnshareAppID(w, a, e) ==
  \/ /\ ~AlreadyShared(at[w], a)
     /\ AfterUnshare(w)
     /\ UNCHANGED <<list, item, torn>>
  \/ \E x \in Listed(at[w], a) :
       \/ ~Removable(x, e) /\ AfterUnshare(w) /\ UNCHANGED <<list, item, torn>>
       \/ /\ Removable(x, e)
          /\ list' = [list EXCEPT ![at[w]][x] = @ - 1]
          /\ Issue(w, "delete", a, e)

-----------------------------------------------------------------------------
(* The requests.                                                           *)

Index(w) ==
  /\ pc[w] = "serve" /\ req[w].op = "index"
  /\ Goto(w, "reply")
  /\ UNCHANGED <<inited, list, store, at, req, item, rows, torn>>

\* shareAppID fetches the site of the app id first.
Share(w) ==
  /\ pc[w] = "serve" /\ req[w].op = "share"
  /\ Goto(w, "verify")
  /\ UNCHANGED <<inited, list, store, at, req, item, rows, torn>>

\* The site is valid, or could not be judged.
ShareVerified(w) ==
  LET a == req[w].app  x == [app |-> a, email |-> req[w].email] IN
  /\ pc[w] = "verify" /\ req[w].op = "share"
  /\ \/ /\ AlreadyShared(at[w], a)
        /\ Goto(w, "reply")
        /\ UNCHANGED <<list, item, torn>>
     \/ /\ ~AlreadyShared(at[w], a)
        /\ list' = [list EXCEPT ![at[w]][x] = @ + 1]
        /\ Issue(w, "put", a, req[w].email)
  /\ UNCHANGED <<inited, store, at, req, rows>>

Unshare(w) ==
  /\ pc[w] = "serve" /\ req[w].op = "unshare"
  /\ UnshareAppID(w, req[w].app, req[w].email)
  /\ UNCHANGED <<inited, store, at, req, rows>>

\* RetrieveAppIds picks an item at random and fetches its site.
Retrieve(w) ==
  /\ pc[w] = "serve" /\ req[w].op = "retrieve"
  /\ \/ /\ list[at[w]] = EmptyList
        /\ Goto(w, "reply")
        /\ UNCHANGED item
     \/ \E x \in {y \in Item : list[at[w]][y] > 0} :
          /\ item' = [item EXCEPT ![w] = x]
          /\ Goto(w, "verify")
  /\ UNCHANGED <<inited, list, store, at, req, rows, torn>>

\* A site that cannot be judged counts as valid.
Answered(w) ==
  /\ pc[w] = "verify" /\ req[w].op = "retrieve"
  /\ Goto(w, "reply")
  /\ UNCHANGED <<inited, list, store, at, req, item, rows, torn>>

SiteInvalid(w) ==
  /\ pc[w] = "verify"
  /\ \/ req[w].op = "share" /\ Goto(w, "reply") /\ UNCHANGED <<list, item, torn>>
     \/ req[w].op = "retrieve" /\ UnshareAppID(w, item[w].app, item[w].email)
  /\ UNCHANGED <<inited, store, at, req, rows>>

-----------------------------------------------------------------------------
(* The datastore answers a put or a delete.                                *)

\* Variant: the entry is deleted from the list only.
KeepStored(a) == store
Removed(a) == [store EXCEPT ![a] = None]

Written(w) ==
  IF pc[w] = "put" THEN [store EXCEPT ![item[w].app] = item[w].email]
  ELSE Removed(item[w].app)

Continue(w) == IF pc[w] = "put" THEN Goto(w, "reply") ELSE AfterUnshare(w)

WriteOk(w) ==
  /\ pc[w] \in {"put", "delete"}
  /\ store' = Written(w)
  /\ Continue(w)
  /\ UNCHANGED <<inited, list, at, req, item, rows, torn>>

\* After an error the write may have been applied or not.
WriteFail(w) ==
  /\ pc[w] \in {"put", "delete"}
  /\ store' \in {store, Written(w)}
  /\ Continue(w)
  /\ torn' = torn \cup {item[w].app}
  /\ UNCHANGED <<inited, list, at, req, item, rows>>

Reply(w) ==
  /\ pc[w] = "reply"
  /\ Goto(w, "idle")
  /\ at' = [at EXCEPT ![w] = None]
  /\ req' = [req EXCEPT ![w] = NoRequest]
  /\ item' = [item EXCEPT ![w] = NoItem]
  /\ UNCHANGED <<inited, list, store, rows, torn>>

\* The platform stops an instance, with the requests it serves.  With no
\* other instance in use the next one starts from the datastore alone.
Stop(i) ==
  LET here == {w \in Workers : at[w] = i} IN
  /\ inited' = [inited EXCEPT ![i] = FALSE]
  /\ list' = [list EXCEPT ![i] = EmptyList]
  /\ pc' = [w \in Workers |-> IF w \in here THEN "idle" ELSE pc[w]]
  /\ at' = [w \in Workers |-> IF w \in here THEN None ELSE at[w]]
  /\ req' = [w \in Workers |-> IF w \in here THEN NoRequest ELSE req[w]]
  /\ item' = [w \in Workers |-> IF w \in here THEN NoItem ELSE item[w]]
  /\ rows' = [w \in Workers |-> IF w \in here THEN {} ELSE rows[w]]
  /\ torn' = IF \E j \in Instances \ {i} :
                  inited[j] \/ \E w \in Workers : at[w] = j
             THEN torn ELSE {}
  /\ UNCHANGED store

-----------------------------------------------------------------------------
Step(w) ==
  \/ Query(w) \/ LoadRow(w) \/ LoadDone(w) \/ LoadFail(w)
  \/ Index(w) \/ Share(w) \/ ShareVerified(w) \/ Unshare(w)
  \/ Retrieve(w) \/ Answered(w) \/ SiteInvalid(w)
  \/ WriteOk(w) \/ WriteFail(w)
  \/ Reply(w)

Next ==
  \/ \E w \in Workers :
       \/ \E i \in Instances, r \in Request : Receive(w, i, r)
       \/ Step(w)
  \/ \E i \in Instances : Stop(i)

Spec == Init /\ [][Next]_vars

\* Every call out of the instance returns: App Engine bounds each of them.
FairSpec == Spec /\ \A w \in Workers : WF_vars(Step(w))

-----------------------------------------------------------------------------
(* The list of a running instance and the datastore agree on an app id, on *)
(* its owner too, and the list names it once, when nothing is under way    *)
(* with it and neither a failed call, nor overlapping writes, nor a second *)
(* instance, nor requests that raced to start the instance have touched    *)
(* it: then what was answered "Success" survives a restart.  A restart     *)
(* with no other instance in use repairs what such events tore.            *)
ListMatchesStore ==
  \A i \in Instances, a \in Apps \ torn :
    /\ inited[i]
    /\ ~\E w \in Workers : at[w] = i /\ Starting(w)
    /\ ~\E w \in Workers : Writing(w, a)
    => \A x \in Item : x.app = a =>
         list[i][x] = IF store[a] = x.email THEN 1 ELSE 0

(* Only the owner of a shared app id has it deleted from the datastore, be *)
(* it by an unshare request or because its site turned out invalid; what   *)
(* the administrator shared anyone may unshare.                            *)
OnlyOwnerDeletes ==
  [][\A a \in Apps \ torn :
       store[a] # None /\ store'[a] = None =>
         \E w \in Workers :
           /\ Writing(w, a) /\ pc[w] = "delete"
           /\ item[w].email = store[a] \/ store[a] = Admin]_vars

(* A shared app id never changes hands without being unshared in between.  *)
NoTakeover ==
  [][\A a \in Apps \ torn :
       store[a] # None => store'[a] \in {store[a], None}]_vars

\* An instance that lists an app id twice has one owner for it.
OneOwner ==
  \A i \in Instances : \A x, y \in Item :
    x.app = y.app /\ list[i][x] > 0 /\ list[i][y] > 0 => x = y

(* Every request ends, if in the end nobody shares and no list names two   *)
(* owners of an app id: the loop that looks for a valid app id to hand out *)
(* removes the invalid item it looked at.  (With two owners it may look at *)
(* one item, fail to unshare the other, and try again until it happens to  *)
(* pick the other: only chance ends the loop.)                             *)
EveryRequestEnds ==
  /\ <>[]OneOwner
  /\ <>[][\A w \in Workers : pc[w] = "idle" => req'[w].op # "share"]_vars
  => \A w \in Workers : pc[w] # "idle" ~> pc[w] = "idle"
=============================================================================
