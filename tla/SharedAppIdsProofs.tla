------------------------- MODULE SharedAppIdsProofs -------------------------
(* Theorems about the share centre, for every number of instances, workers, *)
(* app ids and e-mail addresses.                                            *)
EXTENDS SharedAppIds, TLAPS

(* A worker that is not idle runs on an instance and has a request; what it *)
(* verifies for RetrieveAppIds, puts or deletes is an item.                 *)
Busy ==
  \A w \in Workers :
    /\ pc[w] = "idle" => at[w] = None
    /\ pc[w] # "idle" => at[w] \in Instances /\ req[w] \in Request
    /\ pc[w] = "verify" /\ req[w].op = "retrieve" => item[w] \in Item
    /\ pc[w] \in {"put", "delete"} => item[w] \in Item

TypeInv == TypeOK /\ Busy

-----------------------------------------------------------------------------
(* The inductive invariant.  Which instances are in use: a worker that has  *)
(* got past the start-up has left its instance initialised, and a list that *)
(* is not empty belongs to an instance that is, or to a start-up.           *)
Started == \A w \in Workers : pc[w] # "idle" /\ ~Starting(w) => inited[at[w]]

Unused == \A i \in Instances : ~Loaded(i) => list[i] = EmptyList

(* Unless all is torn, whoever starts an instance is alone on it.           *)
AloneStarting ==
  torn # Apps =>
    \A w \in Workers : Starting(w) =>
      /\ ~inited[at[w]]
      /\ \A v \in Workers \ {w} : at[v] # at[w]
      /\ pc[w] = "query" => list[at[w]] = EmptyList

(* An app id that is not torn is written by one worker at a time, on the    *)
(* only instance in use.                                                    *)
AloneWriting ==
  \A a \in Apps \ torn : \A w \in Workers : Writing(w, a) =>
    /\ \A v \in Workers \ {w} : ~Writing(v, a)
    /\ \A j \in Instances \ {at[w]} : ~Loaded(j)

(* What the list of an instance says of an app id that is not torn, while   *)
(* nobody writes it, while its rows are loaded, and while it is written.    *)
Stored(x) == store[x.app] = x.email

Agrees(i, a) ==
  \A x \in Item : x.app = a => list[i][x] = IF Stored(x) THEN 1 ELSE 0

Loading(w, a) ==
  \A x \in Item : x.app = a =>
    /\ x \in rows[w] => Stored(x)
    /\ list[at[w]][x] = IF Stored(x) /\ x \notin rows[w] THEN 1 ELSE 0

Putting(w, a) ==
  /\ store[a] = None
  /\ \A x \in Item : x.app = a => list[at[w]][x] = IF x = item[w] THEN 1 ELSE 0

Deleting(w, a) ==
  /\ store[a] \in {item[w].email, Admin}
  /\ \A x \in Item : x.app = a => list[at[w]][x] = 0

Unwritten(a) == \A w \in Workers : ~Writing(w, a)

Faithful ==
  \A a \in Apps \ torn :
    /\ Unwritten(a) => \A i \in Instances : inited[i] => Agrees(i, a)
    /\ \A w \in Workers :
         /\ pc[w] = "load" => Loading(w, a)
         /\ Writing(w, a) /\ pc[w] = "put" => Putting(w, a)
         /\ Writing(w, a) /\ pc[w] = "delete" => Deleting(w, a)

ShareInv ==
  /\ TypeInv
  /\ Started
  /\ Unused
  /\ AloneStarting
  /\ AloneWriting
  /\ Faithful

-----------------------------------------------------------------------------
(* Types.                                                                   *)

(* The initial state has the types.                                         *)
LEMMA TypeInit == Init => TypeInv
BY DEF Init, TypeInv, TypeOK, Busy, EmptyList, Pcs

(* What UnshareAppID changes has the types again.                           *)
LEMMA UnshareTypes ==
  ASSUME TypeInv, NEW w \in Workers, NEW a \in Apps, NEW e \in Emails,
         pc[w] \notin {"idle", "query", "load"}, UnshareAppID(w, a, e),
         UNCHANGED <<inited, store, at, req, rows>>
  PROVE  TypeInv'
<1> USE DEF TypeInv, TypeOK, Busy
<1>1. at[w] \in Instances
  OBVIOUS
<1>2. CASE AfterUnshare(w) /\ UNCHANGED <<list, item, torn>>
  BY <1>2, SharedAppIdsAssumption DEF AfterUnshare, Goto, Pcs
<1>3. CASE \E x \in Listed(at[w], a) : Removable(x, e) /\
             list' = [list EXCEPT ![at[w]][x] = @ - 1] /\ Issue(w, "delete", a, e)
  <2>1. PICK x \in Listed(at[w], a) : list' = [list EXCEPT ![at[w]][x] = @ - 1]
    BY <1>3
  <2>2. x \in Item /\ list[at[w]][x] \in Nat /\ list[at[w]][x] > 0
    BY <1>1 DEF Listed
  <2>3. list' \in [Instances -> [Item -> Nat]]
    BY <1>1, <2>1, <2>2
  <2>4. Issue(w, "delete", a, e)
    BY <1>3
  <2>5. [app |-> a, email |-> e] \in Item
    BY DEF Item
  <2> QED
    BY <2>3, <2>4, <2>5, SharedAppIdsAssumption DEF Issue, Goto, Pcs
<1> QED
  BY <1>2, <1>3 DEF UnshareAppID

(* Every step keeps the types.                                              *)
LEMMA TypeStep == TypeInv /\ [Next]_vars => TypeInv'
<1> SUFFICES ASSUME TypeInv, [Next]_vars PROVE TypeInv'
  OBVIOUS
<1> USE DEF TypeInv, TypeOK, Busy
<1>1. ASSUME NEW w \in Workers, NEW i \in Instances, NEW r \in Request, Receive(w, i, r)
      PROVE  TypeInv'
  BY <1>1, SharedAppIdsAssumption, ZenonT(60) DEF Receive, Goto, Pcs
<1>2. ASSUME NEW w \in Workers, Query(w) PROVE TypeInv'
  <2>1. StoredRows \subseteq Item
    BY DEF StoredRows, Row, Item
  <2> QED
    BY <1>2, <2>1, SharedAppIdsAssumption DEF Query, Goto, Pcs
<1>3. ASSUME NEW w \in Workers, LoadRow(w) PROVE TypeInv'
  <2>1. at[w] \in Instances
    BY <1>3 DEF LoadRow
  <2> QED
    BY <1>3, <2>1 DEF LoadRow
<1>4. ASSUME NEW w \in Workers, LoadDone(w) \/ LoadFail(w) PROVE TypeInv'
  BY <1>4, SharedAppIdsAssumption, ZenonT(60) DEF LoadDone, LoadFail, EndLoad, Starting, Goto, Pcs
<1>5. ASSUME NEW w \in Workers, Index(w) \/ Share(w) \/ Answered(w) PROVE TypeInv'
  BY <1>5, SharedAppIdsAssumption DEF Index, Share, Answered, Goto, Pcs, Request
<1>6. ASSUME NEW w \in Workers, ShareVerified(w) PROVE TypeInv'
  <2> DEFINE x == [app |-> req[w].app, email |-> req[w].email]
  <2>1. at[w] \in Instances /\ x \in Item
    BY <1>6 DEF ShareVerified, Request, Item
  <2>2. list' = list \/ list' = [list EXCEPT ![at[w]][x] = @ + 1]
    BY <1>6 DEF ShareVerified
  <2>3. list' \in [Instances -> [Item -> Nat]]
    BY <2>1, <2>2
  <2>4. req[w].app \in Apps
    BY <2>1 DEF Item
  <2>5. item' \in [Workers -> Item \cup {NoItem}] /\ torn' \subseteq Apps
    BY <1>6, <2>1, <2>4 DEF ShareVerified, Issue
  <2>6. \/ pc' = [pc EXCEPT ![w] = "reply"] /\ item' = item
        \/ pc' = [pc EXCEPT ![w] = "put"] /\ item' = [item EXCEPT ![w] = x]
    BY <1>6 DEF ShareVerified, Issue, Goto
  <2>7. UNCHANGED <<inited, store, at, req, rows>> /\ pc[w] = "verify"
    BY <1>6 DEF ShareVerified
  <2>8. TypeOK'
    BY <2>3, <2>5, <2>6, <2>7 DEF Pcs
  <2> HIDE DEF x
  <2> QED
    BY <2>1, <2>6, <2>7, <2>8
<1>7. ASSUME NEW w \in Workers, Unshare(w) PROVE TypeInv'
  BY <1>7, UnshareTypes DEF Unshare, Request
<1>8. ASSUME NEW w \in Workers, Retrieve(w) PROVE TypeInv'
  <2>1. CASE Goto(w, "reply") /\ UNCHANGED item
    BY <1>8, <2>1, SharedAppIdsAssumption DEF Retrieve, Goto, Pcs
  <2>2. CASE \E x \in Item : item' = [item EXCEPT ![w] = x] /\ Goto(w, "verify")
    BY <1>8, <2>2, SharedAppIdsAssumption DEF Retrieve, Goto, Pcs
  <2> QED
    BY <1>8, <2>1, <2>2 DEF Retrieve
<1>9. ASSUME NEW w \in Workers, SiteInvalid(w) PROVE TypeInv'
  <2>1. CASE req[w].op = "share"
    BY <1>9, <2>1, SharedAppIdsAssumption DEF SiteInvalid, Goto, Pcs
  <2>2. CASE req[w].op = "retrieve"
    <3>1. item[w].app \in Apps /\ item[w].email \in Emails
      BY <1>9, <2>2 DEF SiteInvalid, Item
    <3> QED
      BY <1>9, <2>2, <3>1, UnshareTypes DEF SiteInvalid
  <2> QED
    BY <1>9, <2>1, <2>2 DEF SiteInvalid
<1>10. ASSUME NEW w \in Workers, WriteOk(w) \/ WriteFail(w) PROVE TypeInv'
  <2>1. item[w].app \in Apps /\ item[w].email \in Emails /\ at[w] \in Instances
    BY <1>10 DEF WriteOk, WriteFail, Item
  <2>2. Written(w) \in [Apps -> Emails \cup {None}]
    BY <2>1 DEF Written, Removed
  <2>3. Goto(w, "reply") \/ Goto(w, "serve")
    BY <1>10 DEF WriteOk, WriteFail, Continue, AfterUnshare
  <2> QED
    BY <1>10, <2>1, <2>2, <2>3, SharedAppIdsAssumption DEF WriteOk, WriteFail, Goto, Pcs
<1>11. ASSUME NEW w \in Workers, Reply(w) PROVE TypeInv'
  BY <1>11, SharedAppIdsAssumption DEF Reply, Goto, Pcs
<1>12. ASSUME NEW i \in Instances, Stop(i) PROVE TypeInv'
  <2>1. list' \in [Instances -> [Item -> Nat]] /\ inited' \in [Instances -> BOOLEAN]
    BY <1>12 DEF Stop, EmptyList
  <2> QED
    BY <1>12, <2>1, SharedAppIdsAssumption DEF Stop, Pcs
<1>13. CASE UNCHANGED vars
  BY <1>13 DEF vars
<1> QED
  BY <1>1, <1>2, <1>3, <1>4, <1>5, <1>6, <1>7, <1>8, <1>9, <1>10, <1>11, <1>12, <1>13
  DEF Next, Step

(* Every variable of the share centre keeps to its type.                    *)
THEOREM TypeCorrect == Spec => []TypeOK
<1>1. Spec => []TypeInv
  BY TypeInit, TypeStep, PTL DEF Spec
<1>2. TypeInv => TypeOK
  BY DEF TypeInv
<1> QED
  BY <1>1, <1>2, PTL

-----------------------------------------------------------------------------
(* The invariant.                                                           *)

(* It holds at first: no instance is in use and nobody writes.              *)
LEMMA ShareInit == Init => ShareInv
<1> SUFFICES ASSUME Init PROVE ShareInv
  OBVIOUS
<1>1. TypeInv
  BY TypeInit
<1>2. \A w \in Workers : pc[w] = "idle"
  BY DEF Init
<1>3. Started /\ AloneStarting /\ AloneWriting
  BY <1>2 DEF Started, AloneStarting, AloneWriting, Starting, Writing
<1>4. Unused
  BY DEF Unused, Init
<1>5. Faithful
  BY <1>2 DEF Faithful, Init, Writing
<1> QED
  BY <1>1, <1>3, <1>4, <1>5 DEF ShareInv

(* Nobody starts an instance while an app id that is not torn is written.   *)
LEMMA NoStartBeside ==
  ASSUME ShareInv, NEW a \in Apps \ torn, NEW v \in Workers, Writing(v, a),
         NEW w \in Workers, Starting(w)
  PROVE  FALSE
<1>1. torn # Apps /\ v # w
  BY DEF Starting, Writing
<1>2. at[w] \in Instances
  BY DEF ShareInv, TypeInv, Busy, Starting
<1>3. Loaded(at[w])
  BY DEF Loaded
<1>4. at[w] = at[v]
  BY <1>2, <1>3 DEF ShareInv, AloneWriting
<1> QED
  BY <1>1, <1>4 DEF ShareInv, AloneStarting

(* A step of one request that neither starts an instance, nor changes the   *)
(* list, nor writes keeps the invariant.                                    *)
Calm == {"idle", "serve", "verify", "reply"}

(* A step that leaves list, store and the writes under way.                  *)
LEMMA CalmStep ==
  ASSUME ShareInv, TypeInv', NEW w \in Workers, pc[w] \in Calm, pc'[w] \in Calm,
         \A v \in Workers \ {w} : pc'[v] = pc[v] /\ at'[v] = at[v] /\ item'[v] = item[v],
         pc'[w] # "idle" => inited[at'[w]],
         UNCHANGED <<inited, list, store, rows, torn>>
  PROVE  ShareInv'
<1>1. \A v \in Workers : Starting(v)' = Starting(v)
  BY DEF Starting, Calm
<1>2. \A v \in Workers, a \in Apps : Writing(v, a)' = Writing(v, a)
  BY DEF Writing, Calm
<1>3. \A v \in Workers : Starting(v) => v # w
  BY DEF Starting, Calm
<1>4. \A v \in Workers, a \in Apps : Writing(v, a) => v # w
  BY DEF Writing, Calm
<1>5. \A i \in Instances : Loaded(i)' = Loaded(i)
  BY <1>1, <1>3 DEF Loaded
<1>6. Started'
  BY <1>1 DEF ShareInv, Started
<1>7. Unused'
  BY <1>5 DEF ShareInv, Unused
<1>8. AloneStarting'
  <2> SUFFICES ASSUME torn # Apps, NEW v \in Workers, Starting(v)'
               PROVE  /\ ~inited[at[v]]
                      /\ \A u \in Workers \ {v} : at'[u] # at[v]
                      /\ pc[v] = "query" => list[at[v]] = EmptyList
    BY <1>1, <1>3 DEF AloneStarting
  <2>1. /\ ~inited[at[v]] /\ at[v] \in Instances
        /\ \A u \in Workers \ {v} : at[u] # at[v]
        /\ pc[v] = "query" => list[at[v]] = EmptyList
    BY <1>1 DEF ShareInv, AloneStarting, TypeInv, Busy, Starting
  <2>2. at'[w] # at[v]
    BY <2>1, SharedAppIdsAssumption DEF TypeInv, Busy
  <2> QED
    BY <2>1, <2>2
<1>9. AloneWriting'
  BY <1>2, <1>4, <1>5 DEF ShareInv, AloneWriting
<1>10. Faithful'
  <2> SUFFICES ASSUME NEW a \in Apps \ torn
               PROVE  /\ Unwritten(a)' => \A i \in Instances : inited[i] => Agrees(i, a)'
                      /\ \A v \in Workers :
                           /\ pc'[v] = "load" => Loading(v, a)'
                           /\ Writing(v, a)' /\ pc'[v] = "put" => Putting(v, a)'
                           /\ Writing(v, a)' /\ pc'[v] = "delete" => Deleting(v, a)'
    BY DEF Faithful
  <2>1. Unwritten(a)' = Unwritten(a)
    BY <1>2 DEF Unwritten
  <2>2. \A i \in Instances : Agrees(i, a)' = Agrees(i, a)
    BY DEF Agrees, Stored
  <2>3. \A v \in Workers \ {w} : Loading(v, a)' = Loading(v, a)
    BY DEF Loading, Stored
  <2>4. \A v \in Workers \ {w} :
          /\ pc'[v] = pc[v]
          /\ Putting(v, a)' = Putting(v, a)
          /\ Deleting(v, a)' = Deleting(v, a)
    BY DEF Putting, Deleting
  <2>5. pc'[w] \notin {"load", "put", "delete"}
    BY DEF Calm
  <2> QED
    BY <1>2, <2>1, <2>2, <2>3, <2>4, <2>5 DEF ShareInv, Faithful
<1> QED
  BY <1>6, <1>7, <1>8, <1>9, <1>10 DEF ShareInv

(* A change of the list by a request past the start-up, with the call that  *)
(* writes it through.                                                       *)
LEMMA IssueStep ==
  ASSUME ShareInv, TypeInv', NEW w \in Workers, pc[w] \in {"serve", "verify"},
         NEW call \in {"put", "delete"}, NEW a \in Apps, NEW e \in Emails,
         NEW x \in Item, x.app = a, NEW n \in Nat,
         Issue(w, call, a, e), list' = [list EXCEPT ![at[w]][x] = n],
         Agrees(at[w], a) /\ call = "put" => Putting(w, a)',
         Agrees(at[w], a) /\ call = "delete" => Deleting(w, a)',
         UNCHANGED <<inited, store, at, req, rows>>
  PROVE  ShareInv'
<1>1. pc' = [pc EXCEPT ![w] = call] /\ item' = [item EXCEPT ![w] = [app |-> a, email |-> e]]
  BY DEF Issue, Goto
<1>2. /\ pc \in [Workers -> Pcs] /\ item \in [Workers -> Item \cup {NoItem}]
      /\ list \in [Instances -> [Item -> Nat]]
  BY DEF ShareInv, TypeInv, TypeOK
<1>3. torn \subseteq torn' /\ torn' \subseteq Apps /\ torn' \subseteq torn \cup {a}
  BY DEF Issue, ShareInv, TypeInv, TypeOK
<1>4. a \notin torn' => ~Overlap(w, a)
  BY DEF Issue
<1>5. at[w] \in Instances /\ inited[at[w]]
  BY DEF ShareInv, TypeInv, Busy, Started, Starting
<1>6. \A v \in Workers : Starting(v)' = Starting(v)
  BY <1>1, <1>2 DEF Starting
<1>7. \A v \in Workers, b \in Apps : Writing(v, b)' = IF v = w THEN b = a ELSE Writing(v, b)
  BY <1>1, <1>2 DEF Writing
<1>8. \A b \in Apps : ~Writing(w, b)
  BY DEF Writing
<1>9. \A i \in Instances : Loaded(i)' = Loaded(i)
  BY <1>6 DEF Loaded
<1>10. ~Starting(w) /\ Loaded(at[w])
  BY <1>5 DEF Starting, Loaded
<1>11. Started'
  BY <1>5, <1>6, <1>1, <1>2 DEF ShareInv, Started
<1>12. Unused'
  <2> SUFFICES ASSUME NEW i \in Instances, ~Loaded(i) PROVE list'[i] = EmptyList
    BY <1>9 DEF Unused
  <2> QED
    BY <1>10, <1>2 DEF ShareInv, Unused
<1>13. AloneStarting'
  <2> SUFFICES ASSUME torn' # Apps, NEW v \in Workers, Starting(v)
               PROVE  /\ ~inited[at[v]]
                      /\ \A u \in Workers \ {v} : at[u] # at[v]
                      /\ pc'[v] = "query" => list'[at[v]] = EmptyList
    BY <1>6 DEF AloneStarting
  <2>1. torn # Apps /\ v # w
    BY <1>3, <1>10
  <2>2. /\ ~inited[at[v]]
        /\ \A u \in Workers \ {v} : at[u] # at[v]
        /\ pc[v] = "query" => list[at[v]] = EmptyList
    BY <2>1 DEF ShareInv, AloneStarting
  <2>3. at[v] \in Instances /\ at[v] # at[w]
    BY <2>1, <2>2 DEF ShareInv, TypeInv, Busy, Starting
  <2> QED
    BY <1>1, <1>2, <2>1, <2>2, <2>3
<1>14. AloneWriting'
  <2> SUFFICES ASSUME NEW b \in Apps \ torn', NEW v \in Workers, Writing(v, b)'
               PROVE  /\ \A u \in Workers \ {v} : ~Writing(u, b)'
                      /\ \A j \in Instances \ {at[v]} : ~Loaded(j)
    BY <1>9 DEF AloneWriting
  <2>1. CASE b = a
    <3>1. ~Overlap(w, a)
      BY <1>4, <2>1
    <3>2. v = w
      BY <1>7, <2>1, <3>1 DEF Overlap
    <3> QED
      BY <1>7, <2>1, <3>1, <3>2 DEF Overlap
  <2>2. CASE b # a
    BY <1>3, <1>7, <2>2 DEF ShareInv, AloneWriting
  <2> QED
    BY <2>1, <2>2
<1>15. Faithful'
  <2> SUFFICES ASSUME NEW b \in Apps \ torn'
               PROVE  /\ Unwritten(b)' => \A i \in Instances : inited[i] => Agrees(i, b)'
                      /\ \A v \in Workers :
                           /\ pc'[v] = "load" => Loading(v, b)'
                           /\ Writing(v, b)' /\ pc'[v] = "put" => Putting(v, b)'
                           /\ Writing(v, b)' /\ pc'[v] = "delete" => Deleting(v, b)'
    BY DEF Faithful
  <2>1. CASE b = a
    <3>1. ~Overlap(w, a) /\ a \notin torn
      BY <1>3, <1>4, <2>1
    <3>2. Unwritten(a)
      BY <1>8, <3>1 DEF Unwritten, Overlap
    <3>3. Agrees(at[w], a)
      BY <1>5, <3>1, <3>2 DEF ShareInv, Faithful
    <3>4. ~Unwritten(a)'
      BY <1>7 DEF Unwritten
    <3>5. \A v \in Workers : Writing(v, a)' => v = w /\ pc'[v] = call
      BY <1>1, <1>2, <1>7, <3>1 DEF Overlap
    <3>6. \A v \in Workers : ~Starting(v)
      <4> SUFFICES ASSUME NEW v \in Workers, Starting(v) PROVE FALSE
        OBVIOUS
      <4>1. at[v] \in Instances /\ Loaded(at[v])
        BY DEF ShareInv, TypeInv, Busy, Starting, Loaded
      <4>2. at[v] = at[w]
        BY <3>1, <4>1 DEF Overlap
      <4> QED
        BY <1>10, <3>1, <4>2 DEF ShareInv, AloneStarting
    <3>7. \A v \in Workers : pc'[v] # "load"
      BY <1>6, <3>6 DEF Starting
    <3> QED
      BY <2>1, <3>3, <3>4, <3>5, <3>7
  <2>2. CASE b # a
    <3>1. \A i \in Instances, y \in Item : y.app = b => list'[i][y] = list[i][y]
      BY <1>2, <1>5, <2>2
    <3>2. b \in Apps \ torn
      BY <1>3
    <3>3. Unwritten(b)' = Unwritten(b)
      BY <1>7, <1>8, <2>2 DEF Unwritten
    <3>4. \A i \in Instances : Agrees(i, b)' = Agrees(i, b)
      BY <3>1 DEF Agrees, Stored
    <3>5. \A v \in Workers : Writing(v, b)' <=> Writing(v, b)
      BY <1>7, <1>8, <2>2
    <3>6. \A v \in Workers \ {w} : pc'[v] = pc[v] /\ item'[v] = item[v]
      BY <1>1, <1>2
    <3>7. \A v \in Workers : pc[v] # "idle" => at[v] \in Instances
      BY DEF ShareInv, TypeInv, Busy
    <3>8. \A v \in Workers \ {w} : at[v] \in Instances =>
            /\ Loading(v, b)' = Loading(v, b)
            /\ Putting(v, b)' = Putting(v, b)
            /\ Deleting(v, b)' = Deleting(v, b)
      BY <3>1, <3>6 DEF Loading, Putting, Deleting, Stored
    <3>9. ~Writing(w, b) /\ pc'[w] # "load"
      BY <1>1, <1>2, <1>8
    <3>10. Unwritten(b) => \A i \in Instances : inited[i] => Agrees(i, b)
      BY <3>2 DEF ShareInv, Faithful
    <3>11. \A v \in Workers :
             /\ pc[v] = "load" => Loading(v, b)
             /\ Writing(v, b) /\ pc[v] = "put" => Putting(v, b)
             /\ Writing(v, b) /\ pc[v] = "delete" => Deleting(v, b)
      BY <3>2 DEF ShareInv, Faithful
    <3>12. \A v \in Workers :
             /\ pc'[v] = "load" => Loading(v, b)'
             /\ Writing(v, b)' /\ pc'[v] = "put" => Putting(v, b)'
             /\ Writing(v, b)' /\ pc'[v] = "delete" => Deleting(v, b)'
      BY <3>5, <3>6, <3>7, <3>8, <3>9, <3>11
    <3> QED
      BY <3>3, <3>4, <3>10, <3>12
  <2> QED
    BY <2>1, <2>2
<1> QED
  BY <1>11, <1>12, <1>13, <1>14, <1>15 DEF ShareInv

(* Where every app id is torn only the use of the instances is left to say. *)
LEMMA AllTorn ==
  ASSUME TypeInv', torn' = Apps, Started', Unused'
  PROVE  ShareInv'
BY DEF ShareInv, AloneStarting, AloneWriting, Faithful

(* A request that finds its instance not started: it starts it, or goes on  *)
(* with the rows that another one has loaded so far.                        *)
LEMMA ReceiveStep ==
  ASSUME ShareInv, TypeInv', NEW w \in Workers, NEW i \in Instances, NEW r \in Request,
         Receive(w, i, r)
  PROVE  ShareInv'
<1>1. /\ pc[w] = "idle" /\ at' = [at EXCEPT ![w] = i]
      /\ UNCHANGED <<list, store, item, rows>>
  BY DEF Receive
<1>2. pc \in [Workers -> Pcs] /\ at \in [Workers -> Instances \cup {None}]
  BY DEF ShareInv, TypeInv, TypeOK
<1>3. inited \in [Instances -> BOOLEAN]
  BY DEF ShareInv, TypeInv, TypeOK
<1>4. CASE inited[i] /\ Goto(w, "serve") /\ UNCHANGED <<inited, torn>>
  BY <1>1, <1>2, <1>4, CalmStep DEF Calm, Goto
<1>5. CASE /\ ~inited[i] /\ list[i] = EmptyList /\ Goto(w, "query")
           /\ torn' = IF Loaded(i) THEN Apps
                      ELSE torn \cup {a \in Apps : \E v \in Workers : Writing(v, a)}
           /\ UNCHANGED inited
  <2>1. pc' = [pc EXCEPT ![w] = "query"]
    BY <1>5 DEF Goto
  <2>2. \A v \in Workers : Starting(v)' <=> Starting(v) \/ v = w
    BY <1>2, <2>1 DEF Starting
  <2>3. \A v \in Workers, a \in Apps : Writing(v, a)' <=> Writing(v, a)
    BY <1>1, <1>2, <2>1 DEF Writing
  <2>4. ~Starting(w)
    BY <1>1 DEF Starting
  <2>5. \A j \in Instances : Loaded(j) => Loaded(j)'
    BY <1>1, <1>2, <1>5, <2>2, <2>4 DEF Loaded
  <2>6. Started'
    BY <1>1, <1>2, <1>5, <2>1, <2>2 DEF ShareInv, Started
  <2>7. Unused'
    BY <1>1, <2>5 DEF ShareInv, Unused
  <2>8. CASE Loaded(i)
    BY <1>5, <2>6, <2>7, <2>8, AllTorn
  <2>9. CASE ~Loaded(i)
    <3>1. torn' = torn \cup {a \in Apps : \E v \in Workers : Writing(v, a)}
      BY <1>5, <2>9
    <3>2. \A a \in Apps \ torn' : a \notin torn /\ Unwritten(a)
      BY <3>1 DEF Unwritten
    <3>3. torn' # Apps => torn # Apps
      BY <3>1 DEF ShareInv, TypeInv, TypeOK
    <3>4. \A v \in Workers : at[v] # i
      BY <2>9, SharedAppIdsAssumption DEF Loaded, ShareInv, Started, TypeInv, Busy
    <3>5. AloneStarting'
      <4> SUFFICES ASSUME torn' # Apps, NEW v \in Workers, Starting(v)'
                   PROVE  /\ ~inited[at'[v]]
                          /\ \A u \in Workers \ {v} : at'[u] # at'[v]
                          /\ pc'[v] = "query" => list[at'[v]] = EmptyList
        BY <1>1, <1>5 DEF AloneStarting
      <4>1. CASE v = w
        BY <1>1, <1>2, <1>5, <3>4, <4>1
      <4>2. CASE v # w
        <5>1. /\ ~inited[at[v]]
              /\ \A u \in Workers \ {v} : at[u] # at[v]
              /\ pc[v] = "query" => list[at[v]] = EmptyList
          BY <2>2, <3>3, <4>2 DEF ShareInv, AloneStarting
        <5> QED
          BY <1>1, <1>2, <2>1, <3>4, <4>2, <5>1
      <4> QED
        BY <4>1, <4>2
    <3>6. AloneWriting'
      BY <2>3, <3>2 DEF AloneWriting, Unwritten
    <3>7. Faithful'
      <4> SUFFICES ASSUME NEW a \in Apps \ torn'
                   PROVE  /\ \A j \in Instances : inited[j] => Agrees(j, a)'
                          /\ \A v \in Workers :
                               ~Writing(v, a)' /\ (pc'[v] = "load" => Loading(v, a)')
        BY <1>5 DEF Faithful
      <4>1. \A j \in Instances : inited[j] => Agrees(j, a)
        BY <3>2 DEF ShareInv, Faithful
      <4>2. \A j \in Instances : Agrees(j, a)' <=> Agrees(j, a)
        BY <1>1 DEF Agrees, Stored
      <4>3. ASSUME NEW v \in Workers, pc'[v] = "load" PROVE Loading(v, a)'
        <5>1. v # w /\ pc[v] = "load" /\ at'[v] = at[v]
          BY <1>1, <1>2, <2>1, <4>3
        <5>2. Loading(v, a)
          BY <3>2, <5>1 DEF ShareInv, Faithful
        <5> QED
          BY <1>1, <5>1, <5>2 DEF Loading, Stored
      <4> QED
        BY <2>3, <3>2, <4>1, <4>2, <4>3 DEF Unwritten
    <3> QED
      BY <2>6, <2>7, <3>5, <3>6, <3>7 DEF ShareInv
  <2> QED
    BY <2>8, <2>9
<1>6. CASE /\ inited' = [inited EXCEPT ![i] = TRUE] /\ Goto(w, "serve") /\ torn' = Apps
  <2>1. Started'
    BY <1>1, <1>2, <1>3, <1>6 DEF ShareInv, TypeInv, Busy, Started, Starting, Goto
  <2>2. Unused'
    <3> SUFFICES ASSUME NEW j \in Instances, ~Loaded(j)' PROVE list[j] = EmptyList
      BY <1>1 DEF Unused
    <3>1. ~inited[j] /\ \A v \in Workers : ~(at[v] = j /\ Starting(v))
      BY <1>1, <1>2, <1>3, <1>6 DEF Loaded, Starting, Goto
    <3> QED
      BY <3>1 DEF ShareInv, Unused, Loaded
  <2> QED
    BY <1>6, <2>1, <2>2, AllTorn
<1> QED
  BY <1>4, <1>5, <1>6 DEF Receive

(* The query of a start-up.                                                 *)
LEMMA QueryStep ==
  ASSUME ShareInv, TypeInv', NEW w \in Workers, Query(w)
  PROVE  ShareInv'
<1>1. /\ pc[w] = "query" /\ pc' = [pc EXCEPT ![w] = "load"]
      /\ rows' = [rows EXCEPT ![w] = StoredRows]
      /\ UNCHANGED <<inited, list, store, at, req, item, torn>>
  BY DEF Query, Goto
<1>2. pc \in [Workers -> Pcs] /\ rows \in [Workers -> SUBSET Item]
  BY DEF ShareInv, TypeInv, TypeOK
<1>3. \A v \in Workers : Starting(v)' <=> Starting(v)
  BY <1>1, <1>2 DEF Starting
<1>4. \A v \in Workers, a \in Apps : Writing(v, a)' <=> Writing(v, a)
  BY <1>1, <1>2 DEF Writing
<1>5. \A j \in Instances : Loaded(j)' <=> Loaded(j)
  BY <1>1, <1>3 DEF Loaded
<1>6. Started'
  BY <1>1, <1>2, <1>3 DEF ShareInv, Started
<1>7. Unused'
  BY <1>1, <1>5 DEF ShareInv, Unused
<1>8. AloneStarting'
  BY <1>1, <1>2, <1>3 DEF ShareInv, AloneStarting
<1>9. AloneWriting'
  BY <1>1, <1>4, <1>5 DEF ShareInv, AloneWriting
<1>10. Faithful'
  <2> SUFFICES ASSUME NEW a \in Apps \ torn
               PROVE  /\ \A i \in Instances : inited[i] => Agrees(i, a)'
                      /\ \A v \in Workers :
                           ~Writing(v, a)' /\ (pc'[v] = "load" => Loading(v, a)')
    BY <1>1 DEF Faithful
  <2>1. Starting(w)
    BY <1>1 DEF Starting
  <2>2. Unwritten(a)
    BY <2>1, NoStartBeside DEF Unwritten
  <2>3. \A i \in Instances : inited[i] => Agrees(i, a)
    BY <2>2 DEF ShareInv, Faithful
  <2>4. \A i \in Instances : Agrees(i, a)' <=> Agrees(i, a)
    BY <1>1 DEF Agrees, Stored
  <2>5. ASSUME NEW v \in Workers, pc'[v] = "load" PROVE Loading(v, a)'
    <3>1. CASE v = w
      <4>1. list[at[w]] = EmptyList
        BY <1>1, <2>1 DEF ShareInv, AloneStarting
      <4>2. rows'[w] = StoredRows
        BY <1>1, <1>2
      <4>3. \A x \in Item : x \in StoredRows <=> Stored(x)
        BY SharedAppIdsAssumption DEF StoredRows, Row, Stored, Item
      <4> QED
        BY <1>1, <3>1, <4>1, <4>2, <4>3 DEF Loading, Stored, EmptyList
    <3>2. CASE v # w
      <4>1. Loading(v, a)
        BY <1>1, <1>2, <2>5, <3>2 DEF ShareInv, Faithful
      <4> QED
        BY <1>1, <1>2, <3>2, <4>1 DEF Loading, Stored
    <3> QED
      BY <3>1, <3>2
  <2> QED
    BY <1>4, <2>2, <2>3, <2>4, <2>5 DEF Unwritten
<1> QED
  BY <1>6, <1>7, <1>8, <1>9, <1>10 DEF ShareInv

(* A row is appended to the list.                                           *)
LEMMA LoadRowStep ==
  ASSUME ShareInv, TypeInv', NEW w \in Workers, LoadRow(w)
  PROVE  ShareInv'
<1>1. PICK x \in rows[w] :
        /\ list' = [list EXCEPT ![at[w]][x] = @ + 1]
        /\ rows' = [rows EXCEPT ![w] = @ \ {x}]
  BY DEF LoadRow
<1>2. pc[w] = "load" /\ Starting(w) /\ UNCHANGED <<inited, store, pc, at, req, item, torn>>
  BY DEF LoadRow, Starting
<1>3. /\ rows \in [Workers -> SUBSET Item] /\ list \in [Instances -> [Item -> Nat]]
      /\ x \in Item /\ at[w] \in Instances
  BY <1>1, <1>2 DEF ShareInv, TypeInv, TypeOK, Busy
<1>4. \A v \in Workers : Starting(v)' <=> Starting(v)
  BY <1>2 DEF Starting
<1>5. \A v \in Workers, a \in Apps : Writing(v, a)' <=> Writing(v, a)
  BY <1>2 DEF Writing
<1>6. \A j \in Instances : Loaded(j)' <=> Loaded(j)
  BY <1>2, <1>4 DEF Loaded
<1>7. Started'
  BY <1>2, <1>4 DEF ShareInv, Started
<1>8. Unused'
  <2>1. Loaded(at[w])
    BY <1>2 DEF Loaded
  <2>2. \A i \in Instances : i # at[w] => list'[i] = list[i]
    BY <1>1, <1>3
  <2> QED
    BY <1>6, <2>1, <2>2 DEF ShareInv, Unused
<1>9. AloneStarting'
  <2> SUFFICES ASSUME torn # Apps, NEW v \in Workers, Starting(v)
               PROVE  /\ ~inited[at[v]]
                      /\ \A u \in Workers \ {v} : at[u] # at[v]
                      /\ pc[v] = "query" => list'[at[v]] = EmptyList
    BY <1>2, <1>4 DEF AloneStarting
  <2>1. /\ ~inited[at[v]]
        /\ \A u \in Workers \ {v} : at[u] # at[v]
        /\ pc[v] = "query" => list[at[v]] = EmptyList
    BY DEF ShareInv, AloneStarting
  <2>2. pc[v] = "query" => list'[at[v]] = list[at[v]]
    <3> SUFFICES ASSUME pc[v] = "query" PROVE list'[at[v]] = list[at[v]]
      OBVIOUS
    <3>1. v # w
      BY <1>2
    <3>2. at[v] \in Instances /\ at[v] # at[w]
      BY <2>1, <3>1 DEF ShareInv, TypeInv, Busy
    <3> QED
      BY <1>1, <1>3, <3>2
  <2> QED
    BY <2>1, <2>2
<1>10. AloneWriting'
  BY <1>2, <1>5, <1>6 DEF ShareInv, AloneWriting
<1>11. Faithful'
  <2> SUFFICES ASSUME NEW a \in Apps \ torn
               PROVE  /\ \A i \in Instances : inited[i] => Agrees(i, a)'
                      /\ \A v \in Workers :
                           ~Writing(v, a)' /\ (pc[v] = "load" => Loading(v, a)')
    BY <1>2 DEF Faithful
  <2>1. Unwritten(a)
    BY <1>2, NoStartBeside DEF Unwritten
  <2>2. /\ ~inited[at[w]]
        /\ \A v \in Workers \ {w} : at[v] # at[w]
    BY <1>2 DEF ShareInv, AloneStarting
  <2>3. ASSUME NEW i \in Instances, inited[i] PROVE Agrees(i, a)'
    <3>1. Agrees(i, a)
      BY <2>1, <2>3 DEF ShareInv, Faithful
    <3>2. list'[i] = list[i]
      BY <1>1, <1>3, <2>2, <2>3
    <3> QED
      BY <1>2, <3>1, <3>2 DEF Agrees, Stored
  <2>4. ASSUME NEW v \in Workers, pc[v] = "load" PROVE Loading(v, a)'
    <3>1. Loading(v, a)
      BY <2>4 DEF ShareInv, Faithful
    <3>2. CASE v = w
      <4>1. \A y \in Item : list'[at[w]][y] = IF y = x THEN list[at[w]][x] + 1 ELSE list[at[w]][y]
        BY <1>1, <1>3
      <4>2. rows'[w] = rows[w] \ {x}
        BY <1>1, <1>3
      <4> QED
        BY <1>1, <1>2, <3>1, <3>2, <4>1, <4>2 DEF Loading, Stored
    <3>3. CASE v # w
      <4>1. list'[at[v]] = list[at[v]] /\ rows'[v] = rows[v]
        BY <1>1, <1>3, <2>2, <3>3, <2>4 DEF ShareInv, TypeInv, Busy
      <4> QED
        BY <1>2, <3>1, <4>1 DEF Loading, Stored
    <3> QED
      BY <3>2, <3>3
  <2> QED
    BY <1>5, <2>1, <2>3, <2>4 DEF Unwritten
<1> QED
  BY <1>7, <1>8, <1>9, <1>10, <1>11 DEF ShareInv

(* The start-up ends, after the last row or with an error.                  *)
LEMMA EndLoadStep ==
  ASSUME ShareInv, TypeInv', NEW w \in Workers, LoadDone(w) \/ LoadFail(w)
  PROVE  ShareInv'
<1>1. /\ inited' = [inited EXCEPT ![at[w]] = TRUE]
      /\ rows' = [rows EXCEPT ![w] = {}]
      /\ pc' = [pc EXCEPT ![w] = "serve"]
      /\ UNCHANGED <<list, store, at, req, item>>
  BY DEF LoadDone, LoadFail, EndLoad, Goto
<1>2. Starting(w)
  BY DEF LoadDone, LoadFail, Starting
<1>3. /\ inited \in [Instances -> BOOLEAN] /\ pc \in [Workers -> Pcs]
      /\ rows \in [Workers -> SUBSET Item] /\ at[w] \in Instances
  BY <1>2 DEF ShareInv, TypeInv, TypeOK, Busy, Starting
<1>4. \A v \in Workers : Starting(v)' <=> Starting(v) /\ v # w
  BY <1>1, <1>3 DEF Starting
<1>5. \A v \in Workers, a \in Apps : Writing(v, a)' <=> Writing(v, a)
  BY <1>1, <1>2, <1>3 DEF Writing, Starting
<1>6. \A j \in Instances : Loaded(j)' <=> Loaded(j)
  BY <1>1, <1>2, <1>3, <1>4 DEF Loaded
<1>7. Started'
  <2> SUFFICES ASSUME NEW v \in Workers, pc'[v] # "idle", ~Starting(v)'
               PROVE  inited'[at[v]]
    BY <1>1 DEF Started
  <2>1. at[v] \in Instances
    BY <1>1, <1>3 DEF ShareInv, TypeInv, Busy
  <2> QED
    BY <1>1, <1>3, <1>4, <2>1 DEF ShareInv, Started
<1>8. Unused'
  BY <1>1, <1>6 DEF ShareInv, Unused
<1>9. CASE LoadFail(w)
  BY <1>7, <1>8, <1>9, AllTorn DEF LoadFail
<1>10. CASE LoadDone(w)
  <2>1. pc[w] = "load" /\ rows[w] = {} /\ torn' = torn
    BY <1>10 DEF LoadDone
  <2>2. AloneStarting'
    <3> SUFFICES ASSUME torn # Apps, NEW v \in Workers, Starting(v), v # w
                 PROVE  /\ ~inited'[at[v]]
                        /\ \A u \in Workers \ {v} : at[u] # at[v]
                        /\ pc'[v] = "query" => list[at[v]] = EmptyList
      BY <1>1, <1>4, <2>1 DEF AloneStarting
    <3>1. /\ ~inited[at[v]]
          /\ \A u \in Workers \ {v} : at[u] # at[v]
          /\ pc[v] = "query" => list[at[v]] = EmptyList
      BY DEF ShareInv, AloneStarting
    <3> QED
      BY <1>1, <1>3, <3>1
  <2>3. AloneWriting'
    BY <1>1, <1>5, <1>6, <2>1 DEF ShareInv, AloneWriting
  <2>4. Faithful'
    <3> SUFFICES ASSUME NEW a \in Apps \ torn
                 PROVE  /\ \A i \in Instances : inited'[i] => Agrees(i, a)'
                        /\ \A v \in Workers :
                             ~Writing(v, a)' /\ (pc'[v] = "load" => Loading(v, a)')
      BY <2>1 DEF Faithful
    <3>1. Unwritten(a)
      BY <1>2, NoStartBeside DEF Unwritten
    <3>2. Loading(w, a)
      BY <2>1 DEF ShareInv, Faithful
    <3>3. Agrees(at[w], a)
      BY <2>1, <3>2 DEF Loading, Agrees
    <3>4. \A i \in Instances : inited'[i] => Agrees(i, a)
      BY <1>1, <1>3, <3>1, <3>3 DEF ShareInv, Faithful
    <3>5. \A i \in Instances : Agrees(i, a)' <=> Agrees(i, a)
      BY <1>1 DEF Agrees, Stored
    <3>6. \A v \in Workers : pc'[v] = "load" => Loading(v, a)
      BY <1>1, <1>3 DEF ShareInv, Faithful
    <3>7. \A v \in Workers : pc'[v] = "load" => v # w
      BY <1>1, <1>3
    <3>8. \A v \in Workers : v # w => (Loading(v, a)' <=> Loading(v, a))
      BY <1>1, <1>3 DEF Loading, Stored
    <3> QED
      BY <1>5, <3>1, <3>4, <3>5, <3>6, <3>7, <3>8 DEF Unwritten
  <2> QED
    BY <1>7, <1>8, <2>2, <2>3, <2>4 DEF ShareInv
<1> QED
  BY <1>9, <1>10

(* A request to share whose site is judged: it is refused, or put in.       *)
LEMMA ShareVerifiedStep ==
  ASSUME ShareInv, TypeInv', NEW w \in Workers, ShareVerified(w)
  PROVE  ShareInv'
<1>1. pc[w] = "verify" /\ req[w].op = "share" /\ UNCHANGED <<inited, store, at, req, rows>>
  BY DEF ShareVerified
<1>2. at[w] \in Instances /\ inited[at[w]] /\ req[w].app \in Apps /\ req[w].email \in Emails
  BY <1>1 DEF ShareInv, TypeInv, Busy, Started, Starting, Request
<1>3. PICK a \in Apps, e \in Emails : a = req[w].app /\ e = req[w].email
  BY <1>2
<1> DEFINE x == [app |-> a, email |-> e]
<1>4. x \in Item /\ x.app = a /\ pc \in [Workers -> Pcs] /\ item \in [Workers -> Item \cup {NoItem}]
  BY DEF Item, ShareInv, TypeInv, TypeOK
<1>5. list[at[w]] \in [Item -> Nat] /\ list \in [Instances -> [Item -> Nat]]
  BY <1>2 DEF ShareInv, TypeInv, TypeOK
<1>6. CASE Goto(w, "reply") /\ UNCHANGED <<list, item, torn>>
  BY <1>1, <1>2, <1>4, <1>6, CalmStep DEF Calm, Goto
<1>7. CASE /\ ~AlreadyShared(at[w], a)
           /\ list' = [list EXCEPT ![at[w]][x] = @ + 1]
           /\ Issue(w, "put", a, e)
  <2> DEFINE n == list[at[w]][x] + 1
  <2>1. n \in Nat /\ list' = [list EXCEPT ![at[w]][x] = n]
    BY <1>4, <1>5, <1>7
  <2>2. item'[w] = x
    BY <1>4, <1>7 DEF Issue
  <2>3. \A y \in Item : y.app = a => list[at[w]][y] = 0
    BY <1>5, <1>7 DEF AlreadyShared, Listed
  <2>4. \A y \in Item : list'[at[w]][y] = IF y = x THEN n ELSE list[at[w]][y]
    BY <1>2, <1>5, <2>1
  <2>5. ASSUME Agrees(at[w], a) PROVE Putting(w, a)'
    <3>1. store[a] \in Emails \cup {None}
      BY DEF ShareInv, TypeInv, TypeOK
    <3>2. \A o \in Emails : [app |-> a, email |-> o] \in Item
      BY DEF Item
    <3>3. ASSUME NEW o \in Emails, store[a] = o PROVE FALSE
      <4> DEFINE y == [app |-> a, email |-> o]
      <4>1. y \in Item /\ y.app = a /\ y.email = o
        BY <3>2
      <4> HIDE DEF y
      <4>2. list[at[w]][y] = 1
        BY <2>5, <3>3, <4>1 DEF Agrees, Stored
      <4> QED
        BY <2>3, <4>1, <4>2
    <3>4. store[a] = None
      BY <3>1, <3>3
    <3>5. \A y \in Item : y.app = a => list'[at[w]][y] = IF y = x THEN 1 ELSE 0
      BY <1>4, <2>3, <2>4
    <3> QED
      BY <1>1, <2>2, <3>4, <3>5 DEF Putting
  <2>6. Issue(w, "put", a, e) /\ pc[w] \in {"serve", "verify"}
    BY <1>1, <1>7
  <2> HIDE DEF n, x
  <2> QED
    BY <1>1, <1>2, <1>4, <2>1, <2>5, <2>6, IssueStep
<1> QED
  BY <1>6, <1>7, <1>3 DEF ShareVerified

(* A removal from the list, on behalf of a request or because a site turned *)
(* out invalid.                                                             *)
LEMMA UnshareStep ==
  ASSUME ShareInv, TypeInv', NEW w \in Workers, pc[w] \in {"serve", "verify"},
         NEW a \in Apps, NEW e \in Emails, UnshareAppID(w, a, e),
         UNCHANGED <<inited, store, at, req, rows>>
  PROVE  ShareInv'
<1>1. at[w] \in Instances /\ inited[at[w]]
  BY DEF ShareInv, TypeInv, Busy, Started, Starting
<1>2. pc \in [Workers -> Pcs] /\ item \in [Workers -> Item \cup {NoItem}]
  BY DEF ShareInv, TypeInv, TypeOK
<1>3. list[at[w]] \in [Item -> Nat] /\ list \in [Instances -> [Item -> Nat]]
  BY <1>1 DEF ShareInv, TypeInv, TypeOK
<1>4. CASE AfterUnshare(w) /\ UNCHANGED <<list, item, torn>>
  BY <1>1, <1>2, <1>4, CalmStep DEF Calm, AfterUnshare, Goto
<1>5. CASE \E x \in Listed(at[w], a) :
             /\ Removable(x, e)
             /\ list' = [list EXCEPT ![at[w]][x] = @ - 1]
             /\ Issue(w, "delete", a, e)
  <2>1. PICK x \in Listed(at[w], a) : Removable(x, e) /\ list' = [list EXCEPT ![at[w]][x] = @ - 1]
    BY <1>5
  <2>2. Issue(w, "delete", a, e)
    BY <1>5
  <2> DEFINE n == list[at[w]][x] - 1
  <2>3. x \in Item /\ x.app = a /\ list[at[w]][x] > 0
    BY DEF Listed
  <2>4. n \in Nat /\ list' = [list EXCEPT ![at[w]][x] = n]
    BY <1>3, <2>1, <2>3
  <2>5. item'[w] = [app |-> a, email |-> e]
    BY <1>2, <2>2 DEF Issue
  <2>6. \A y \in Item : list'[at[w]][y] = IF y = x THEN n ELSE list[at[w]][y]
    BY <1>1, <1>3, <2>4
  <2>7. ASSUME Agrees(at[w], a) PROVE Deleting(w, a)'
    <3>1. store[a] = x.email /\ list[at[w]][x] = 1
      BY <2>3, <2>7 DEF Agrees, Stored
    <3>2. \A y \in Item : y.app = a /\ y # x => y.email # x.email
      BY <2>3 DEF Item
    <3>3. \A y \in Item : y.app = a /\ y # x => list[at[w]][y] = 0
      BY <2>3, <2>7, <3>1, <3>2 DEF Agrees, Stored
    <3>4. \A y \in Item : y.app = a => list'[at[w]][y] = 0
      BY <2>6, <3>1, <3>3
    <3>5. store[a] \in {e, Admin}
      BY <2>1, <3>1 DEF Removable
    <3> QED
      BY <2>5, <3>4, <3>5 DEF Deleting
  <2> HIDE DEF n
  <2> QED
    BY <2>2, <2>3, <2>4, <2>7, IssueStep
<1> QED
  BY <1>4, <1>5 DEF UnshareAppID

(* The datastore's answer to a put or a delete.                             *)
LEMMA WriteStep ==
  ASSUME ShareInv, TypeInv', NEW w \in Workers, WriteOk(w) \/ WriteFail(w)
  PROVE  ShareInv'
<1>1. PICK a \in Apps : a = item[w].app
  BY DEF WriteOk, WriteFail, ShareInv, TypeInv, Busy, Item
<1>2. /\ pc[w] \in {"put", "delete"} /\ Writing(w, a)
      /\ UNCHANGED <<inited, list, at, req, item, rows>>
  BY <1>1 DEF WriteOk, WriteFail, Writing
<1>3. pc' = [pc EXCEPT ![w] = "reply"] \/ pc' = [pc EXCEPT ![w] = "serve"]
  BY DEF WriteOk, WriteFail, Continue, AfterUnshare, Goto
<1>4. /\ pc \in [Workers -> Pcs] /\ store \in [Apps -> Emails \cup {None}]
      /\ item[w] \in Item /\ at[w] \in Instances
  BY <1>2 DEF ShareInv, TypeInv, TypeOK, Busy, Item
<1>5. torn \subseteq torn' /\ torn' \subseteq Apps /\ (WriteFail(w) => a \in torn')
  BY <1>4, <1>1 DEF WriteOk, WriteFail, ShareInv, TypeInv, TypeOK
<1>6. inited[at[w]]
  BY <1>2 DEF ShareInv, Started, Starting
<1>7. \A v \in Workers : Starting(v)' <=> Starting(v)
  BY <1>2, <1>3, <1>4 DEF Starting
<1>8. \A v \in Workers, b \in Apps : Writing(v, b)' <=> Writing(v, b) /\ v # w
  BY <1>2, <1>3, <1>4 DEF Writing
<1>9. \A j \in Instances : Loaded(j)' <=> Loaded(j)
  BY <1>2, <1>7 DEF Loaded
<1>10. Started'
  BY <1>2, <1>3, <1>4, <1>6, <1>7 DEF ShareInv, Started
<1>11. Unused'
  BY <1>2, <1>9 DEF ShareInv, Unused
<1>12. AloneStarting'
  BY <1>2, <1>3, <1>4, <1>5, <1>7 DEF ShareInv, AloneStarting
<1>13. AloneWriting'
  BY <1>2, <1>5, <1>8, <1>9 DEF ShareInv, AloneWriting
<1>14. \A b \in Apps : b # a => store'[b] = store[b]
  BY <1>4, <1>1 DEF WriteOk, WriteFail, Written, Removed
<1>15. pc[w] = "put" /\ WriteOk(w) => store'[a] = item[w].email
  BY <1>4, <1>1 DEF WriteOk, Written
<1>16. pc[w] = "delete" /\ WriteOk(w) => store'[a] = None
  BY <1>4, <1>1 DEF WriteOk, Written, Removed
<1>17. Faithful'
  <2> SUFFICES ASSUME NEW b \in Apps \ torn'
               PROVE  /\ Unwritten(b)' => \A i \in Instances : inited[i] => Agrees(i, b)'
                      /\ \A v \in Workers :
                           /\ pc'[v] = "load" => Loading(v, b)'
                           /\ Writing(v, b)' /\ pc'[v] = "put" => Putting(v, b)'
                           /\ Writing(v, b)' /\ pc'[v] = "delete" => Deleting(v, b)'
    BY <1>2 DEF Faithful
  <2>1. CASE b = a
    <3>1. WriteOk(w) /\ a \notin torn
      BY <1>5, <2>1
    <3>2. /\ \A v \in Workers \ {w} : ~Writing(v, a)
          /\ \A j \in Instances \ {at[w]} : ~Loaded(j)
      BY <1>2, <1>4, <3>1 DEF ShareInv, AloneWriting
    <3>3. \A v \in Workers : ~Writing(v, a)'
      BY <1>4, <1>8, <3>2
    <3>4. \A v \in Workers : pc'[v] # "load"
      BY <1>2, <1>4, <1>7, <3>1, NoStartBeside DEF Starting
    <3>5. \A i \in Instances : inited[i] => i = at[w]
      BY <3>2 DEF Loaded
    <3>6. CASE pc[w] = "put"
      <4>1. store'[a] = item[w].email
        BY <1>15, <3>1, <3>6
      <4>2. \A x \in Item : x.app = a => list[at[w]][x] = IF x = item[w] THEN 1 ELSE 0
        BY <1>2, <1>4, <3>1, <3>6 DEF ShareInv, Faithful, Putting
      <4>3. \A x \in Item : x.app = a => (x = item[w] <=> item[w].email = x.email)
        BY <1>4, <1>1 DEF Item
      <4>4. \A i \in Instances : i = at[w] => Agrees(i, b)'
        BY <2>1, <1>2, <4>1, <4>2, <4>3 DEF Agrees, Stored
      <4> QED
        BY <2>1, <3>3, <3>4, <3>5, <4>4
    <3>7. CASE pc[w] = "delete"
      <4>1. store'[a] = None
        BY <1>16, <3>1, <3>7
      <4>2. \A x \in Item : x.app = a => list[at[w]][x] = 0
        BY <1>2, <1>4, <3>1, <3>7 DEF ShareInv, Faithful, Deleting
      <4>3. \A x \in Item : x.email # None
        BY SharedAppIdsAssumption DEF Item
      <4>4. \A i \in Instances : i = at[w] => Agrees(i, b)'
        BY <2>1, <1>2, <4>1, <4>2, <4>3 DEF Agrees, Stored
      <4> QED
        BY <2>1, <3>3, <3>4, <3>5, <4>4
    <3> QED
      BY <1>2, <3>6, <3>7
  <2>2. CASE b # a
    <3>1. b \in Apps \ torn /\ store'[b] = store[b] /\ ~Writing(w, b)
      BY <1>5, <1>14, <1>1, <2>2 DEF Writing
    <3>2. Unwritten(b)' <=> Unwritten(b)
      BY <1>8, <3>1 DEF Unwritten
    <3>3. \A v \in Workers : Writing(v, b)' <=> Writing(v, b)
      BY <1>8, <3>1
    <3>4. \A v \in Workers \ {w} : pc'[v] = pc[v]
      BY <1>3, <1>4
    <3>5. pc'[w] # "load"
      BY <1>3, <1>4
    <3>6. /\ \A i \in Instances : Agrees(i, b)' <=> Agrees(i, b)
          /\ \A v \in Workers : Loading(v, b)' <=> Loading(v, b)
      BY <1>2, <3>1 DEF Agrees, Loading, Stored
    <3>7. \A v \in Workers :
           /\ Putting(v, b)' <=> Putting(v, b)
           /\ Deleting(v, b)' <=> Deleting(v, b)
      BY <1>2, <3>1 DEF Putting, Deleting
    <3>8. /\ Unwritten(b) => \A i \in Instances : inited[i] => Agrees(i, b)
          /\ \A v \in Workers :
               /\ pc[v] = "load" => Loading(v, b)
               /\ Writing(v, b) /\ pc[v] = "put" => Putting(v, b)
               /\ Writing(v, b) /\ pc[v] = "delete" => Deleting(v, b)
      BY <3>1 DEF ShareInv, Faithful
    <3>9. Unwritten(b)' => \A i \in Instances : inited[i] => Agrees(i, b)'
      BY <3>2, <3>6, <3>8
    <3>10. /\ pc'[w] = "load" => Loading(w, b)'
           /\ Writing(w, b)' /\ pc'[w] = "put" => Putting(w, b)'
           /\ Writing(w, b)' /\ pc'[w] = "delete" => Deleting(w, b)'
      BY <3>1, <3>3, <3>5
    <3>11. ASSUME NEW v \in Workers \ {w}, pc'[v] = "load" PROVE Loading(v, b)'
      BY <3>4, <3>6, <3>8, <3>11
    <3>12. ASSUME NEW v \in Workers \ {w}, Writing(v, b)', pc'[v] = "put"
           PROVE  Putting(v, b)'
      BY <3>3, <3>4, <3>7, <3>8, <3>12
    <3>13. ASSUME NEW v \in Workers \ {w}, Writing(v, b)', pc'[v] = "delete"
           PROVE  Deleting(v, b)'
      BY <3>3, <3>4, <3>7, <3>8, <3>13
    <3> QED
      BY <3>9, <3>10, <3>11, <3>12, <3>13
  <2> QED
    BY <2>1, <2>2
<1> QED
  BY <1>10, <1>11, <1>12, <1>13, <1>17 DEF ShareInv

(* An instance is stopped, with the requests it serves.                     *)
LEMMA StopStep ==
  ASSUME ShareInv, TypeInv', NEW i \in Instances, Stop(i)
  PROVE  ShareInv'
<1> DEFINE InUse == \E j \in Instances \ {i} : inited[j] \/ \E w \in Workers : at[w] = j
<1>1. /\ inited' = [inited EXCEPT ![i] = FALSE]
      /\ list' = [list EXCEPT ![i] = EmptyList]
      /\ torn' = IF InUse THEN torn ELSE {}
      /\ UNCHANGED store
  BY DEF Stop
<1>2. \A w \in Workers : at[w] = i => pc'[w] = "idle" /\ at'[w] = None
  BY DEF Stop
<1>3. \A w \in Workers : at[w] # i =>
        pc'[w] = pc[w] /\ at'[w] = at[w] /\ item'[w] = item[w] /\ rows'[w] = rows[w]
  BY DEF Stop
<1>4. inited \in [Instances -> BOOLEAN] /\ list \in [Instances -> [Item -> Nat]]
  BY DEF ShareInv, TypeInv, TypeOK
<1>5. \A w \in Workers : at[w] \in Instances \cup {None} /\ (pc[w] # "idle" => at[w] \in Instances)
  BY DEF ShareInv, TypeInv, TypeOK, Busy
<1>6. \A w \in Workers : Starting(w)' <=> Starting(w) /\ at[w] # i
  BY <1>2, <1>3 DEF Starting
<1>7. \A w \in Workers, a \in Apps : Writing(w, a)' <=> Writing(w, a) /\ at[w] # i
  BY <1>2, <1>3 DEF Writing
<1>8. \A j \in Instances : Loaded(j)' <=> Loaded(j) /\ j # i
  BY <1>1, <1>2, <1>3, <1>4, <1>6, SharedAppIdsAssumption DEF Loaded
<1>9. Started'
  <2> SUFFICES ASSUME NEW w \in Workers, pc'[w] # "idle", ~Starting(w)'
               PROVE  inited'[at'[w]]
    BY DEF Started
  <2>1. at[w] # i /\ pc[w] # "idle" /\ ~Starting(w) /\ at'[w] = at[w]
    BY <1>2, <1>3, <1>6
  <2> QED
    BY <1>1, <1>4, <1>5, <2>1 DEF ShareInv, Started
<1>10. Unused'
  BY <1>1, <1>4, <1>8 DEF ShareInv, Unused
<1> HIDE DEF InUse
<1>11. CASE InUse
  <2>1. torn' = torn
    BY <1>1, <1>11
  <2>2. AloneStarting'
    <3> SUFFICES ASSUME torn # Apps, NEW w \in Workers, Starting(w), at[w] # i
                 PROVE  /\ ~inited'[at[w]]
                        /\ \A v \in Workers \ {w} : at'[v] # at[w]
                        /\ pc[w] = "query" => list'[at[w]] = EmptyList
      BY <1>3, <1>6, <2>1 DEF AloneStarting
    <3>1. /\ ~inited[at[w]] /\ at[w] \in Instances
          /\ \A v \in Workers \ {w} : at[v] # at[w]
          /\ pc[w] = "query" => list[at[w]] = EmptyList
      BY <1>5 DEF ShareInv, AloneStarting, Starting
    <3> QED
      BY <1>1, <1>2, <1>3, <1>4, <3>1, SharedAppIdsAssumption
  <2>3. AloneWriting'
    BY <1>3, <1>7, <1>8, <2>1 DEF ShareInv, AloneWriting
  <2>4. ASSUME NEW a \in Apps \ torn, NEW w \in Workers, Writing(w, a) PROVE at[w] # i
    <3>1. PICK j \in Instances \ {i} : inited[j] \/ \E v \in Workers : at[v] = j
      BY <1>11 DEF InUse
    <3>2. Loaded(j)
      BY <3>1, SharedAppIdsAssumption DEF Loaded, ShareInv, Started, TypeInv, Busy
    <3>3. at[w] = j
      BY <2>4, <3>1, <3>2 DEF ShareInv, AloneWriting
    <3> QED
      BY <3>1, <3>3
  <2>5. Faithful'
    <3> SUFFICES ASSUME NEW a \in Apps \ torn
                 PROVE  /\ Unwritten(a)' => \A j \in Instances : inited'[j] => Agrees(j, a)'
                        /\ \A w \in Workers :
                             /\ pc'[w] = "load" => Loading(w, a)'
                             /\ Writing(w, a)' /\ pc'[w] = "put" => Putting(w, a)'
                             /\ Writing(w, a)' /\ pc'[w] = "delete" => Deleting(w, a)'
      BY <2>1 DEF Faithful
    <3>1. Unwritten(a)' <=> Unwritten(a)
      BY <1>7, <2>4 DEF Unwritten
    <3>2. ASSUME Unwritten(a), NEW j \in Instances, inited'[j] PROVE Agrees(j, a)'
      <4>1. inited[j] /\ list'[j] = list[j]
        BY <1>1, <1>4, <3>2
      <4>2. Agrees(j, a)
        BY <3>2, <4>1 DEF ShareInv, Faithful
      <4> QED
        BY <1>1, <4>1, <4>2 DEF Agrees, Stored
    <3>3. \A w \in Workers : pc'[w] # "idle" =>
            /\ at'[w] = at[w] /\ list'[at[w]] = list[at[w]]
            /\ pc'[w] = pc[w] /\ item'[w] = item[w] /\ rows'[w] = rows[w]
      BY <1>1, <1>2, <1>3, <1>4, <1>5
    <3>4. ASSUME NEW w \in Workers, pc'[w] = "load" PROVE Loading(w, a)'
      <4>1. Loading(w, a)
        BY <3>3, <3>4 DEF ShareInv, Faithful
      <4> QED
        BY <1>1, <3>3, <3>4, <4>1 DEF Loading, Stored
    <3>5. ASSUME NEW w \in Workers, Writing(w, a)', pc'[w] = "put" PROVE Putting(w, a)'
      <4>1. Putting(w, a)
        BY <1>7, <3>3, <3>5 DEF ShareInv, Faithful
      <4> QED
        BY <1>1, <3>3, <3>5, <4>1 DEF Putting
    <3>6. ASSUME NEW w \in Workers, Writing(w, a)', pc'[w] = "delete" PROVE Deleting(w, a)'
      <4>1. Deleting(w, a)
        BY <1>7, <3>3, <3>6 DEF ShareInv, Faithful
      <4> QED
        BY <1>1, <3>3, <3>6, <4>1 DEF Deleting
    <3> QED
      BY <3>1, <3>2, <3>4, <3>5, <3>6
  <2> QED
    BY <1>9, <1>10, <2>2, <2>3, <2>5 DEF ShareInv
<1>12. CASE ~InUse
  <2>1. \A w \in Workers : pc'[w] = "idle"
    BY <1>2, <1>3, <1>5, <1>12 DEF InUse
  <2>2. \A j \in Instances : ~inited'[j]
    BY <1>1, <1>4, <1>12 DEF InUse
  <2>3. AloneStarting' /\ AloneWriting'
    BY <2>1 DEF AloneStarting, AloneWriting, Starting, Writing
  <2>4. Faithful'
    BY <2>1, <2>2 DEF Faithful, Writing
  <2> QED
    BY <1>9, <1>10, <2>3, <2>4 DEF ShareInv
<1> QED
  BY <1>11, <1>12

(* Every step keeps the invariant.                                          *)
LEMMA ShareStep == ShareInv /\ [Next]_vars => ShareInv'
<1> SUFFICES ASSUME ShareInv, [Next]_vars PROVE ShareInv'
  OBVIOUS
<1>1. TypeInv'
  BY TypeStep DEF ShareInv
<1>2. /\ pc \in [Workers -> Pcs] /\ at \in [Workers -> Instances \cup {None}]
      /\ item \in [Workers -> Item \cup {NoItem}]
  BY DEF ShareInv, TypeInv, TypeOK
<1>3. \A w \in Workers : pc[w] \in {"serve", "verify", "reply"} => inited[at[w]]
  BY DEF ShareInv, Started, Starting
<1>4. ASSUME NEW w \in Workers, NEW i \in Instances, NEW r \in Request, Receive(w, i, r)
      PROVE  ShareInv'
  BY <1>1, <1>4, ReceiveStep
<1>5. ASSUME NEW w \in Workers, Query(w) PROVE ShareInv'
  BY <1>1, <1>5, QueryStep
<1>6. ASSUME NEW w \in Workers, LoadRow(w) PROVE ShareInv'
  BY <1>1, <1>6, LoadRowStep
<1>7. ASSUME NEW w \in Workers, LoadDone(w) \/ LoadFail(w) PROVE ShareInv'
  BY <1>1, <1>7, EndLoadStep
<1>8. ASSUME NEW w \in Workers, Index(w) \/ Share(w) \/ Answered(w) PROVE ShareInv'
  BY <1>1, <1>2, <1>3, <1>8, CalmStep DEF Index, Share, Answered, Calm, Goto
<1>9. ASSUME NEW w \in Workers, ShareVerified(w) PROVE ShareInv'
  BY <1>1, <1>9, ShareVerifiedStep
<1>10. ASSUME NEW w \in Workers, Unshare(w) PROVE ShareInv'
  <2>1. req[w].app \in Apps /\ req[w].email \in Emails
    BY <1>10 DEF Unshare, ShareInv, TypeInv, Busy, Request
  <2> QED
    BY <1>1, <1>10, <2>1, UnshareStep DEF Unshare
<1>11. ASSUME NEW w \in Workers, Retrieve(w) PROVE ShareInv'
  <2>1. pc' = [pc EXCEPT ![w] = "reply"] \/ pc' = [pc EXCEPT ![w] = "verify"]
    BY <1>11 DEF Retrieve, Goto
  <2>2. \A v \in Workers \ {w} : item'[v] = item[v]
    BY <1>2, <1>11 DEF Retrieve
  <2>3. pc[w] = "serve" /\ UNCHANGED <<inited, list, store, at, rows, torn>>
    BY <1>11 DEF Retrieve
  <2> QED
    BY <1>1, <1>2, <1>3, <2>1, <2>2, <2>3, CalmStep DEF Calm
<1>12. ASSUME NEW w \in Workers, SiteInvalid(w) PROVE ShareInv'
  <2>1. CASE Goto(w, "reply") /\ UNCHANGED <<list, item, torn>>
    BY <1>1, <1>2, <1>3, <1>12, <2>1, CalmStep DEF SiteInvalid, Calm, Goto
  <2>2. CASE req[w].op = "retrieve" /\ UnshareAppID(w, item[w].app, item[w].email)
    <3>1. item[w].app \in Apps /\ item[w].email \in Emails
      BY <1>12, <2>2 DEF SiteInvalid, ShareInv, TypeInv, Busy, Item
    <3> QED
      BY <1>1, <1>12, <2>2, <3>1, UnshareStep DEF SiteInvalid
  <2> QED
    BY <1>12, <2>1, <2>2 DEF SiteInvalid
<1>13. ASSUME NEW w \in Workers, WriteOk(w) \/ WriteFail(w) PROVE ShareInv'
  BY <1>1, <1>13, WriteStep
<1>14. ASSUME NEW w \in Workers, Reply(w) PROVE ShareInv'
  BY <1>1, <1>2, <1>14, CalmStep DEF Reply, Calm, Goto
<1>15. ASSUME NEW i \in Instances, Stop(i) PROVE ShareInv'
  BY <1>1, <1>15, StopStep
<1>16. CASE UNCHANGED vars
  BY <1>1, <1>16 DEF vars, ShareInv, Started, Unused, AloneStarting, AloneWriting, Faithful,
       Starting, Writing, Loaded, Unwritten, Agrees, Loading, Putting, Deleting, Stored
<1> QED
  BY <1>4, <1>5, <1>6, <1>7, <1>8, <1>9, <1>10, <1>11, <1>12, <1>13, <1>14, <1>15, <1>16
  DEF Next, Step

(* The invariant holds in every state.                                       *)
LEMMA ShareAlways == Spec => []ShareInv
BY ShareInit, ShareStep, PTL DEF Spec

-----------------------------------------------------------------------------
(* The theorems.                                                            *)

(* What an instance lists of an app id is what the datastore holds of it,   *)
(* once, while nothing is under way with it, unless a failure or a race has *)
(* touched it: the answer "Success" outlives the instance.                  *)
THEOREM ListMatches == Spec => []ListMatchesStore
<1>1. ShareInv => ListMatchesStore
  BY DEF ShareInv, Faithful, Unwritten, Agrees, Stored, ListMatchesStore
<1> QED
  BY <1>1, ShareAlways, PTL

(* Which entries of the datastore a step may change.                        *)
LEMMA WhoWrites ==
  ASSUME ShareInv, [Next]_vars, NEW a \in Apps \ torn, store'[a] # store[a]
  PROVE  \E w \in Workers :
           /\ Writing(w, a)
           /\ \/ pc[w] = "put" /\ Putting(w, a)
              \/ pc[w] = "delete" /\ Deleting(w, a) /\ store'[a] = None
<1>1. PICK w \in Workers : WriteOk(w) \/ WriteFail(w)
  <2>1. ~UNCHANGED store
    OBVIOUS
  <2> QED
    BY <2>1 DEF Next, Step, vars, Receive, Query, LoadRow, LoadDone, LoadFail, EndLoad, Index,
         Share, ShareVerified, Unshare, Retrieve, Answered, SiteInvalid, Reply, Stop
<1>2. pc[w] \in {"put", "delete"} /\ store' = Written(w)
  BY <1>1 DEF WriteOk, WriteFail
<1>3. store \in [Apps -> Emails \cup {None}]
  BY DEF ShareInv, TypeInv, TypeOK
<1>4. item[w].app = a
  BY <1>2, <1>3 DEF Written, Removed
<1>5. Writing(w, a)
  BY <1>2, <1>4 DEF Writing
<1>6. pc[w] = "delete" => store'[a] = None
  BY <1>2, <1>3, <1>4 DEF Written, Removed
<1> QED
  BY <1>2, <1>5, <1>6 DEF ShareInv, Faithful

(* Only an unshare by the owner, or of what the administrator shared, has   *)
(* an app id deleted from the datastore.                                    *)
THEOREM OwnerDeletes == Spec => OnlyOwnerDeletes
<1>1. ASSUME ShareInv, [Next]_vars, NEW a \in Apps \ torn, store[a] # None, store'[a] = None
      PROVE  \E w \in Workers :
               /\ Writing(w, a) /\ pc[w] = "delete"
               /\ item[w].email = store[a] \/ store[a] = Admin
  <2>1. PICK w \in Workers :
          /\ Writing(w, a)
          /\ \/ pc[w] = "put" /\ Putting(w, a)
             \/ pc[w] = "delete" /\ Deleting(w, a)
    BY <1>1, WhoWrites
  <2> QED
    BY <1>1, <2>1 DEF Putting, Deleting
<1>2. ShareInv /\ [Next]_vars =>
        [\A a \in Apps \ torn :
           store[a] # None /\ store'[a] = None =>
             \E w \in Workers :
               /\ Writing(w, a) /\ pc[w] = "delete"
               /\ item[w].email = store[a] \/ store[a] = Admin]_vars
  BY <1>1
<1> QED
  BY <1>2, ShareAlways, PTL DEF Spec, OnlyOwnerDeletes

(* A stored app id never changes hands without being unshared in between.   *)
THEOREM NoTakeovers == Spec => NoTakeover
<1>1. ASSUME ShareInv, [Next]_vars, NEW a \in Apps \ torn, store[a] # None
      PROVE  store'[a] \in {store[a], None}
  BY <1>1, WhoWrites DEF Putting
<1>2. ShareInv /\ [Next]_vars =>
        [\A a \in Apps \ torn : store[a] # None => store'[a] \in {store[a], None}]_vars
  BY <1>1
<1> QED
  BY <1>2, ShareAlways, PTL DEF Spec, NoTakeover
=============================================================================
