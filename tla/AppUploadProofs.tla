--------------------------- MODULE AppUploadProofs ---------------------------
(* Theorems about the deployment, for every number of sessions, app ids and  *)
(* files, every limit of the server and of the batches, and every outcome of *)
(* a request that AppUpload allows: first who has a transaction open, then   *)
(* what an upload sends, each file once and all of them before the version   *)
(* goes live.                                                                *)
EXTENDS AppUpload, SequenceTheorems, TLAPS

(* A session that works has an app id to work for, and what it hands to a    *)
(* batcher, or sends, is a path.                                             *)
PathsGiven(q) == \A k \in 1..Len(q) : q[k].op # "flush" => q[k].path \in Paths

Busy(r) ==
  /\ r.pc \notin {"idle", "end"} => r.apps # <<>>
  /\ PathsGiven(r.agenda)

TypeInv == TypeOK /\ \A s \in Sessions : Busy(c[s])

-----------------------------------------------------------------------------
(* Who has a transaction open.  From the answer to create on, up to the end  *)
(* of the waiting that follows startserving, a session knows that it has.    *)
OpenPcs == {"clone", "upload", "precompile", "deploy", "isready", "startserving"}

Knows(r) ==
  /\ r.pc \in OpenPcs \cup {"isserving"} => r.inTransaction /\ r.told
  /\ r.pc = "rollback" => r.inTransaction
  /\ r.inTransaction => r.action = "rollback" \/ r.told

(* A transaction is held by the run that opened it, or its session has lost  *)
(* track of it.                                                              *)
Holds(s, a) == c[s].pc \in OpenPcs \cup {"rollback"} /\ App(s) = a

Owned ==
  \A s \in Sessions, a \in AppIds : txn[a].by = s => a \in lost[s] \/ Holds(s, a)

OpenInv == TypeInv /\ (\A s \in Sessions : Knows(c[s])) /\ Owned

-----------------------------------------------------------------------------
(* Records and sequences.                                                    *)

(* What an upload handler sends of a file: each kind at most once.           *)
LEMMA UploadsOfFacts ==
  ASSUME NEW f
  PROVE  /\ UploadsOf(f) \in Seq(What)
         /\ \A i, j \in 1..Len(UploadsOf(f)) : UploadsOf(f)[i] = UploadsOf(f)[j] => i = j
<1> DEFINE Two(q) == q \in Seq(What) /\ Len(q) = 2 /\ q[1] = "blob" /\ q[2] = "errorblob"
<1>1. \/ Two(UploadsOf(f))
      \/ \E w \in What : UploadsOf(f) = <<w>>
  <2>1. CASE IsStaticFile(f) /\ IsErrorFile(f)
    <3>1. UploadsOf(f) = <<"blob">> \o <<"errorblob">> \o <<>>
      BY <2>1 DEF UploadsOf, IsApplicationFile
    <3>2. Two(<<"blob">> \o <<"errorblob">>)
      BY DEF What
    <3>3. \A q : Two(q) => Two(q \o <<>>)
      OBVIOUS
    <3> QED
      BY <3>1, <3>2, <3>3
  <2>2. CASE IsStaticFile(f) /\ ~IsErrorFile(f)
    <3>1. UploadsOf(f) = <<"blob">> \o <<>> \o <<>>
      BY <2>2 DEF UploadsOf, IsApplicationFile
    <3> QED
      BY <3>1 DEF What
  <2>3. CASE ~IsStaticFile(f) /\ IsErrorFile(f)
    <3>1. UploadsOf(f) = <<>> \o <<"errorblob">> \o <<>>
      BY <2>3 DEF UploadsOf, IsApplicationFile
    <3> QED
      BY <3>1 DEF What
  <2>4. CASE ~IsStaticFile(f) /\ ~IsErrorFile(f)
    <3>1. UploadsOf(f) = <<>> \o <<>> \o <<"file">>
      BY <2>4 DEF UploadsOf, IsApplicationFile
    <3> QED
      BY <3>1 DEF What
  <2> QED
    BY <2>1, <2>2, <2>3, <2>4
<1>2. CASE Two(UploadsOf(f))
  BY <1>2
<1>3. CASE \E w \in What : UploadsOf(f) = <<w>>
  BY <1>3
<1> QED
  BY <1>1, <1>2, <1>3

(* The items of the agenda that stand for them.                              *)
LEMMA AddsFacts ==
  ASSUME NEW f \in Paths
  PROVE  /\ Adds(f) \in Seq(Item) /\ Len(Adds(f)) = Len(UploadsOf(f))
         /\ \A k \in 1..Len(Adds(f)) :
              Adds(f)[k].op = "add" /\ Adds(f)[k].what = UploadsOf(f)[k] /\ Adds(f)[k].path = f
BY UploadsOfFacts DEF Adds, Item

(* The last items of the agenda flush each batcher.                          *)
LEMMA FlushesFacts ==
  /\ Flushes \in Seq(Item) /\ Len(Flushes) = 3
  /\ \A k \in 1..3 : Flushes[k].op = "flush"
  /\ \A w \in What : \E k \in 1..3 : Flushes[k].what = w
<1>1. Len(Flushes) = 3 /\ Flushes[1].what = "file" /\ Flushes[2].what = "blob" /\ Flushes[3].what = "errorblob"
  BY DEF Flushes
<1>2. Flushes \in Seq(Item)
  BY DEF Flushes, Item, What
<1>3. \A k \in 1..3 : Flushes[k].op = "flush"
  BY DEF Flushes
<1> QED
  BY <1>1, <1>2, <1>3 DEF What

(* The single files of a batch.                                              *)
LEMMA SinglesFacts ==
  ASSUME NEW w \in What, NEW batch \in Seq(Paths)
  PROVE  /\ Singles(w, batch) \in Seq(Item) /\ Len(Singles(w, batch)) = Len(batch)
         /\ \A k \in 1..Len(batch) :
              /\ Singles(w, batch)[k].op = "single" /\ Singles(w, batch)[k].what = w
              /\ Singles(w, batch)[k].path = batch[k]
BY DEF Singles, Item

(* A new AppVersionUpload, and what is left of one after an exception.       *)
LEMMA NewUploadType ==
  ASSUME NEW pc \in Pcs, NEW action \in {"update", "rollback"}, NEW apps \in Seq(AppIds)
  PROVE  NewUpload(pc, action, apps) \in Client
BY UploadAssumption DEF NewUpload, Client, Exceptions

(* An exception: to the rollback with a transaction, to the end without.     *)
LEMMA RaiseFacts ==
  ASSUME NEW r \in Client, NEW e \in Exceptions
  PROVE  /\ Raise(r, e) \in Client
         /\ Raise(r, e).pc = IF r.inTransaction THEN "rollback" ELSE "raised"
         /\ Raise(r, e).apps = r.apps /\ Raise(r, e).action = r.action
         /\ Raise(r, e).inTransaction = r.inTransaction /\ Raise(r, e).told = r.told
         /\ Raise(r, e).agenda = <<>>
<1>1. NewUpload(IF r.inTransaction THEN "rollback" ELSE "raised", r.action, r.apps) \in Client
  BY NewUploadType DEF Client, Pcs
<1>2. r.inTransaction \in BOOLEAN /\ r.told \in BOOLEAN
  BY DEF Client
<1>3. \A u \in Client :
        LET x == [u EXCEPT !.inTransaction = r.inTransaction, !.exc = e, !.told = r.told]
        IN x \in Client /\ x.pc = u.pc /\ x.apps = u.apps /\ x.action = u.action
           /\ x.inTransaction = r.inTransaction /\ x.told = r.told /\ x.agenda = u.agenda
  BY <1>2 DEF Client
<1>4. \A pc, action, apps :
        LET u == NewUpload(pc, action, apps)
        IN u.pc = pc /\ u.action = action /\ u.apps = apps /\ u.agenda = <<>>
  BY DEF NewUpload
<1> DEFINE u == NewUpload(IF r.inTransaction THEN "rollback" ELSE "raised", r.action, r.apps)
<1>5. /\ u.pc = IF r.inTransaction THEN "rollback" ELSE "raised"
      /\ u.action = r.action /\ u.apps = r.apps /\ u.agenda = <<>>
  BY <1>4
<1>6. Raise(r, e) = [u EXCEPT !.inTransaction = r.inTransaction, !.exc = e, !.told = r.told]
  BY DEF Raise
<1>7. u \in Client
  BY <1>1
<1> HIDE DEF u
<1> QED
  BY <1>3, <1>5, <1>6, <1>7

(* A session becomes r, the others stay what they are.                       *)
LEMMA BecomeFacts ==
  ASSUME c \in [Sessions -> Client], NEW s \in Sessions, NEW r \in Client, Become(s, r)
  PROVE  /\ c' \in [Sessions -> Client] /\ c'[s] = r
         /\ \A t \in Sessions \ {s} : c'[t] = c[t]
BY DEF Become

(* What comes of a request.                                                  *)
LEMMA OutcomesFacts ==
  ASSUME NEW accepts, NEW o \in Outcomes(accepts)
  PROVE  /\ o[1] \in BOOLEAN /\ (o[1] => accepts)
         /\ o[2] \in Errors \cup {"ok"} /\ (o[2] = "ok" => o[1])
<1>1. CASE o = <<TRUE, "ok">> /\ accepts
  BY <1>1
<1>2. CASE o \in BOOLEAN \X Errors /\ accepts
  <2>1. o[1] \in BOOLEAN /\ o[2] \in Errors
    BY <1>2
  <2> QED
    BY <1>2, <2>1 DEF Errors
<1>3. CASE o \in {FALSE} \X Errors
  <2>1. o[1] = FALSE /\ o[2] \in Errors
    BY <1>3
  <2> QED
    BY <2>1 DEF Errors
<1> QED
  BY <1>1, <1>2, <1>3 DEF Outcomes

(* A request that is executed changes its own app's transaction alone.       *)
LEMMA ExecuteFacts ==
  ASSUME txn \in [AppIds -> Transaction \cup {NoTxn}], NEW a \in AppIds, NEW done \in BOOLEAN,
         NEW t, done => t \in Transaction \cup {NoTxn}, Execute(done, a, t)
  PROVE  /\ txn' \in [AppIds -> Transaction \cup {NoTxn}]
         /\ txn'[a] = IF done THEN t ELSE txn[a]
         /\ \A b \in AppIds \ {a} : txn'[b] = txn[b]
BY DEF Execute

(* A request of another session mixes the transaction it goes into.          *)
LEMMA TouchedFacts ==
  ASSUME txn \in [AppIds -> Transaction \cup {NoTxn}], NEW s \in Sessions, NEW a \in AppIds,
         txn[a] # NoTxn
  PROVE  /\ Touched(s, a) \in Transaction
         /\ Touched(s, a).by = txn[a].by /\ Touched(s, a).has = txn[a].has
         /\ Touched(s, a).mixed = (txn[a].mixed \/ txn[a].by # s)
BY DEF Touched, Transaction

-----------------------------------------------------------------------------
(* Types.                                                                    *)

(* Every session starts with its terminal's task.                            *)
LEMMA TypeInit == Init => TypeInv
<1> SUFFICES ASSUME Init PROVE TypeInv
  OBVIOUS
<1>1. PICK t \in Terminals :
        c = [s \in Sessions |-> NewUpload("idle", t[s].action, t[s].apps)]
  BY DEF Init
<1>2. \A s \in Sessions : t[s].action \in {"update", "rollback"} /\ t[s].apps \in Seq(AppIds)
  BY UploadAssumption
<1>3. \A s \in Sessions : c[s] \in Client
  BY <1>1, <1>2, NewUploadType DEF Pcs
<1>4. c \in [Sessions -> Client]
  BY <1>1, <1>3
<1>5. TypeOK
  BY <1>4, UploadAssumption DEF Init, TypeOK
<1>6. \A s \in Sessions : Busy(c[s])
  BY <1>1 DEF NewUpload, Busy, PathsGiven
<1> QED
  BY <1>5, <1>6 DEF TypeInv

Server == [AppIds -> Transaction \cup {NoTxn}]

(* A step that changes one session and the server keeps the types.           *)
LEMMA TypeFrom ==
  ASSUME TypeInv, NEW s \in Sessions, NEW r \in Client, Become(s, r), Busy(r),
         txn' \in Server, live' \in Server, config' = config,
         lost' \in [Sessions -> SUBSET AppIds], twice' \in BOOLEAN
  PROVE  TypeInv'
<1>1. c' \in [Sessions -> Client] /\ c'[s] = r /\ \A t \in Sessions \ {s} : c'[t] = c[t]
  BY BecomeFacts DEF TypeInv, TypeOK
<1>2. TypeOK'
  BY <1>1 DEF TypeInv, TypeOK, Server
<1>3. \A t \in Sessions : Busy(c'[t])
  BY <1>1 DEF TypeInv
<1> QED
  BY <1>2, <1>3 DEF TypeInv, Busy, PathsGiven

(* An exception, and the end of a run, are states a session can be in.       *)
LEMMA RaiseBusy ==
  ASSUME TypeInv, NEW s \in Sessions, c[s].pc \notin {"idle", "end"} \/ c[s].apps # <<>>,
         NEW e \in Exceptions
  PROVE  Raise(c[s], e) \in Client /\ Busy(Raise(c[s], e))
<1>1. c[s] \in Client /\ Busy(c[s])
  BY DEF TypeInv, TypeOK
<1> QED
  BY <1>1, RaiseFacts DEF Busy, PathsGiven

(* deployer.py goes on with the next app id.                                 *)
LEMMA NextAppBusy ==
  ASSUME NEW r \in Client, r.apps # <<>>
  PROVE  NextApp(r) \in Client /\ Busy(NextApp(r))
<1>1. Tail(r.apps) \in Seq(AppIds) /\ r.action \in {"update", "rollback"}
  BY DEF Client
<1>2. NextApp(r) \in Client
  BY <1>1, NewUploadType DEF NextApp, Pcs
<1> QED
  BY <1>2 DEF NextApp, NewUpload, Busy, PathsGiven

(* deployer.py comes to its end.                                             *)
LEMMA EndedBusy ==
  ASSUME NEW r \in Client
  PROVE  Ended(r) \in Client /\ Busy(Ended(r))
<1>1. <<>> \in Seq(AppIds) /\ r.action \in {"update", "rollback"}
  BY DEF Client
<1>2. Ended(r) \in Client
  BY <1>1, NewUploadType DEF Ended, Pcs
<1> QED
  BY <1>2 DEF Ended, NewUpload, Busy, PathsGiven

(* A session at work has an app id.                                          *)
LEMMA AppType ==
  ASSUME TypeInv, NEW s \in Sessions, c[s].pc \notin {"idle", "end"}
  PROVE  App(s) \in AppIds /\ c[s].apps # <<>> /\ c[s].apps \in Seq(AppIds)
<1>1. c[s] \in Client /\ Busy(c[s])
  BY DEF TypeInv, TypeOK
<1> QED
  BY <1>1 DEF Busy, Client, App

(* A request on the transaction of the session's app id.                     *)
LEMMA RequestTypes ==
  ASSUME TypeInv, NEW s \in Sessions, c[s].pc \notin {"idle", "end"},
         NEW accepts, NEW o \in Outcomes(accepts), NEW t,
         accepts => t \in Transaction \cup {NoTxn}, Execute(o[1], App(s), t)
  PROVE  txn' \in Server /\ o[2] \in Exceptions \cup {"ok"} /\ (o[2] # "ok" => o[2] \in Exceptions)
<1>1. App(s) \in AppIds /\ txn \in Server
  BY AppType DEF TypeInv, TypeOK, Server
<1>2. o[1] \in BOOLEAN /\ (o[1] => accepts) /\ o[2] \in Errors \cup {"ok"}
  BY OutcomesFacts
<1>3. txn' \in Server
  BY <1>1, <1>2, ExecuteFacts DEF Server
<1> QED
  BY <1>2, <1>3 DEF Errors, Exceptions

(* A sequence with others in the place of its head.                          *)
LEMMA PrependFacts ==
  ASSUME NEW S, NEW a \in Seq(S), a # <<>>, NEW q \in Seq(S)
  PROVE  /\ Len(a) \in Nat \ {0} /\ Head(a) = a[1] /\ Head(a) \in S /\ Len(q) \in Nat
         /\ q \o Tail(a) \in Seq(S) /\ Len(q \o Tail(a)) = Len(q) + Len(a) - 1
         /\ \A k \in 1..Len(q) : (q \o Tail(a))[k] = q[k]
         /\ \A k \in 2..Len(a) : (q \o Tail(a))[Len(q) + k - 1] = a[k]
         /\ \A k \in 1..Len(q \o Tail(a)) :
              \/ k \in 1..Len(q) /\ (q \o Tail(a))[k] = q[k]
              \/ k + 1 - Len(q) \in 2..Len(a) /\ (q \o Tail(a))[k] = a[k + 1 - Len(q)]
<1> DEFINE b == Tail(a)
<1>1. Len(a) \in Nat \ {0} /\ Head(a) = a[1] /\ Len(q) \in Nat
  BY EmptySeq, LenProperties
<1>2. Head(a) \in S /\ b \in Seq(S) /\ Len(b) = Len(a) - 1 /\ \A k \in 1..Len(b) : b[k] = a[k + 1]
  BY HeadTailProperties
<1> HIDE DEF b
<1>3. /\ q \o b \in Seq(S) /\ Len(q \o b) = Len(q) + Len(b)
      /\ \A k \in 1..(Len(q) + Len(b)) :
           (q \o b)[k] = IF k <= Len(q) THEN q[k] ELSE b[k - Len(q)]
  <2>1. b \in Seq(S)
    BY <1>2
  <2> QED
    BY <2>1, ConcatProperties
<1>4. \A k \in 1..Len(q) : (q \o b)[k] = q[k]
  BY <1>1, <1>2, <1>3
<1>5. \A k \in 2..Len(a) : (q \o b)[Len(q) + k - 1] = a[k]
  <2> TAKE k \in 2..Len(a)
  <2>1. Len(q) + k - 1 \in 1..(Len(q) + Len(b)) /\ ~(Len(q) + k - 1 <= Len(q))
    BY <1>1, <1>2
  <2>2. (Len(q) + k - 1) - Len(q) = k - 1 /\ k - 1 \in 1..Len(b) /\ (k - 1) + 1 = k
    BY <1>1, <1>2
  <2>3. (q \o b)[Len(q) + k - 1] = b[k - 1]
    BY <1>3, <2>1, <2>2
  <2> QED
    BY <1>2, <2>2, <2>3
<1>6. ASSUME NEW k \in 1..Len(q \o b), k > Len(q)
      PROVE  k + 1 - Len(q) \in 2..Len(a) /\ (q \o b)[k] = a[k + 1 - Len(q)]
  <2>1. k \in 1..(Len(q) + Len(b)) /\ ~(k <= Len(q)) /\ k - Len(q) \in 1..Len(b)
    BY <1>1, <1>2, <1>3, <1>6
  <2>2. (q \o b)[k] = b[k - Len(q)]
    BY <1>3, <2>1
  <2>3. b[k - Len(q)] = a[(k - Len(q)) + 1]
    BY <1>2, <2>1
  <2>4. (k - Len(q)) + 1 = k + 1 - Len(q) /\ k + 1 - Len(q) \in 2..Len(a)
    BY <1>1, <1>2, <2>1
  <2> QED
    BY <2>2, <2>3, <2>4
<1> QED
  BY <1>1, <1>2, <1>3, <1>4, <1>5, <1>6 DEF b

(* The agenda with others in the place of its head.                          *)
LEMMA AgendaTypes ==
  ASSUME NEW r \in Client, Busy(r), r.agenda # <<>>, NEW q \in Seq(Item), PathsGiven(q)
  PROVE  /\ Head(r.agenda) \in Item
         /\ Head(r.agenda).op # "flush" => Head(r.agenda).path \in Paths
         /\ q \o Tail(r.agenda) \in Seq(Item) /\ PathsGiven(q \o Tail(r.agenda))
<1>1. r.agenda \in Seq(Item)
  BY DEF Client
<1>2. PathsGiven(r.agenda)
  BY DEF Busy, PathsGiven
<1> DEFINE a == r.agenda
           n == q \o Tail(a)
<1>3. /\ Len(a) \in Nat \ {0} /\ Head(a) = a[1] /\ Head(a) \in Item /\ n \in Seq(Item)
      /\ \A k \in 1..Len(n) :
           \/ k \in 1..Len(q) /\ n[k] = q[k]
           \/ k + 1 - Len(q) \in 2..Len(a) /\ n[k] = a[k + 1 - Len(q)]
  BY <1>1, PrependFacts
<1> HIDE DEF n
<1>4. PathsGiven(n)
  <2> SUFFICES ASSUME NEW k \in 1..Len(n), n[k].op # "flush" PROVE n[k].path \in Paths
    BY DEF PathsGiven
  <2>1. CASE k \in 1..Len(q) /\ n[k] = q[k]
    BY <2>1 DEF PathsGiven
  <2>2. CASE k + 1 - Len(q) \in 2..Len(a) /\ n[k] = a[k + 1 - Len(q)]
    <3> DEFINE l == k + 1 - Len(q)
    <3>1. l \in 1..Len(a) /\ n[k] = a[l]
      BY <1>3, <2>2
    <3> HIDE DEF l
    <3> QED
      BY <1>2, <3>1 DEF PathsGiven
  <2> QED
    BY <1>3, <2>1, <2>2
<1>5. Head(a).op # "flush" => Head(a).path \in Paths
  BY <1>2, <1>3 DEF PathsGiven
<1> QED
  BY <1>3, <1>4, <1>5 DEF n

(* On to the next item of the agenda.                                        *)
LEMMA AdvanceType ==
  ASSUME NEW r \in Client, Busy(r), r.pc = "upload", r.agenda # <<>>
  PROVE  Advance(r) \in Client /\ Busy(Advance(r))
<1>1. r.agenda \in Seq(Item) /\ <<>> \in Seq(Item) /\ PathsGiven(<<>>)
  BY DEF Client, PathsGiven
<1>2. <<>> \o Tail(r.agenda) = Tail(r.agenda)
  BY <1>1, HeadTailProperties, ConcatEmptySeq
<1>3. Tail(r.agenda) \in Seq(Item) /\ PathsGiven(Tail(r.agenda))
  BY <1>1, <1>2, AgendaTypes
<1>4. Advance(r) \in Client
  BY <1>3 DEF Advance, Client, Pcs
<1> QED
  BY <1>3, <1>4 DEF Advance, Client, Busy, PathsGiven

(* The agenda of a session, with calls in the place of its head.             *)
LEMMA ThenType ==
  ASSUME NEW r \in Client, Busy(r), r.pc = "upload", r.agenda # <<>>,
         NEW q \in Seq(Item), PathsGiven(q), NEW n \in Client,
         n = [r EXCEPT !.agenda = q \o Tail(r.agenda)]
             \/ \E b \in [What -> Seq(Paths)], g \in [What -> BOOLEAN] :
                  n = [r EXCEPT !.agenda = q \o Tail(r.agenda), !.batch = b, !.batching = g]
  PROVE  Busy(n)
<1>1. q \o Tail(r.agenda) \in Seq(Item) /\ PathsGiven(q \o Tail(r.agenda))
  BY AgendaTypes
<1>2. n.agenda = q \o Tail(r.agenda) /\ n.apps = r.apps /\ n.pc = r.pc
  BY DEF Client
<1> QED
  BY <1>1, <1>2 DEF Busy, PathsGiven

(* The two calls that AddToBatch may put in the place of its own.            *)
LEMMA OpsType ==
  ASSUME NEW i \in Item, i.path \in Paths,
         NEW ops, ops = <<"flush", "put">> \/ ops = <<"single">>
  PROVE  LET q == [k \in 1..Len(ops) |-> [i EXCEPT !.op = ops[k]]]
         IN q \in Seq(Item) /\ PathsGiven(q)
<1> DEFINE q == [k \in 1..Len(ops) |-> [i EXCEPT !.op = ops[k]]]
<1>1. Len(ops) \in Nat /\ \A k \in 1..Len(ops) : ops[k] \in {"add", "put", "flush", "single"}
  BY Z3
<1>2. \A k \in 1..Len(ops) : q[k] \in Item /\ q[k].path = i.path
  BY <1>1 DEF Item
<1>3. q \in Seq(Item) /\ Len(q) = Len(ops)
  BY <1>1, <1>2
<1> QED
  BY <1>2, <1>3 DEF PathsGiven

(* DoUpload reads one more file.                                             *)
LEMMA UploadFileType ==
  ASSUME TypeInv, NEW s \in Sessions, UploadFile(s)
  PROVE  TypeInv'
<1>1. c[s] \in Client /\ Busy(c[s]) /\ c[s].pc = "upload"
  BY DEF TypeInv, TypeOK, UploadFile
<1>2. UNCHANGED <<txn, live, config, lost, twice>>
  BY DEF UploadFile, Unseen
<1>3. ASSUME NEW f \in c[s].files,
             Become(s, [c[s] EXCEPT !.files = c[s].files \ {f},
                         !.agenda = Adds(f) \o (IF c[s].files \ {f} = {} THEN Flushes ELSE <<>>)])
      PROVE  TypeInv'
  <2> DEFINE q == IF c[s].files \ {f} = {} THEN Flushes ELSE <<>>
             a == Adds(f)
             r == [c[s] EXCEPT !.files = c[s].files \ {f}, !.agenda = a \o q]
  <2>1. f \in Paths
    BY <1>1 DEF Client
  <2>2. a \in Seq(Item) /\ \A k \in 1..Len(a) : a[k].path \in Paths
    <3>1. /\ Adds(f) \in Seq(Item)
          /\ \A k \in 1..Len(Adds(f)) :
               Adds(f)[k].path = f
      BY <2>1, AddsFacts
    <3> QED
      BY <2>1, <3>1
  <2>3. q \in Seq(Item) /\ \A k \in 1..Len(q) : q[k].op = "flush"
    <3>1. Flushes \in Seq(Item) /\ \A k \in 1..Len(Flushes) : Flushes[k].op = "flush"
      BY FlushesFacts
    <3>2. <<>> \in Seq(Item) /\ Len(<<>>) = 0
      OBVIOUS
    <3> QED
      BY <3>1, <3>2
  <2> HIDE DEF a, q
  <2>4. /\ a \o q \in Seq(Item) /\ Len(a \o q) = Len(a) + Len(q)
        /\ Len(a) \in Nat /\ Len(q) \in Nat
        /\ \A k \in 1..(Len(a) + Len(q)) : (a \o q)[k] = IF k <= Len(a) THEN a[k] ELSE q[k - Len(a)]
    BY <2>2, <2>3, ConcatProperties, LenProperties
  <2>5. PathsGiven(a \o q)
    <3> SUFFICES ASSUME NEW k \in 1..Len(a \o q), (a \o q)[k].op # "flush"
                 PROVE  (a \o q)[k].path \in Paths
      BY DEF PathsGiven
    <3>1. k <= Len(a)
      <4> SUFFICES ASSUME k > Len(a) PROVE FALSE
        BY <2>4
      <4>1. k - Len(a) \in 1..Len(q)
        BY <2>4
      <4> QED
        BY <2>3, <2>4, <4>1
    <3> QED
      BY <2>2, <2>4, <3>1
  <2>6. r \in Client
    BY <1>1, <2>4 DEF Client
  <2>7. Busy(r)
    BY <1>1, <2>5 DEF Busy, PathsGiven, Client
  <2>8. Become(s, r)
    BY <1>3 DEF a, q
  <2> HIDE DEF r
  <2> QED
    BY <1>2, <2>6, <2>7, <2>8, TypeFrom DEF TypeInv, TypeOK, Server
<1>4. CASE Become(s, Raise(c[s], "other"))
  BY <1>1, <1>2, <1>4, RaiseBusy, TypeFrom DEF Exceptions, TypeInv, TypeOK, Server
<1> QED
  BY <1>3, <1>4 DEF UploadFile

(* AddToBatch, in each of its branches.                                      *)
LEMMA AddToBatchType ==
  ASSUME TypeInv, NEW s \in Sessions, AddToBatch(s)
  PROVE  TypeInv'
<1> DEFINE r == c[s]
           i == Head(r.agenda)
           Then(ops) == [r EXCEPT !.agenda =
                           [k \in 1..Len(ops) |-> [i EXCEPT !.op = ops[k]]] \o Tail(@)]
<1>1. r \in Client /\ Busy(r) /\ r.pc = "upload" /\ r.agenda # <<>>
  BY DEF TypeInv, TypeOK, AddToBatch
<1>2. UNCHANGED <<txn, live, config, lost, twice>>
  BY DEF AddToBatch, Unseen
<1>3. i \in Item /\ i.path \in Paths
  <2>1. i.op # "flush"
    BY DEF AddToBatch
  <2>2. <<>> \in Seq(Item) /\ PathsGiven(<<>>)
    BY DEF PathsGiven
  <2> QED
    BY <1>1, <2>1, <2>2, AgendaTypes
<1>4. \/ Become(s, Then(<<"flush", "put">>))
      \/ Become(s, Then(<<"single">>))
      \/ Become(s, [Advance(r) EXCEPT !.batch[i.what] = Append(@, i.path)])
  BY DEF AddToBatch
<1>5. ASSUME NEW ops, ops = <<"flush", "put">> \/ ops = <<"single">>, Become(s, Then(ops))
      PROVE  TypeInv'
  <2> DEFINE q == [k \in 1..Len(ops) |-> [i EXCEPT !.op = ops[k]]]
             n == [r EXCEPT !.agenda = q \o Tail(r.agenda)]
  <2>1. q \in Seq(Item) /\ PathsGiven(q)
    BY <1>3, <1>5, OpsType
  <2> HIDE DEF q
  <2>2. q \o Tail(r.agenda) \in Seq(Item)
    BY <1>1, <2>1, AgendaTypes
  <2>3. n \in Client
    BY <1>1, <2>2 DEF Client
  <2>4. Busy(n)
    BY <1>1, <2>1, <2>3, ThenType
  <2>5. Become(s, n)
    BY <1>5 DEF q
  <2> HIDE DEF n
  <2> QED
    BY <1>2, <2>3, <2>4, <2>5, TypeFrom DEF TypeInv, TypeOK, Server
<1>6. CASE Become(s, [Advance(r) EXCEPT !.batch[i.what] = Append(@, i.path)])
  <2> DEFINE v == Advance(r)
             n == [v EXCEPT !.batch[i.what] = Append(@, i.path)]
  <2>1. v \in Client /\ Busy(v)
    BY <1>1, AdvanceType
  <2> HIDE DEF v
  <2>2. i.what \in What
    BY <1>3 DEF Item
  <2>3. n \in Client
    <3>1. v.batch[i.what] \in Seq(Paths)
      BY <2>1, <2>2 DEF Client
    <3>2. Append(v.batch[i.what], i.path) \in Seq(Paths)
      BY <1>3, <3>1
    <3> QED
      BY <2>1, <2>2, <3>2 DEF Client
  <2>4. n.pc = v.pc /\ n.agenda = v.agenda /\ n.apps = v.apps
    BY <2>1 DEF Client
  <2>5. Busy(n)
    BY <2>1, <2>4 DEF Busy, PathsGiven
  <2>6. Become(s, n)
    BY <1>6 DEF v
  <2> HIDE DEF n
  <2> QED
    BY <1>2, <2>3, <2>5, <2>6, TypeFrom DEF TypeInv, TypeOK, Server
<1> QED
  BY <1>4, <1>5, <1>6

(* What the answer to an upload changes.                                     *)
LEMMA SendingType ==
  ASSUME NEW r \in Client, Busy(r), NEW uploads \in SUBSET (What \X Paths)
  PROVE  /\ Sending(r, uploads) \in Client /\ Busy(Sending(r, uploads))
         /\ Sending(r, uploads).pc = r.pc /\ Sending(r, uploads).agenda = r.agenda
BY DEF Sending, Client, Busy, PathsGiven

(* A batch that is emptied.                                                  *)
LEMMA ResetType ==
  ASSUME NEW r \in Client, Busy(r), NEW w \in What
  PROVE  /\ ResetBatch(r, w) \in Client /\ Busy(ResetBatch(r, w))
         /\ ResetBatch(r, w).pc = r.pc /\ ResetBatch(r, w).agenda = r.agenda
<1>1. <<>> \in Seq(Paths)
  OBVIOUS
<1> QED
  BY <1>1 DEF ResetBatch, Client, Busy, PathsGiven

(* A transaction that gets files.                                            *)
LEMMA HasType ==
  ASSUME TypeInv, NEW s \in Sessions, NEW a \in AppIds, txn[a] # NoTxn,
         NEW uploads \in SUBSET (What \X Paths)
  PROVE  [Touched(s, a) EXCEPT !.has = @ \cup uploads] \in Transaction
<1>1. Touched(s, a) \in Transaction
  BY TouchedFacts DEF TypeInv, TypeOK
<1> QED
  BY <1>1 DEF Transaction

(* Flush: a batch sent, given up, or nothing to send.                        *)
LEMMA FlushType ==
  ASSUME TypeInv, NEW s \in Sessions, Flush(s)
  PROVE  TypeInv'
<1> DEFINE r == c[s]
           w == Head(r.agenda).what
           a == App(s)
           uploads == {w} \X ToSet(r.batch[w])
<1>1. r \in Client /\ Busy(r) /\ r.pc = "upload" /\ r.agenda # <<>>
  BY DEF TypeInv, TypeOK, Flush
<1>2. UNCHANGED <<live, config, lost>>
  BY DEF Flush
<1>3. w \in What
  <2>1. <<>> \in Seq(Item) /\ PathsGiven(<<>>)
    BY DEF PathsGiven
  <2>2. Head(r.agenda) \in Item
    BY <1>1, <2>1, AgendaTypes
  <2> QED
    BY <2>2 DEF Item
<1>4. r.batch[w] \in Seq(Paths) /\ uploads \in SUBSET (What \X Paths)
  BY <1>1, <1>3 DEF Client, ToSet
<1>5. CASE Become(s, Advance(r)) /\ UNCHANGED <<txn, twice>>
  BY <1>1, <1>2, <1>5, AdvanceType, TypeFrom DEF TypeInv, TypeOK, Server
<1>6. CASE /\ Become(s, [ResetBatch(r, w) EXCEPT !.batching[w] = FALSE,
                            !.agenda = Singles(w, r.batch[w]) \o Tail(@)])
           /\ UNCHANGED <<txn, twice>>
  <2> DEFINE v == ResetBatch(r, w)
             q == Singles(w, r.batch[w])
             n == [v EXCEPT !.batching[w] = FALSE, !.agenda = q \o Tail(r.agenda)]
  <2>1. v \in Client /\ v.agenda = r.agenda /\ v.pc = r.pc /\ v.apps = r.apps
    BY <1>1, <1>3, ResetType, ZenonT(60) DEF ResetBatch, Client
  <2>2. q \in Seq(Item) /\ PathsGiven(q)
    <3>1. /\ q \in Seq(Item) /\ Len(q) = Len(r.batch[w])
          /\ \A k \in 1..Len(r.batch[w]) : q[k].path = r.batch[w][k]
      BY <1>3, <1>4, SinglesFacts, SMTT(30)
    <3>2. \A k \in 1..Len(r.batch[w]) : r.batch[w][k] \in Paths
      BY <1>4
    <3> QED
      BY <3>1, <3>2 DEF PathsGiven
  <2> HIDE DEF v, q
  <2>3. q \o Tail(r.agenda) \in Seq(Item) /\ PathsGiven(q \o Tail(r.agenda))
    BY <1>1, <2>2, AgendaTypes
  <2>4. n \in Client
    BY <1>3, <2>1, <2>3 DEF Client
  <2>5. n.agenda = q \o Tail(r.agenda) /\ n.pc = r.pc /\ n.apps = r.apps
    BY <2>1 DEF Client
  <2>6. Busy(n)
    BY <1>1, <2>3, <2>5 DEF Busy, PathsGiven
  <2>7. Become(s, n)
    BY <1>6, <2>1 DEF v, q
  <2> HIDE DEF n
  <2> QED
    BY <1>2, <1>6, <2>4, <2>6, <2>7, TypeFrom DEF TypeInv, TypeOK, Server
<1>7. CASE /\ SentBefore(r, uploads)
           /\ \E o \in Outcomes(txn[a] # NoTxn /\ ~config.old) :
                /\ Execute(o[1], a, [Touched(s, a) EXCEPT !.has = @ \cup uploads])
                /\ Become(s, IF o[2] = "ok"
                             THEN Advance(Sending(ResetBatch(r, w), uploads))
                             ELSE Raise(r, o[2]))
  <2>1. PICK o \in Outcomes(txn[a] # NoTxn /\ ~config.old) :
                /\ Execute(o[1], a, [Touched(s, a) EXCEPT !.has = @ \cup uploads])
                /\ Become(s, IF o[2] = "ok"
                             THEN Advance(Sending(ResetBatch(r, w), uploads))
                             ELSE Raise(r, o[2]))
    BY <1>7
  <2> DEFINE v == Sending(ResetBatch(r, w), uploads)
  <2>2. v \in Client /\ Busy(v) /\ v.pc = "upload" /\ v.agenda # <<>>
    BY <1>1, <1>3, <1>4, ResetType, SendingType
  <2>3. Advance(v) \in Client /\ Busy(Advance(v))
    BY <2>2, AdvanceType
  <2>4. a \in AppIds
    BY <1>1, AppType
  <2>5. txn' \in Server /\ (o[2] # "ok" => o[2] \in Exceptions)
    BY <1>1, <1>4, <2>1, <2>4, HasType, RequestTypes
  <2>6. twice' \in BOOLEAN
    BY <1>7 DEF SentBefore
  <2>7. \E n \in Client : Busy(n) /\ Become(s, n)
    BY <1>1, <2>1, <2>3, <2>5, RaiseBusy
  <2> QED
    BY <1>2, <2>5, <2>6, <2>7, TypeFrom DEF TypeInv, TypeOK, Server
<1> QED
  BY <1>5, <1>6, <1>7 DEF Flush

(* One file in a request of its own.                                         *)
LEMMA SendSingleFileType ==
  ASSUME TypeInv, NEW s \in Sessions, SendSingleFile(s)
  PROVE  TypeInv'
<1> DEFINE r == c[s]
           a == App(s)
           uploads == {<<Head(r.agenda).what, Head(r.agenda).path>>}
<1>1. r \in Client /\ Busy(r) /\ r.pc = "upload" /\ r.agenda # <<>>
  BY DEF TypeInv, TypeOK, SendSingleFile
<1>2. UNCHANGED <<live, config, lost>> /\ twice' \in BOOLEAN
  BY DEF SendSingleFile, SentBefore
<1>3. Head(r.agenda).what \in What /\ Head(r.agenda).path \in Paths
  <2>1. <<>> \in Seq(Item) /\ PathsGiven(<<>>)
    BY DEF PathsGiven
  <2>2. Head(r.agenda) \in Item /\ (Head(r.agenda).op # "flush" => Head(r.agenda).path \in Paths)
    BY <1>1, <2>1, AgendaTypes
  <2> QED
    BY <2>2 DEF Item, SendSingleFile
<1>4. uploads \in SUBSET (What \X Paths)
  BY <1>3
<1>5. PICK o \in Outcomes(txn[a] # NoTxn) :
        /\ Execute(o[1], a, [Touched(s, a) EXCEPT !.has = @ \cup uploads])
        /\ Become(s, IF o[2] = "ok" THEN Advance(Sending(r, uploads)) ELSE Raise(r, o[2]))
  BY DEF SendSingleFile
<1> DEFINE v == Sending(r, uploads)
<1>6. v \in Client /\ Busy(v) /\ v.pc = "upload" /\ v.agenda # <<>>
  BY <1>1, <1>4, SendingType
<1>7. Advance(v) \in Client /\ Busy(Advance(v))
  BY <1>6, AdvanceType
<1>8. a \in AppIds
  BY <1>1, AppType
<1>9. txn' \in Server /\ (o[2] # "ok" => o[2] \in Exceptions)
  BY <1>1, <1>4, <1>5, <1>8, HasType, RequestTypes
<1>10. \E n \in Client : Busy(n) /\ Become(s, n)
  BY <1>1, <1>5, <1>7, <1>9, RaiseBusy
<1> QED
  BY <1>2, <1>9, <1>10, TypeFrom DEF TypeInv, TypeOK, Server

(* The steps that leave the agenda alone.                                    *)
LEMMA SameAgenda ==
  ASSUME TypeInv, NEW s \in Sessions, c[s].pc \notin {"idle", "end"} \/ c[s].apps # <<>>,
         NEW n \in Client, n.agenda = c[s].agenda, n.apps = c[s].apps
  PROVE  Busy(n)
BY DEF TypeInv, Busy, PathsGiven

(* RetryWithBackoff: one try less, or the end of the poll.                   *)
LEMMA TryAgainType ==
  ASSUME TypeInv, NEW s \in Sessions, c[s].pc \in {"isready", "isserving"}
  PROVE  TryAgain(c[s]) \in Client /\ Busy(TryAgain(c[s]))
<1>1. c[s] \in Client
  BY DEF TypeInv, TypeOK
<1>2. CASE c[s].tries + 1 >= MaxTries
  BY <1>2, RaiseBusy DEF TryAgain, Exceptions
<1>3. CASE ~(c[s].tries + 1 >= MaxTries)
  <2> DEFINE n == [c[s] EXCEPT !.tries = @ + 1]
  <2>1. c[s].tries \in 0..MaxTries /\ MaxTries \in Nat
    BY <1>1, UploadAssumption DEF Client
  <2>2. c[s].tries + 1 \in 0..MaxTries
    BY <1>3, <2>1
  <2>3. n \in Client /\ n.agenda = c[s].agenda /\ n.apps = c[s].apps
    BY <1>1, <2>2 DEF Client
  <2> HIDE DEF n
  <2>4. Busy(n)
    BY <2>3, SameAgenda
  <2> QED
    BY <1>3, <2>3, <2>4 DEF TryAgain, n
<1> QED
  BY <1>2, <1>3

(* The steps from the start to the list of missing files.                    *)
LEMMA BeginTypes ==
  ASSUME TypeInv, NEW s \in Sessions,
         Start(s) \/ GetResourceLimits(s) \/ Create(s) \/ CloneFiles(s) \/ Begun(s)
  PROVE  TypeInv'
<1> DEFINE r == c[s]
<1>1. r \in Client /\ Busy(r)
  BY DEF TypeInv, TypeOK
<1>2. \A f \in Paths : f \in AllFiles => f \in Paths
  OBVIOUS
<1>3. AllFiles \subseteq Paths
  BY DEF AllFiles
<1>4. CASE Start(s)
  <2>1. \/ Become(s, Update(r)) \/ Become(s, RollbackAction(r)) \/ Become(s, Raise(r, "yaml"))
    BY <1>4 DEF Start
  <2>2. /\ Update(r) \in Client /\ Update(r).agenda = r.agenda /\ Update(r).apps = r.apps
        /\ RollbackAction(r) \in Client /\ RollbackAction(r).agenda = r.agenda
        /\ RollbackAction(r).apps = r.apps
    BY <1>1, ZenonT(60) DEF Update, RollbackAction, Client, Pcs
  <2>3. \E n \in Client : Busy(n) /\ Become(s, n)
    BY <1>4, <2>1, <2>2, SameAgenda, RaiseBusy DEF Start, Exceptions
  <2> QED
    BY <1>4, <2>3, TypeFrom DEF Start, Unseen, TypeInv, TypeOK, Server
<1>5. CASE GetResourceLimits(s)
  <2> DEFINE n == [r EXCEPT !.pc = "create", !.files = AllFiles]
  <2>1. Become(s, n) \/ \E e \in Errors : Become(s, Raise(r, e))
    BY <1>5 DEF GetResourceLimits
  <2>2. n \in Client /\ n.agenda = r.agenda /\ n.apps = r.apps
    BY <1>1, <1>3 DEF Client, Pcs
  <2> HIDE DEF n
  <2>3. r.pc = "limits"
    BY <1>5 DEF GetResourceLimits
  <2>4. \E m \in Client : Busy(m) /\ Become(s, m)
    BY <2>1, <2>2, <2>3, SameAgenda, RaiseBusy DEF Errors, Exceptions
  <2> QED
    BY <1>5, <2>4, TypeFrom DEF GetResourceLimits, Unseen, TypeInv, TypeOK, Server
<1>6. CASE Create(s)
  <2> DEFINE clones == {p \in {"blob", "file"} \X r.files :
                         IF p[1] = "blob" THEN IsStaticFile(p[2]) ELSE IsApplicationFile(p[2])}
             n == [r EXCEPT !.pc = "clone", !.inTransaction = TRUE, !.told = TRUE, !.toClone = clones]
             t == [NoTxn EXCEPT !.by = s]
  <2>1. PICK o \in Outcomes(txn[App(s)] = NoTxn) :
          /\ Execute(o[1], App(s), t)
          /\ Become(s, IF o[2] = "ok" THEN n ELSE Raise(r, o[2]))
          /\ lost' = IF o[1] /\ o[2] # "ok" THEN [lost EXCEPT ![s] = @ \cup {App(s)}] ELSE lost
    BY <1>6 DEF Create
  <2>2. r.pc = "create" /\ App(s) \in AppIds
    BY <1>6, AppType DEF Create
  <2>3. clones \subseteq {"blob", "file"} \X Paths
    BY <1>1 DEF Client
  <2> HIDE DEF clones
  <2>4. n \in Client /\ n.agenda = r.agenda /\ n.apps = r.apps
    BY <1>1, <2>3 DEF Client, Pcs
  <2>5. t \in Transaction
    BY DEF Transaction, NoTxn
  <2> HIDE DEF n, t
  <2>6. txn' \in Server /\ (o[2] # "ok" => o[2] \in Exceptions)
    BY <2>1, <2>2, <2>5, RequestTypes
  <2>7. \E m \in Client : Busy(m) /\ Become(s, m)
    BY <2>1, <2>2, <2>4, <2>6, SameAgenda, RaiseBusy
  <2>8. lost' \in [Sessions -> SUBSET AppIds]
    BY <2>1, <2>2 DEF TypeInv, TypeOK
  <2>9. UNCHANGED <<live, config, twice>>
    BY <1>6 DEF Create
  <2> QED
    BY <2>6, <2>7, <2>8, <2>9, TypeFrom DEF TypeInv, TypeOK, Server
<1>7. CASE CloneFiles(s)
  <2> DEFINE a == App(s)
             kind == IF \E p \in r.toClone : p[1] = "blob" THEN "blob" ELSE "file"
             left == {p \in r.toClone : p[1] = kind}
             n == IF Cardinality(left) < MaxFilesToClone THEN Cardinality(left) ELSE MaxFilesToClone
             Next2(chunk, absent) ==
               [r EXCEPT !.toClone = @ \ chunk, !.missing = @ \cup {p[2] : p \in absent}]
  <2>1. PICK chunk \in kSubset(n, left), o \in Outcomes(txn[a] # NoTxn) :
          \E absent \in SUBSET chunk :
            /\ Execute(o[1], a, [Touched(s, a) EXCEPT !.has = @ \cup (chunk \ absent)])
            /\ Become(s, IF o[2] = "ok" THEN Next2(chunk, absent) ELSE Raise(r, o[2]))
    BY <1>7 DEF CloneFiles
  <2>2. PICK absent \in SUBSET chunk :
            /\ Execute(o[1], a, [Touched(s, a) EXCEPT !.has = @ \cup (chunk \ absent)])
            /\ Become(s, IF o[2] = "ok" THEN Next2(chunk, absent) ELSE Raise(r, o[2]))
    BY <2>1
  <2>3. r.pc = "clone" /\ a \in AppIds
    BY <1>7, AppType DEF CloneFiles
  <2>4. chunk \subseteq r.toClone
    BY <2>1 DEF kSubset
  <2>5. r.toClone \subseteq {"blob", "file"} \X Paths
    BY <1>1 DEF Client
  <2>6. chunk \ absent \in SUBSET (What \X Paths) /\ {p[2] : p \in absent} \subseteq Paths
    BY <2>2, <2>4, <2>5 DEF What
  <2> DEFINE m == Next2(chunk, absent)
  <2>7. m \in Client /\ m.agenda = r.agenda /\ m.apps = r.apps
    BY <1>1, <2>6 DEF Client
  <2> HIDE DEF m
  <2>8. txn' \in Server /\ (o[2] # "ok" => o[2] \in Exceptions)
    BY <2>2, <2>3, <2>6, HasType, RequestTypes
  <2>9. \E x \in Client : Busy(x) /\ Become(s, x)
    BY <2>2, <2>3, <2>7, <2>8, SameAgenda, RaiseBusy DEF m
  <2>10. UNCHANGED <<live, config, lost, twice>>
    BY <1>7 DEF CloneFiles, Unseen
  <2> QED
    BY <2>8, <2>9, <2>10, TypeFrom DEF TypeInv, TypeOK, Server
<1>8. CASE Begun(s)
  <2> DEFINE todo == r.missing \cup {f \in r.files : IsErrorFile(f)}
             n == [r EXCEPT !.files = todo, !.pc = IF todo = {} THEN "precompile" ELSE "upload",
                            !.compile = IF config.go
                              THEN {f \in AllFiles : IsApplicationFile(f)} ELSE {}]
  <2>1. todo \subseteq Paths
    BY <1>1 DEF Client
  <2>2. Become(s, n) /\ r.pc = "clone" /\ UNCHANGED <<txn, live, config, lost, twice>>
    BY <1>8 DEF Begun, Unseen
  <2> HIDE DEF todo
  <2>3. n \in Client /\ n.agenda = r.agenda /\ n.apps = r.apps
    <3>1. (IF todo = {} THEN "precompile" ELSE "upload") \in Pcs
      BY DEF Pcs
    <3>2. (IF config.go THEN {f \in AllFiles : IsApplicationFile(f)} ELSE {}) \in SUBSET Paths
      BY <1>3
    <3>3. \A pc \in Pcs, compile \in SUBSET Paths :
            LET x == [r EXCEPT !.files = todo, !.pc = pc, !.compile = compile]
            IN x \in Client /\ x.agenda = r.agenda /\ x.apps = r.apps
      BY <1>1, <2>1 DEF Client
    <3> DEFINE pc == IF todo = {} THEN "precompile" ELSE "upload"
               compile == IF config.go THEN {f \in AllFiles : IsApplicationFile(f)} ELSE {}
    <3>4. n = [r EXCEPT !.files = todo, !.pc = pc, !.compile = compile]
      OBVIOUS
    <3>5. pc \in Pcs /\ compile \in SUBSET Paths
      BY <3>1, <3>2
    <3> HIDE DEF pc, compile, n
    <3> QED
      BY <3>3, <3>4, <3>5
  <2> HIDE DEF n
  <2> QED
    BY <2>2, <2>3, SameAgenda, TypeFrom DEF TypeInv, TypeOK, Server
<1> QED
  BY <1>4, <1>5, <1>6, <1>7, <1>8

(* The steps of Commit and its polls.                                        *)
LEMMA CommitTypes ==
  ASSUME TypeInv, NEW s \in Sessions,
         PrecompileBatch(s) \/ Deploy(s) \/ IsReady(s) \/ StartServing(s) \/ IsServing(s)
  PROVE  TypeInv'
<1> DEFINE r == c[s]
           a == App(s)
<1>1. r \in Client /\ Busy(r) /\ r.pc \notin {"idle", "end"}
  BY DEF TypeInv, TypeOK, PrecompileBatch, Deploy, IsReady, StartServing, IsServing
<1>2. a \in AppIds
  BY <1>1, AppType
<1>3. txn[a] # NoTxn => Touched(s, a) \in Transaction
  BY <1>2, TouchedFacts DEF TypeInv, TypeOK
<1>4. txn[a].deployed => txn[a] # NoTxn
  BY DEF NoTxn
<1>5. 0 \in 0..MaxTries
  BY UploadAssumption
<1>6. CASE PrecompileBatch(s)
  <2> DEFINE n(left) == [r EXCEPT !.compile = left, !.pc = IF left = {} THEN "deploy" ELSE @]
             m == [r EXCEPT !.compile = {}, !.pc = "deploy"]
  <2>1. PICK o \in Outcomes(txn[a] # NoTxn) :
          /\ Execute(o[1], a, Touched(s, a))
          /\ \/ \E left \in SUBSET {f \in AllFiles : IsApplicationFile(f)} : Become(s, n(left))
             \/ o[2] # "ok" /\ Become(s, Raise(r, o[2]))
             \/ Become(s, m)
    BY <1>6 DEF PrecompileBatch
  <2>2. txn' \in Server /\ (o[2] # "ok" => o[2] \in Exceptions)
    BY <1>1, <1>3, <2>1, RequestTypes
  <2>3. m \in Client /\ m.agenda = r.agenda /\ m.apps = r.apps
    BY <1>1 DEF Client, Pcs
  <2>4. ASSUME NEW left \in SUBSET Paths
        PROVE  n(left) \in Client /\ n(left).agenda = r.agenda /\ n(left).apps = r.apps
    BY <1>1, ZenonT(60) DEF Client, Pcs
  <2>5. \A left \in SUBSET {f \in AllFiles : IsApplicationFile(f)} : left \in SUBSET Paths
    BY DEF AllFiles
  <2> HIDE DEF n, m
  <2>6. \E x \in Client : Busy(x) /\ Become(s, x)
    <3>1. CASE \E left \in SUBSET {f \in AllFiles : IsApplicationFile(f)} : Become(s, n(left))
      BY <1>1, <2>4, <2>5, <3>1, SameAgenda
    <3>2. CASE o[2] # "ok" /\ Become(s, Raise(r, o[2]))
      BY <1>1, <2>2, <3>2, RaiseBusy
    <3>3. CASE Become(s, m)
      BY <1>1, <2>3, <3>3, SameAgenda
    <3> QED
      BY <2>1, <3>1, <3>2, <3>3
  <2>7. UNCHANGED <<live, config, lost, twice>>
    BY <1>6 DEF PrecompileBatch, Unseen
  <2> QED
    BY <2>2, <2>6, <2>7, TypeFrom DEF TypeInv, TypeOK, Server
<1>7. CASE Deploy(s)
  <2> DEFINE n == [r EXCEPT !.pc = "isready", !.tries = 0]
             t == [Touched(s, a) EXCEPT !.deployed = TRUE]
  <2>1. n \in Client /\ n.agenda = r.agenda /\ n.apps = r.apps
    BY <1>1, <1>5 DEF Client, Pcs
  <2>2. txn[a] # NoTxn => t \in Transaction
    BY <1>3 DEF Transaction
  <2>3. \/ Become(s, Raise(r, "other")) /\ UNCHANGED txn
        \/ \E o \in Outcomes(txn[a] # NoTxn) :
             Execute(o[1], a, t) /\ Become(s, IF o[2] = "ok" THEN n ELSE Raise(r, o[2]))
    BY <1>7 DEF Deploy
  <2> HIDE DEF n, t
  <2>4. txn' \in Server /\ \E x \in Client : Busy(x) /\ Become(s, x)
    <3>1. CASE Become(s, Raise(r, "other")) /\ UNCHANGED txn
      BY <1>1, <3>1, RaiseBusy DEF Exceptions, TypeInv, TypeOK, Server
    <3>2. ASSUME NEW o \in Outcomes(txn[a] # NoTxn), Execute(o[1], a, t),
                 Become(s, IF o[2] = "ok" THEN n ELSE Raise(r, o[2]))
          PROVE  txn' \in Server /\ \E x \in Client : Busy(x) /\ Become(s, x)
      <4>1. txn' \in Server /\ (o[2] # "ok" => o[2] \in Exceptions)
        BY <1>1, <2>2, <3>2, RequestTypes
      <4> QED
        BY <1>1, <2>1, <3>2, <4>1, SameAgenda, RaiseBusy
    <3> QED
      BY <2>3, <3>1, <3>2
  <2>5. UNCHANGED <<live, config, lost, twice>>
    BY <1>7 DEF Deploy, Unseen
  <2> QED
    BY <2>4, <2>5, TypeFrom DEF TypeInv, TypeOK, Server
<1>8. CASE IsReady(s) \/ IsServing(s)
  <2> DEFINE n == [r EXCEPT !.pc = "startserving", !.tries = 0]
             m == [r EXCEPT !.pc = "pagespeed", !.inTransaction = FALSE, !.tries = 0]
  <2>1. /\ n \in Client /\ n.agenda = r.agenda /\ n.apps = r.apps
        /\ m \in Client /\ m.agenda = r.agenda /\ m.apps = r.apps
    BY <1>1, <1>5, ZenonT(60) DEF Client, Pcs
  <2>2. \/ Become(s, n) \/ Become(s, m) \/ Become(s, TryAgain(r))
        \/ \E e \in Errors : Become(s, Raise(r, e))
    BY <1>8 DEF IsReady, IsServing
  <2> HIDE DEF n, m
  <2>3. Busy(n) /\ Busy(m)
    BY <1>1, <2>1, SameAgenda
  <2>4. r.pc \in {"isready", "isserving"} /\ UNCHANGED <<txn, live, config, lost, twice>>
    BY <1>8 DEF IsReady, IsServing, Unseen
  <2>5. \E x \in Client : Busy(x) /\ Become(s, x)
    BY <1>1, <2>1, <2>2, <2>3, <2>4, TryAgainType, RaiseBusy DEF Errors, Exceptions
  <2> QED
    BY <2>4, <2>5, TypeFrom DEF TypeInv, TypeOK, Server
<1>9. CASE StartServing(s)
  <2> DEFINE n == [r EXCEPT !.pc = "isserving"]
             m == [r EXCEPT !.pc = "pagespeed", !.inTransaction = FALSE]
  <2>1. PICK o \in Outcomes(txn[a].deployed) :
          /\ Execute(o[1], a, NoTxn)
          /\ live' = IF o[1] THEN [live EXCEPT ![a] = Touched(s, a)] ELSE live
          /\ \/ Become(s, n) \/ Become(s, m)
             \/ o[2] # "ok" /\ Become(s, Raise(r, o[2]))
    BY <1>9 DEF StartServing
  <2>2. /\ n \in Client /\ n.agenda = r.agenda /\ n.apps = r.apps
        /\ m \in Client /\ m.agenda = r.agenda /\ m.apps = r.apps
    BY <1>1, ZenonT(60) DEF Client, Pcs
  <2> HIDE DEF n, m
  <2>3. Busy(n) /\ Busy(m)
    BY <1>1, <2>2, SameAgenda
  <2>4. txn' \in Server /\ (o[2] # "ok" => o[2] \in Exceptions)
    BY <1>1, <2>1, RequestTypes
  <2>5. \E x \in Client : Busy(x) /\ Become(s, x)
    BY <1>1, <2>1, <2>2, <2>3, <2>4, RaiseBusy
  <2>6. o[1] => txn[a] # NoTxn
    BY <1>4, OutcomesFacts
  <2>7. live' \in Server
    BY <1>2, <1>3, <2>1, <2>6 DEF TypeInv, TypeOK, Server
  <2>8. UNCHANGED <<config, lost, twice>>
    BY <1>9 DEF StartServing
  <2> QED
    BY <2>4, <2>5, <2>7, <2>8, TypeFrom DEF TypeInv, TypeOK, Server
<1> QED
  BY <1>6, <1>7, <1>8, <1>9

(* The steps after the commit, and the ends.                                 *)
LEMMA EndTypes ==
  ASSUME TypeInv, NEW s \in Sessions,
         UpdatePagespeed(s) \/ Rollback(s) \/ Raised(s) \/ Finish(s) \/ Kill(s)
  PROVE  TypeInv'
<1> DEFINE r == c[s]
<1>1. r \in Client /\ Busy(r)
  BY DEF TypeInv, TypeOK
<1>2. CASE UpdatePagespeed(s)
  <2>1. r.pc = "pagespeed" /\ r.apps # <<>>
    BY <1>1, <1>2 DEF UpdatePagespeed, Busy
  <2>2. \E x \in Client : Busy(x) /\ Become(s, x)
    BY <1>1, <1>2, <2>1, NextAppBusy, RaiseBusy DEF UpdatePagespeed, Exceptions
  <2> QED
    BY <1>2, <2>2, TypeFrom DEF UpdatePagespeed, Unseen, TypeInv, TypeOK, Server
<1>3. CASE Rollback(s)
  <2> DEFINE n == [r EXCEPT !.inTransaction = FALSE, !.files = {}]
             m == [n EXCEPT !.pc = "raised"]
             x(e) == [r EXCEPT !.pc = "raised", !.exc = e]
  <2>1. PICK o \in Outcomes(txn[App(s)] # NoTxn) :
          /\ Execute(o[1], App(s), NoTxn)
          /\ Become(s, IF o[2] # "ok" THEN x(o[2])
                       ELSE IF n.action = "rollback" THEN NextApp(n) ELSE m)
          /\ lost' = IF ~o[1] THEN [lost EXCEPT ![s] = @ \cup {App(s)}] ELSE lost
    BY <1>3 DEF Rollback
  <2>2. r.pc = "rollback" /\ App(s) \in AppIds
    BY <1>3, AppType DEF Rollback
  <2>3. /\ n \in Client /\ n.apps = r.apps
        /\ m \in Client /\ m.apps = r.apps /\ m.agenda = r.agenda
    BY <1>1, ZenonT(60) DEF Client, Pcs
  <2>4. txn' \in Server /\ (o[2] # "ok" => o[2] \in Exceptions)
    BY <2>1, <2>2, RequestTypes
  <2>5. \A e \in Exceptions : x(e) \in Client /\ x(e).apps = r.apps /\ x(e).agenda = r.agenda
    BY <1>1 DEF Client, Pcs
  <2>6. r.apps # <<>>
    BY <2>2, AppType
  <2> HIDE DEF n, m, x
  <2>7. \E y \in Client : Busy(y) /\ Become(s, y)
    BY <2>1, <2>2, <2>3, <2>4, <2>5, <2>6, SameAgenda, NextAppBusy
  <2>8. lost' \in [Sessions -> SUBSET AppIds]
    BY <2>1, <2>2 DEF TypeInv, TypeOK
  <2>9. UNCHANGED <<live, config, twice>>
    BY <1>3 DEF Rollback
  <2> QED
    BY <2>4, <2>7, <2>8, <2>9, TypeFrom DEF TypeInv, TypeOK, Server
<1>4. CASE Raised(s)
  <2>1. r.apps # <<>> /\ Become(s, IF r.exc = "other" THEN Ended(r) ELSE NextApp(r))
    BY <1>1, <1>4 DEF Raised, Busy
  <2>2. \E x \in Client : Busy(x) /\ Become(s, x)
    BY <1>1, <2>1, NextAppBusy, EndedBusy
  <2> QED
    BY <1>4, <2>2, TypeFrom DEF Raised, Unseen, TypeInv, TypeOK, Server
<1>5. CASE Finish(s)
  <2>1. \E x \in Client : Busy(x) /\ Become(s, x)
    BY <1>1, <1>5, EndedBusy DEF Finish
  <2> QED
    BY <1>5, <2>1, TypeFrom DEF Finish, Unseen, TypeInv, TypeOK, Server
<1>6. CASE Kill(s)
  <2>1. \E x \in Client : Busy(x) /\ Become(s, x)
    BY <1>1, <1>6, EndedBusy DEF Kill
  <2>2. App(s) \in AppIds
    BY <1>6, AppType DEF Kill
  <2>3. lost' \in [Sessions -> SUBSET AppIds]
    BY <1>6, <2>2 DEF Kill, TypeInv, TypeOK
  <2> QED
    BY <1>6, <2>1, <2>3, TypeFrom DEF Kill, TypeInv, TypeOK, Server
<1> QED
  BY <1>2, <1>3, <1>4, <1>5, <1>6

(* Every step keeps the types.                                               *)
LEMMA TypeStep == TypeInv /\ [Next]_vars => TypeInv'
<1> SUFFICES ASSUME TypeInv, [Next]_vars PROVE TypeInv'
  OBVIOUS
<1>1. ASSUME NEW s \in Sessions, Steps(s) PROVE TypeInv'
  BY <1>1, BeginTypes, UploadFileType, AddToBatchType, FlushType, SendSingleFileType,
     CommitTypes, EndTypes DEF Steps
<1>2. ASSUME NEW s \in Sessions, Kill(s) PROVE TypeInv'
  BY <1>2, EndTypes
<1>3. CASE UNCHANGED vars
  BY <1>3 DEF vars, TypeInv, TypeOK, Busy
<1> QED
  BY <1>1, <1>2, <1>3 DEF Next, Done

(* The types of AppVersionUpload's fields and of the server's transactions   *)
(* hold in every state, for any number of sessions, apps and files.          *)
THEOREM TypeCorrect == Spec => []TypeOK
<1>1. Spec => []TypeInv
  BY TypeInit, TypeStep, PTL DEF Spec
<1>2. TypeInv => TypeOK
  BY DEF TypeInv
<1> QED
  BY <1>1, <1>2, PTL

-----------------------------------------------------------------------------
(* Transactions.                                                             *)

(* At first no transaction is open.                                          *)
LEMMA OpenInit == Init => OpenInv
<1> SUFFICES ASSUME Init PROVE OpenInv
  OBVIOUS
<1>1. TypeInv
  BY TypeInit
<1>2. \A s \in Sessions : c[s].pc = "idle" /\ ~c[s].inTransaction
  BY DEF Init, NewUpload
<1>3. \A s \in Sessions : Knows(c[s])
  BY <1>2 DEF Knows, OpenPcs
<1>4. Owned
  BY UploadAssumption DEF Owned, Init, NoTxn
<1> QED
  BY <1>1, <1>3, <1>4 DEF OpenInv

(* An exception leads to a rollback if the session knows of a transaction,   *)
(* and so do the tries that are used up.                                     *)
LEMMA RaiseKnows ==
  ASSUME NEW r \in Client, Knows(r), NEW e
  PROVE  /\ Knows(Raise(r, e)) /\ Raise(r, e).apps = r.apps
         /\ r.pc \in OpenPcs \cup {"isserving", "rollback"} => Raise(r, e).pc = "rollback"
BY DEF Raise, NewUpload, Knows, Client, OpenPcs

(* A poll leaves what the session knows of its transaction.                  *)
LEMMA TryAgainKnows ==
  ASSUME NEW r \in Client, Knows(r), r.pc \in {"isready", "isserving"}
  PROVE  /\ Knows(TryAgain(r)) /\ TryAgain(r).apps = r.apps
         /\ TryAgain(r).pc \in {r.pc, "rollback"}
<1>1. CASE r.tries + 1 >= MaxTries
  BY <1>1, RaiseKnows DEF TryAgain, OpenPcs
<1>2. CASE ~(r.tries + 1 >= MaxTries)
  <2> DEFINE n == [r EXCEPT !.tries = r.tries + 1]
  <2>1. /\ n.pc = r.pc /\ n.apps = r.apps /\ n.inTransaction = r.inTransaction
        /\ n.told = r.told /\ n.action = r.action
    BY DEF Client
  <2>2. TryAgain(r) = n
    BY <1>2 DEF TryAgain
  <2> HIDE DEF n
  <2>3. Knows(n)
    BY <2>1 DEF Knows
  <2> QED
    BY <2>1, <2>2, <2>3
<1> QED
  BY <1>1, <1>2

(* What a step up to the end of the polling for readiness leaves alone: the  *)
(* opener of every transaction, and what the session holds.                  *)
Keeps(s) ==
  /\ c'[s].apps = c[s].apps
  /\ c[s].pc \in OpenPcs /\ c'[s].pc \in OpenPcs \cup {"rollback"}
  /\ \A b \in AppIds : txn'[b].by = txn[b].by
  /\ lost' = lost

(* A request into an open transaction does not change who opened it.         *)
LEMMA RequestKeepsOpener ==
  ASSUME TypeInv, NEW s \in Sessions, c[s].pc \notin {"idle", "end"}, NEW o \in Outcomes(txn[App(s)] # NoTxn),
         NEW t, txn[App(s)] # NoTxn => t \in Transaction /\ t.by = txn[App(s)].by,
         Execute(o[1], App(s), t)
  PROVE  \A b \in AppIds : txn'[b].by = txn[b].by
<1>1. App(s) \in AppIds
  BY AppType
<1>2. o[1] \in BOOLEAN /\ (o[1] => txn[App(s)] # NoTxn)
  BY OutcomesFacts
<1>3. /\ txn'[App(s)] = IF o[1] THEN t ELSE txn[App(s)]
      /\ \A b \in AppIds \ {App(s)} : txn'[b] = txn[b]
  BY <1>1, <1>2, ExecuteFacts DEF TypeInv, TypeOK
<1> QED
  BY <1>1, <1>2, <1>3

(* What a request adds to a transaction leaves its opener.                   *)
LEMMA TouchedWith ==
  ASSUME TypeInv, NEW s \in Sessions, NEW a \in AppIds, txn[a] # NoTxn
  PROVE  /\ Touched(s, a) \in Transaction /\ Touched(s, a).by = txn[a].by
         /\ [Touched(s, a) EXCEPT !.deployed = TRUE] \in Transaction
         /\ [Touched(s, a) EXCEPT !.deployed = TRUE].by = txn[a].by
         /\ \A uploads \in SUBSET (What \X Paths) :
              /\ [Touched(s, a) EXCEPT !.has = @ \cup uploads] \in Transaction
              /\ [Touched(s, a) EXCEPT !.has = @ \cup uploads].by = txn[a].by
<1>1. Touched(s, a) \in Transaction /\ Touched(s, a).by = txn[a].by
  BY TouchedFacts DEF TypeInv, TypeOK
<1>2. /\ [Touched(s, a) EXCEPT !.deployed = TRUE] \in Transaction
      /\ [Touched(s, a) EXCEPT !.deployed = TRUE].by = txn[a].by
  BY <1>1 DEF Transaction
<1>3. ASSUME NEW uploads \in SUBSET (What \X Paths)
      PROVE  /\ [Touched(s, a) EXCEPT !.has = @ \cup uploads] \in Transaction
             /\ [Touched(s, a) EXCEPT !.has = @ \cup uploads].by = txn[a].by
  BY <1>1 DEF Transaction
<1> QED
  BY <1>1, <1>2, <1>3

(* The calls of the upload.                                                  *)
LEMMA UploadKeeps ==
  ASSUME TypeInv, NEW s \in Sessions, Knows(c[s]),
         UploadFile(s) \/ AddToBatch(s) \/ Flush(s) \/ SendSingleFile(s)
  PROVE  Keeps(s) /\ Knows(c'[s])
<1> DEFINE r == c[s]
<1>1. /\ r \in Client /\ Busy(r) /\ r.pc = "upload"
      /\ App(s) \in AppIds /\ c \in [Sessions -> Client]
  BY AppType DEF TypeInv, TypeOK, UploadFile, AddToBatch, Flush, SendSingleFile
<1>2. ASSUME NEW e PROVE Raise(r, e).pc = "rollback" /\ Raise(r, e).apps = r.apps /\ Knows(Raise(r, e))
  BY <1>1, RaiseKnows DEF OpenPcs
<1> DEFINE Like(n) == /\ n.pc \in {"upload", "precompile"} /\ n.apps = r.apps
                      /\ n.inTransaction = r.inTransaction /\ n.told = r.told
<1>3. ASSUME NEW n, Become(s, n), Like(n) \/ \E e : n = Raise(r, e)
      PROVE  /\ c'[s].pc \in OpenPcs \cup {"rollback"} /\ c'[s].apps = r.apps
             /\ Knows(c'[s])
  BY <1>1, <1>2, <1>3 DEF Become, Knows, OpenPcs
<1>4. r.pc \in OpenPcs
  BY <1>1 DEF OpenPcs
<1>5. CASE UploadFile(s)
  <2>1. ASSUME NEW f, NEW q PROVE Like([r EXCEPT !.files = f, !.agenda = q])
    BY <1>1 DEF Client
  <2> HIDE DEF Like
  <2>2. UNCHANGED <<txn, lost>>
    BY <1>5 DEF UploadFile, Unseen
  <2>3. CASE Become(s, Raise(r, "other"))
    BY <1>3, <1>4, <2>2, <2>3 DEF Keeps
  <2>4. ASSUME NEW f, NEW q, Become(s, [r EXCEPT !.files = f, !.agenda = q])
        PROVE  Keeps(s) /\ Knows(c'[s])
    BY <1>3, <1>4, <2>1, <2>2, <2>4 DEF Keeps
  <2> QED
    BY <1>5, <2>3, <2>4 DEF UploadFile
<1>6. CASE AddToBatch(s)
  <2> DEFINE i == Head(r.agenda)
  <2>1. ASSUME NEW q PROVE Like([r EXCEPT !.agenda = q])
    BY <1>1 DEF Client
  <2>2. ASSUME NEW w, NEW b PROVE Like([Advance(r) EXCEPT !.batch[w] = b])
    BY <1>1 DEF Advance, Client
  <2> HIDE DEF Like
  <2>3. UNCHANGED <<txn, lost>>
    BY <1>6 DEF AddToBatch, Unseen
  <2>4. ASSUME NEW q, Become(s, [r EXCEPT !.agenda = q]) PROVE Keeps(s) /\ Knows(c'[s])
    BY <1>3, <1>4, <2>1, <2>3, <2>4 DEF Keeps
  <2>5. CASE Become(s, [Advance(r) EXCEPT !.batch[i.what] = Append(@, i.path)])
    BY <1>3, <1>4, <2>2, <2>3, <2>5 DEF Keeps
  <2> QED
    BY <1>6, <2>4, <2>5 DEF AddToBatch
<1>7. CASE Flush(s)
  <2> DEFINE w == Head(r.agenda).what
             uploads == {w} \X ToSet(r.batch[w])
  <2>1. w \in What /\ r.batch[w] \in Seq(Paths) /\ uploads \in SUBSET (What \X Paths)
    <3>1. <<>> \in Seq(Item) /\ PathsGiven(<<>>)
      BY DEF PathsGiven
    <3>2. Head(r.agenda) \in Item
      BY <1>1, <1>7, <3>1, AgendaTypes DEF Flush
    <3>3. w \in What
      BY <3>2 DEF Item
    <3>4. r.batch[w] \in Seq(Paths)
      BY <1>1, <3>3 DEF Client
    <3> QED
      BY <3>3, <3>4 DEF ToSet
  <2> HIDE DEF uploads
  <2>2. Like(Advance(r))
    BY <1>1 DEF Advance, Client
  <2>3. ASSUME NEW g, NEW q PROVE Like([ResetBatch(r, w) EXCEPT !.batching[w] = g, !.agenda = q])
    BY <1>1 DEF ResetBatch, Client
  <2>4. Like(Advance(Sending(ResetBatch(r, w), uploads)))
    BY <1>1 DEF Advance, Sending, ResetBatch, Client
  <2> HIDE DEF Like
  <2>5. CASE Become(s, Advance(r)) /\ UNCHANGED txn
    BY <1>3, <1>4, <1>7, <2>2, <2>5 DEF Keeps, Flush
  <2>6. CASE /\ Become(s, [ResetBatch(r, w) EXCEPT !.batching[w] = FALSE,
                              !.agenda = Singles(w, r.batch[w]) \o Tail(@)])
             /\ UNCHANGED txn
    BY <1>3, <1>4, <1>7, <2>3, <2>6 DEF Keeps, Flush
  <2>7. ASSUME NEW o \in Outcomes(txn[App(s)] # NoTxn /\ ~config.old),
               Execute(o[1], App(s), [Touched(s, App(s)) EXCEPT !.has = @ \cup uploads]),
               Become(s, IF o[2] = "ok"
                         THEN Advance(Sending(ResetBatch(r, w), uploads)) ELSE Raise(r, o[2]))
        PROVE  Keeps(s) /\ Knows(c'[s])
    <3>1. o \in Outcomes(txn[App(s)] # NoTxn)
      BY <2>7 DEF Outcomes
    <3>2. \A b \in AppIds : txn'[b].by = txn[b].by
      BY <1>1, <2>1, <2>7, <3>1, RequestKeepsOpener, TouchedWith
    <3> QED
      BY <1>3, <1>4, <1>7, <2>4, <2>7, <3>2 DEF Keeps, Flush
  <2> QED
    BY <1>7, <2>5, <2>6, <2>7 DEF Flush, uploads
<1>8. CASE SendSingleFile(s)
  <2> DEFINE uploads == {<<Head(r.agenda).what, Head(r.agenda).path>>}
  <2>1. uploads \in SUBSET (What \X Paths)
    <3>1. <<>> \in Seq(Item) /\ PathsGiven(<<>>)
      BY DEF PathsGiven
    <3>2. Head(r.agenda) \in Item /\ (Head(r.agenda).op # "flush" => Head(r.agenda).path \in Paths)
      BY <1>1, <1>8, <3>1, AgendaTypes DEF SendSingleFile
    <3> QED
      BY <1>8, <3>2 DEF Item, SendSingleFile
  <2> HIDE DEF uploads
  <2>2. Like(Advance(Sending(r, uploads)))
    BY <1>1 DEF Advance, Sending, Client
  <2> HIDE DEF Like
  <2>3. PICK o \in Outcomes(txn[App(s)] # NoTxn) :
          /\ Execute(o[1], App(s), [Touched(s, App(s)) EXCEPT !.has = @ \cup uploads])
          /\ Become(s, IF o[2] = "ok" THEN Advance(Sending(r, uploads)) ELSE Raise(r, o[2]))
    BY <1>8 DEF SendSingleFile, uploads
  <2>4. \A b \in AppIds : txn'[b].by = txn[b].by
    BY <1>1, <2>1, <2>3, RequestKeepsOpener, TouchedWith
  <2> QED
    BY <1>3, <1>4, <1>8, <2>2, <2>3, <2>4 DEF Keeps, SendSingleFile
<1> QED
  BY <1>5, <1>6, <1>7, <1>8

(* The rest of the run up to the end of the waiting for readiness.           *)
Like(r, n) ==
  /\ n.pc \in OpenPcs /\ n.apps = r.apps
  /\ n.inTransaction = r.inTransaction /\ n.told = r.told

(* A step inside the transaction stays inside, or goes to the rollback.      *)
LEMMA LikeKeeps ==
  ASSUME TypeInv, NEW s \in Sessions, Knows(c[s]), c[s].pc \in OpenPcs,
         NEW n, Become(s, n), Like(c[s], n) \/ \E e : n = Raise(c[s], e)
  PROVE  /\ c'[s].pc \in OpenPcs \cup {"rollback"} /\ c'[s].apps = c[s].apps
         /\ Knows(c'[s])
<1>1. c[s] \in Client /\ c \in [Sessions -> Client]
  BY DEF TypeInv, TypeOK
<1>2. c'[s] = n
  BY <1>1 DEF Become
<1>3. ASSUME NEW e, n = Raise(c[s], e)
      PROVE  n.pc = "rollback" /\ n.apps = c[s].apps /\ Knows(n)
  BY <1>1, <1>3, RaiseKnows
<1>4. CASE Like(c[s], n)
  BY <1>2, <1>4 DEF Like, Knows, OpenPcs
<1> QED
  BY <1>2, <1>3, <1>4

(* The steps up to IsReady keep the transaction open.                        *)
LEMMA CommitKeeps ==
  ASSUME TypeInv, NEW s \in Sessions, Knows(c[s]),
         CloneFiles(s) \/ Begun(s) \/ PrecompileBatch(s) \/ Deploy(s) \/ IsReady(s)
  PROVE  Keeps(s) /\ Knows(c'[s])
<1> DEFINE r == c[s]
           a == App(s)
<1>1. /\ r \in Client /\ r.pc \in OpenPcs /\ r.pc \notin {"idle", "end"}
      /\ a \in AppIds /\ txn \in Server
  BY AppType DEF TypeInv, TypeOK, CloneFiles, Begun, PrecompileBatch, Deploy, IsReady, OpenPcs, Server
<1>2. UNCHANGED lost
  BY DEF CloneFiles, Begun, PrecompileBatch, Deploy, IsReady, Unseen
<1> DEFINE Good(n) == Like(r, n) \/ \E e : n = Raise(r, e)
<1>3. ASSUME NEW n, Become(s, n), Good(n), \A b \in AppIds : txn'[b].by = txn[b].by
      PROVE  Keeps(s) /\ Knows(c'[s])
  BY <1>1, <1>2, <1>3, LikeKeeps DEF Keeps
<1>4. ASSUME NEW n, Become(s, n), Good(n), UNCHANGED txn
      PROVE  Keeps(s) /\ Knows(c'[s])
  BY <1>3, <1>4
<1>5. CASE CloneFiles(s)
  <2> DEFINE kind == IF \E p \in r.toClone : p[1] = "blob" THEN "blob" ELSE "file"
             left == {p \in r.toClone : p[1] = kind}
             n == IF Cardinality(left) < MaxFilesToClone THEN Cardinality(left) ELSE MaxFilesToClone
             After(chunk, absent) ==
               [r EXCEPT !.toClone = @ \ chunk, !.missing = @ \cup {p[2] : p \in absent}]
  <2>1. PICK chunk \in kSubset(n, left), o \in Outcomes(txn[a] # NoTxn) :
          \E absent \in SUBSET chunk :
            /\ Execute(o[1], a, [Touched(s, a) EXCEPT !.has = @ \cup (chunk \ absent)])
            /\ Become(s, IF o[2] = "ok" THEN After(chunk, absent) ELSE Raise(r, o[2]))
    BY <1>5 DEF CloneFiles
  <2>2. PICK absent \in SUBSET chunk :
            /\ Execute(o[1], a, [Touched(s, a) EXCEPT !.has = @ \cup (chunk \ absent)])
            /\ Become(s, IF o[2] = "ok" THEN After(chunk, absent) ELSE Raise(r, o[2]))
    BY <2>1
  <2>3. chunk \subseteq r.toClone /\ r.toClone \subseteq {"blob", "file"} \X Paths
    BY <1>1, <2>1 DEF kSubset, Client
  <2>4. chunk \ absent \in SUBSET (What \X Paths)
    BY <2>3 DEF What
  <2>5. Like(r, After(chunk, absent))
    BY <1>1, <1>5 DEF CloneFiles, Like, Client, OpenPcs
  <2>6. \A b \in AppIds : txn'[b].by = txn[b].by
    BY <1>1, <2>2, <2>4, RequestKeepsOpener, TouchedWith
  <2> HIDE DEF After
  <2> QED
    BY <1>3, <2>2, <2>5, <2>6
<1>6. CASE Begun(s)
  <2>1. ASSUME NEW f, NEW x, NEW pc \in {"precompile", "upload"}
        PROVE  Like(r, [r EXCEPT !.files = f, !.pc = pc, !.compile = x])
    BY <1>1 DEF Like, Client, OpenPcs
  <2>2. ASSUME NEW f, NEW x, NEW pc \in {"precompile", "upload"},
               Become(s, [r EXCEPT !.files = f, !.pc = pc, !.compile = x])
        PROVE  Keeps(s) /\ Knows(c'[s])
    BY <1>4, <1>6, <2>1, <2>2 DEF Begun
  <2> QED
    BY <1>6, <2>2 DEF Begun
<1>7. CASE PrecompileBatch(s)
  <2> DEFINE n(left) == [r EXCEPT !.compile = left, !.pc = IF left = {} THEN "deploy" ELSE @]
             m == [r EXCEPT !.compile = {}, !.pc = "deploy"]
  <2>1. PICK o \in Outcomes(txn[a] # NoTxn) :
          /\ Execute(o[1], a, Touched(s, a))
          /\ \/ \E left \in SUBSET {f \in AllFiles : IsApplicationFile(f)} : Become(s, n(left))
             \/ Become(s, Raise(r, o[2]))
             \/ Become(s, m)
    BY <1>7 DEF PrecompileBatch
  <2>2. \A b \in AppIds : txn'[b].by = txn[b].by
    BY <1>1, <2>1, RequestKeepsOpener, TouchedWith
  <2>3. Like(r, m)
    BY <1>1 DEF Like, Client, OpenPcs
  <2>4. ASSUME NEW left PROVE Like(r, n(left))
    BY <1>1 DEF Like, Client, OpenPcs
  <2> HIDE DEF n, m
  <2> QED
    BY <1>3, <2>1, <2>2, <2>3, <2>4
<1>8. CASE Deploy(s)
  <2> DEFINE n == [r EXCEPT !.pc = "isready", !.tries = 0]
             t == [Touched(s, a) EXCEPT !.deployed = TRUE]
  <2>1. Like(r, n)
    BY <1>1 DEF Like, Client, OpenPcs
  <2>2. \/ Become(s, Raise(r, "other")) /\ UNCHANGED txn
        \/ \E o \in Outcomes(txn[a] # NoTxn) :
             Execute(o[1], a, t) /\ Become(s, IF o[2] = "ok" THEN n ELSE Raise(r, o[2]))
    BY <1>8 DEF Deploy
  <2>3. CASE Become(s, Raise(r, "other")) /\ UNCHANGED txn
    BY <1>4, <2>3
  <2>4. ASSUME NEW o \in Outcomes(txn[a] # NoTxn), Execute(o[1], a, t),
               Become(s, IF o[2] = "ok" THEN n ELSE Raise(r, o[2]))
        PROVE  Keeps(s) /\ Knows(c'[s])
    <3>1. \A b \in AppIds : txn'[b].by = txn[b].by
      BY <1>1, <2>4, RequestKeepsOpener, TouchedWith
    <3> HIDE DEF n
    <3> QED
      BY <1>3, <2>1, <2>4, <3>1
  <2> QED
    BY <2>2, <2>3, <2>4
<1>9. CASE IsReady(s)
  <2> DEFINE n == [r EXCEPT !.pc = "startserving", !.tries = 0]
  <2>1. Like(r, n)
    BY <1>1 DEF Like, Client, OpenPcs
  <2>2. r.pc = "isready" /\ UNCHANGED txn
    BY <1>9 DEF IsReady
  <2>3. Good(TryAgain(r))
    <3>1. CASE r.tries + 1 >= MaxTries
      BY <3>1 DEF TryAgain
    <3>2. CASE ~(r.tries + 1 >= MaxTries)
      BY <1>1, <3>2 DEF TryAgain, Like, Client
    <3> QED
      BY <3>1, <3>2
  <2> HIDE DEF n
  <2>4. CASE Become(s, n)
    BY <1>4, <2>1, <2>2, <2>4
  <2>5. CASE Become(s, TryAgain(r))
    BY <1>4, <2>2, <2>3, <2>5
  <2>6. CASE \E e \in Errors : Become(s, Raise(r, e))
    BY <1>4, <2>2, <2>6
  <2> QED
    BY <1>9, <2>4, <2>5, <2>6 DEF IsReady, n
<1> QED
  BY <1>5, <1>6, <1>7, <1>8, <1>9

(* What everybody else's step leaves of a session.                           *)
LEMMA KeepsOwned ==
  ASSUME OpenInv, NEW s \in Sessions, Keeps(s), Knows(c'[s]),
         \A t \in Sessions \ {s} : c'[t] = c[t], TypeInv'
  PROVE  OpenInv'
<1>1. \A t \in Sessions : Knows(c'[t])
  BY DEF OpenInv
<1>2. ASSUME NEW t \in Sessions, NEW a \in AppIds, txn'[a].by = t
      PROVE  a \in lost'[t] \/ (c'[t].pc \in OpenPcs \cup {"rollback"} /\ Head(c'[t].apps) = a)
  <2>1. a \in lost[t] \/ (c[t].pc \in OpenPcs \cup {"rollback"} /\ Head(c[t].apps) = a)
    BY <1>2 DEF OpenInv, Owned, Holds, Keeps, App
  <2> QED
    BY <2>1 DEF Keeps
<1>3. Owned'
  BY <1>2 DEF Owned, Holds, App
<1> QED
  BY <1>1, <1>3 DEF OpenInv, Knows

(* The steps around it: what the session has open after one, and that the    *)
(* step opens nothing for another.                                           *)
LEMMA OwnedFrom ==
  ASSUME OpenInv, TypeInv', NEW s \in Sessions, NEW n \in Client, Become(s, n), Knows(n),
         \A t \in Sessions : lost[t] \subseteq lost'[t],
         \A b \in AppIds : \/ txn'[b].by \notin Sessions
                          \/ txn'[b].by = txn[b].by
                          \/ txn'[b].by = s,
         \A b \in AppIds : txn'[b].by = s =>
            \/ b \in lost'[s]
            \/ n.pc \in OpenPcs \cup {"rollback"} /\ Head(n.apps) = b
  PROVE  OpenInv'
<1>1. c'[s] = n /\ \A t \in Sessions \ {s} : c'[t] = c[t]
  BY BecomeFacts DEF OpenInv, TypeInv, TypeOK
<1>2. \A t \in Sessions : Knows(c'[t])
  BY <1>1 DEF OpenInv
<1>3. ASSUME NEW t \in Sessions, NEW b \in AppIds, txn'[b].by = t
      PROVE  b \in lost'[t] \/ (c'[t].pc \in OpenPcs \cup {"rollback"} /\ Head(c'[t].apps) = b)
  <2>1. CASE t = s
    BY <1>1, <1>3, <2>1
  <2>2. CASE t # s
    <3>1. b \in lost[t] \/ (c[t].pc \in OpenPcs \cup {"rollback"} /\ Head(c[t].apps) = b)
      BY <1>3, <2>2 DEF OpenInv, Owned, Holds, App
    <3> QED
      BY <1>1, <2>2, <3>1
  <2> QED
    BY <2>1, <2>2
<1>4. Owned'
  BY <1>3 DEF Owned, Holds, App
<1> QED
  BY <1>2, <1>4 DEF OpenInv, Knows

(* A session that holds nothing.                                             *)
LEMMA IdleOwned ==
  ASSUME OpenInv, TypeInv', NEW s \in Sessions, c[s].pc \notin OpenPcs \cup {"rollback"},
         NEW n \in Client, Become(s, n), Knows(n), UNCHANGED txn,
         \A t \in Sessions : lost[t] \subseteq lost'[t]
  PROVE  OpenInv'
<1>1. \A b \in AppIds : txn[b].by = s => b \in lost'[s]
  BY DEF OpenInv, Owned, Holds
<1> QED
  BY <1>1, OwnedFrom

(* An exception leaves what the session knows.                               *)
LEMMA RaiseIs ==
  ASSUME NEW r \in Client, Knows(r), NEW e \in Exceptions
  PROVE  Raise(r, e) \in Client /\ Knows(Raise(r, e))
BY RaiseFacts, RaiseKnows

(* Before create a session has no transaction.                               *)
LEMMA StartOpens ==
  ASSUME OpenInv, NEW s \in Sessions, TypeInv', Start(s) \/ GetResourceLimits(s)
  PROVE  OpenInv'
<1> DEFINE r == c[s]
<1>1. r \in Client /\ Knows(r) /\ r.pc \notin OpenPcs \cup {"rollback"} /\ UNCHANGED <<txn, lost>>
  BY DEF OpenInv, TypeInv, TypeOK, Start, GetResourceLimits, OpenPcs, Unseen
<1>2. \E n \in Client : Become(s, n) /\ Knows(n)
  <2>1. CASE Start(s)
    <3>1. \/ r.action = "rollback" /\ Become(s, RollbackAction(r))
          \/ Become(s, Update(r)) \/ Become(s, Raise(r, "yaml"))
      BY <2>1 DEF Start
    <3>2. Update(r) \in Client /\ Knows(Update(r))
      BY <1>1, ZenonT(60) DEF Update, Client, Pcs, Knows, OpenPcs
    <3>3. RollbackAction(r) \in Client /\ (r.action = "rollback" => Knows(RollbackAction(r)))
      BY <1>1 DEF RollbackAction, Client, Pcs, Knows, OpenPcs
    <3>4. "yaml" \in Exceptions
      BY DEF Exceptions
    <3> QED
      BY <1>1, <3>1, <3>2, <3>3, <3>4, RaiseIs
  <2>2. CASE GetResourceLimits(s)
    <3> DEFINE n == [r EXCEPT !.pc = "create", !.files = AllFiles]
    <3>1. n \in Client /\ Knows(n)
      BY <1>1, ZenonT(60) DEF Client, Pcs, Knows, OpenPcs, AllFiles
    <3>2. Become(s, n) \/ \E e \in Errors : Become(s, Raise(r, e))
      BY <2>2 DEF GetResourceLimits
    <3> HIDE DEF n
    <3>3. \A e \in Errors : e \in Exceptions
      BY DEF Errors, Exceptions
    <3> QED
      BY <1>1, <3>1, <3>2, <3>3, RaiseIs
  <2> QED
    BY <2>1, <2>2
<1> QED
  BY <1>1, <1>2, IdleOwned

(* create: opened and told, opened and not told, or refused.                 *)
LEMMA CreateOpens ==
  ASSUME OpenInv, NEW s \in Sessions, TypeInv', Create(s)
  PROVE  OpenInv'
<1> DEFINE r == c[s]
           a == App(s)
           clones == {p \in {"blob", "file"} \X r.files :
                       IF p[1] = "blob" THEN IsStaticFile(p[2]) ELSE IsApplicationFile(p[2])}
           m == [r EXCEPT !.pc = "clone", !.inTransaction = TRUE, !.told = TRUE, !.toClone = clones]
           t == [NoTxn EXCEPT !.by = s]
<1>1. r \in Client /\ Knows(r) /\ r.pc = "create" /\ a \in AppIds
  BY AppType DEF OpenInv, TypeInv, TypeOK, Create
<1>2. PICK o \in Outcomes(txn[a] = NoTxn) :
        /\ Execute(o[1], a, t)
        /\ Become(s, IF o[2] = "ok" THEN m ELSE Raise(r, o[2]))
        /\ lost' = IF o[1] /\ o[2] # "ok" THEN [lost EXCEPT ![s] = @ \cup {a}] ELSE lost
  BY DEF Create
<1>3. clones \subseteq {"blob", "file"} \X Paths
  BY <1>1 DEF Client
<1>4. m \in Client /\ Knows(m) /\ m.pc \in OpenPcs /\ m.apps = r.apps
  <2> HIDE DEF clones
  <2> QED
    BY <1>1, <1>3 DEF Client, Pcs, Knows, OpenPcs
<1>5. t \in Transaction /\ t.by = s
  BY DEF Transaction, NoTxn
<1> HIDE DEF m, t
<1>6. o[1] \in BOOLEAN /\ o[2] \in Errors \cup {"ok"} /\ (o[2] = "ok" => o[1])
  BY OutcomesFacts
<1>7. txn'[a] = (IF o[1] THEN t ELSE txn[a]) /\ \A b \in AppIds \ {a} : txn'[b] = txn[b]
  BY <1>1, <1>2, <1>5, <1>6, ExecuteFacts DEF OpenInv, TypeInv, TypeOK
<1>8. \A b \in AppIds : txn[b].by = s => b \in lost[s]
  BY <1>1 DEF OpenInv, Owned, Holds, OpenPcs
<1>9. \A x \in Sessions : lost[x] \subseteq lost'[x]
  BY <1>2 DEF OpenInv, TypeInv, TypeOK
<1>10. \A b \in AppIds : txn'[b].by = txn[b].by \/ txn'[b].by = s
  BY <1>5, <1>7
<1>11. CASE o[2] = "ok"
  <2>1. \A b \in AppIds : txn'[b].by = s => b \in lost'[s] \/ b = a
    BY <1>7, <1>8, <1>9
  <2>2. Become(s, m) /\ Head(m.apps) = a
    BY <1>2, <1>4, <1>11 DEF App
  <2> QED
    BY <1>4, <1>9, <1>10, <2>1, <2>2, OwnedFrom
<1>12. CASE o[2] # "ok"
  <2>1. \A b \in AppIds : txn'[b].by = s => b \in lost'[s]
    <3>1. CASE o[1]
      <4>1. lost'[s] = lost[s] \cup {a}
        BY <1>2, <1>12, <3>1 DEF OpenInv, TypeInv, TypeOK
      <4> QED
        BY <1>7, <1>8, <4>1
    <3>2. CASE ~o[1]
      BY <1>7, <1>8, <1>9, <3>2
    <3> QED
      BY <3>1, <3>2
  <2>2. Raise(r, o[2]) \in Client /\ Knows(Raise(r, o[2]))
    BY <1>1, <1>6, <1>12, RaiseIs DEF Errors, Exceptions
  <2>3. Become(s, Raise(r, o[2]))
    BY <1>2, <1>12
  <2> QED
    BY <1>9, <1>10, <2>1, <2>2, <2>3, OwnedFrom
<1> QED
  BY <1>11, <1>12

(* startserving closes the transaction, or its answer is lost.               *)
LEMMA StartServingOpens ==
  ASSUME OpenInv, NEW s \in Sessions, TypeInv', StartServing(s)
  PROVE  OpenInv'
<1> DEFINE r == c[s]
           a == App(s)
           m == [r EXCEPT !.pc = "isserving"]
           n == [r EXCEPT !.pc = "pagespeed", !.inTransaction = FALSE]
<1>1. r \in Client /\ Knows(r) /\ r.pc = "startserving" /\ a \in AppIds
  BY AppType DEF OpenInv, TypeInv, TypeOK, StartServing
<1>2. PICK o \in Outcomes(txn[a].deployed) :
        /\ Execute(o[1], a, NoTxn)
        /\ \/ o[2] = "ok" /\ Become(s, m)
           \/ o[2] = "ok" /\ Become(s, n)
           \/ o[2] # "ok" /\ Become(s, Raise(r, o[2]))
  BY DEF StartServing
<1>3. lost' = lost
  BY DEF StartServing
<1>4. m \in Client /\ Knows(m) /\ n \in Client /\ Knows(n)
  BY <1>1, ZenonT(60) DEF Client, Pcs, Knows, OpenPcs
<1> HIDE DEF m, n
<1>5. o[1] \in BOOLEAN /\ o[2] \in Errors \cup {"ok"} /\ (o[2] = "ok" => o[1])
  BY OutcomesFacts
<1>6. txn'[a] = (IF o[1] THEN NoTxn ELSE txn[a]) /\ \A b \in AppIds \ {a} : txn'[b] = txn[b]
  BY <1>1, <1>2, <1>5, ExecuteFacts DEF OpenInv, TypeInv, TypeOK
<1>7. NoTxn.by \notin Sessions
  BY UploadAssumption DEF NoTxn
<1>8. \A b \in AppIds \ {a} : txn[b].by = s => b \in lost[s]
  BY <1>1 DEF OpenInv, Owned, Holds, OpenPcs
<1>9. \A b \in AppIds : txn'[b].by \notin Sessions \/ txn'[b].by = txn[b].by
  BY <1>6, <1>7
<1>10. CASE o[2] = "ok"
  <2>1. \A b \in AppIds : txn'[b].by = s => b \in lost'[s]
    BY <1>3, <1>5, <1>6, <1>7, <1>8, <1>10
  <2> QED
    BY <1>2, <1>3, <1>4, <1>9, <1>10, <2>1, OwnedFrom
<1>11. CASE o[2] # "ok"
  <2>1. Raise(r, o[2]) \in Client /\ Knows(Raise(r, o[2]))
    BY <1>1, <1>5, <1>11, RaiseIs DEF Errors, Exceptions
  <2>2. Raise(r, o[2]).pc = "rollback" /\ Raise(r, o[2]).apps = r.apps
    BY <1>1, RaiseKnows DEF OpenPcs
  <2>3. \A b \in AppIds : txn'[b].by = s => b \in lost'[s] \/ Head(Raise(r, o[2]).apps) = b
    BY <1>3, <1>6, <1>8, <2>2 DEF App
  <2> QED
    BY <1>2, <1>3, <1>9, <1>11, <2>1, <2>2, <2>3, OwnedFrom
<1> QED
  BY <1>10, <1>11

(* Rollback closes the transaction, or its answer is lost.                   *)
LEMMA RollbackOpens ==
  ASSUME OpenInv, NEW s \in Sessions, TypeInv', Rollback(s)
  PROVE  OpenInv'
<1> DEFINE r == c[s]
           a == App(s)
           n == [r EXCEPT !.inTransaction = FALSE, !.files = {}]
           m == [n EXCEPT !.pc = "raised"]
           x(e) == [r EXCEPT !.pc = "raised", !.exc = e]
<1>1. r \in Client /\ Knows(r) /\ r.pc = "rollback" /\ a \in AppIds /\ r.apps # <<>>
  BY AppType DEF OpenInv, TypeInv, TypeOK, Rollback
<1>2. PICK o \in Outcomes(txn[a] # NoTxn) :
        /\ Execute(o[1], a, NoTxn)
        /\ Become(s, IF o[2] # "ok" THEN x(o[2])
                     ELSE IF n.action = "rollback" THEN NextApp(n) ELSE m)
        /\ lost' = IF ~o[1] THEN [lost EXCEPT ![s] = @ \cup {a}] ELSE lost
  BY DEF Rollback
<1>3. n \in Client /\ n.apps = r.apps /\ m \in Client /\ Knows(m)
  BY <1>1, ZenonT(60) DEF Client, Pcs, Knows, OpenPcs
<1>4. ASSUME NEW e \in Exceptions PROVE x(e) \in Client /\ Knows(x(e))
  BY <1>1 DEF Client, Pcs, Knows, OpenPcs
<1> HIDE DEF n, m, x
<1>5. NextApp(n) \in Client /\ Knows(NextApp(n))
  <2>1. NextApp(n) \in Client
    BY <1>1, <1>3, NextAppBusy
  <2> QED
    BY <2>1 DEF NextApp, NewUpload, Knows, OpenPcs
<1>6. o[1] \in BOOLEAN /\ o[2] \in Errors \cup {"ok"} /\ (o[2] = "ok" => o[1])
  BY OutcomesFacts
<1>7. txn'[a] = (IF o[1] THEN NoTxn ELSE txn[a]) /\ \A b \in AppIds \ {a} : txn'[b] = txn[b]
  BY <1>1, <1>2, <1>6, ExecuteFacts DEF OpenInv, TypeInv, TypeOK
<1>8. NoTxn.by \notin Sessions
  BY UploadAssumption DEF NoTxn
<1>9. \A b \in AppIds \ {a} : txn[b].by = s => b \in lost[s]
  BY <1>1 DEF OpenInv, Owned, Holds, OpenPcs
<1>10. \A t \in Sessions : lost[t] \subseteq lost'[t]
  BY <1>2 DEF OpenInv, TypeInv, TypeOK
<1>11. \A b \in AppIds : txn'[b].by = s => b \in lost'[s]
  <2>1. CASE o[1]
    BY <1>7, <1>8, <1>9, <1>10, <2>1
  <2>2. CASE ~o[1]
    <3>1. lost'[s] = lost[s] \cup {a}
      BY <1>2, <2>2 DEF OpenInv, TypeInv, TypeOK
    <3> QED
      BY <1>7, <1>9, <2>2, <3>1
  <2> QED
    BY <1>6, <2>1, <2>2
<1>12. \A b \in AppIds : txn'[b].by \notin Sessions \/ txn'[b].by = txn[b].by
  BY <1>7, <1>8
<1>13. \E y \in Client : Become(s, y) /\ Knows(y)
  <2>1. o[2] # "ok" => o[2] \in Exceptions
    BY <1>6 DEF Errors, Exceptions
  <2> QED
    BY <1>2, <1>3, <1>4, <1>5, <2>1
<1> QED
  BY <1>10, <1>11, <1>12, <1>13, OwnedFrom

(* The steps after the transaction.                                          *)
LEMMA EndOpens ==
  ASSUME OpenInv, NEW s \in Sessions, TypeInv',
         IsServing(s) \/ UpdatePagespeed(s) \/ Raised(s) \/ Finish(s)
  PROVE  OpenInv'
<1> DEFINE r == c[s]
<1>1. /\ r \in Client /\ Busy(r) /\ Knows(r) /\ r.pc \notin OpenPcs \cup {"rollback"}
      /\ UNCHANGED <<txn, lost>>
  BY DEF OpenInv, TypeInv, TypeOK, IsServing, UpdatePagespeed, Raised, Finish, OpenPcs, Unseen
<1>2. Ended(r) \in Client /\ Knows(Ended(r))
  <2>1. Ended(r) \in Client
    BY <1>1, EndedBusy
  <2> QED
    BY <2>1 DEF Ended, NewUpload, Knows, OpenPcs
<1>3. r.apps # <<>> => NextApp(r) \in Client /\ Knows(NextApp(r))
  <2>1. r.apps # <<>> => NextApp(r) \in Client
    BY <1>1, NextAppBusy
  <2> QED
    BY <2>1 DEF NextApp, NewUpload, Knows, OpenPcs
<1>4. \E n \in Client : Become(s, n) /\ Knows(n)
  <2>1. CASE IsServing(s)
    <3> DEFINE m == [r EXCEPT !.pc = "pagespeed", !.inTransaction = FALSE, !.tries = 0]
    <3>1. r.pc = "isserving"
      BY <2>1 DEF IsServing
    <3>2. 0 \in 0..MaxTries
      BY UploadAssumption
    <3>3. m \in Client /\ Knows(m)
      BY <1>1, <3>2, ZenonT(60) DEF Client, Pcs, Knows, OpenPcs
    <3>4. Become(s, m) \/ Become(s, TryAgain(r)) \/ \E e \in Errors : Become(s, Raise(r, e))
      BY <2>1 DEF IsServing
    <3> HIDE DEF m
    <3>5. TryAgain(r) \in Client /\ Knows(TryAgain(r))
      BY <1>1, <3>1, TryAgainType, TryAgainKnows DEF OpenInv
    <3>6. \A e \in Errors : e \in Exceptions
      BY DEF Errors, Exceptions
    <3> QED
      BY <1>1, <3>3, <3>4, <3>5, <3>6, RaiseIs
  <2>2. CASE UpdatePagespeed(s)
    <3>1. r.apps # <<>>
      BY <1>1, <2>2 DEF Busy, UpdatePagespeed
    <3>2. \/ Become(s, NextApp(r))
          \/ \E e \in {"other", "interrupt"} : Become(s, Raise(r, e))
      BY <2>2 DEF UpdatePagespeed
    <3>3. \A e \in {"other", "interrupt"} : e \in Exceptions
      BY DEF Exceptions
    <3> QED
      BY <1>1, <1>3, <3>1, <3>2, <3>3, RaiseIs
  <2>3. CASE Raised(s)
    <3>1. r.apps # <<>>
      BY <1>1, <2>3 DEF Busy, Raised
    <3> QED
      BY <1>2, <1>3, <2>3, <3>1 DEF Raised
  <2>4. CASE Finish(s)
    BY <1>2, <2>4 DEF Finish
  <2> QED
    BY <2>1, <2>2, <2>3, <2>4
<1> QED
  BY <1>1, <1>4, IdleOwned

(* A terminal that is closed leaves its transaction behind.                  *)
LEMMA KillOpens ==
  ASSUME OpenInv, NEW s \in Sessions, TypeInv', Kill(s)
  PROVE  OpenInv'
<1>1. c[s] \in Client /\ c[s].pc \notin {"idle", "end"} /\ UNCHANGED txn
  BY DEF OpenInv, TypeInv, TypeOK, Kill
<1>2. Ended(c[s]) \in Client /\ Knows(Ended(c[s])) /\ Become(s, Ended(c[s]))
  <2>1. Ended(c[s]) \in Client
    BY <1>1, EndedBusy
  <2> QED
    BY <2>1 DEF Ended, NewUpload, Knows, OpenPcs, Kill
<1>3. lost'[s] = lost[s] \cup {App(s)} /\ \A t \in Sessions : lost[t] \subseteq lost'[t]
  BY DEF Kill, OpenInv, TypeInv, TypeOK
<1>4. \A b \in AppIds : txn[b].by = s => b \in lost'[s]
  BY <1>3 DEF OpenInv, Owned, Holds
<1> QED
  BY <1>1, <1>2, <1>3, <1>4, OwnedFrom

(* Every step keeps the account of the open transactions.                    *)
LEMMA OpenStep == OpenInv /\ [Next]_vars => OpenInv'
<1> SUFFICES ASSUME OpenInv, [Next]_vars PROVE OpenInv'
  OBVIOUS
<1>1. TypeInv /\ TypeInv'
  BY TypeStep DEF OpenInv
<1>2. ASSUME NEW s \in Sessions, Steps(s) PROVE OpenInv'
  <2>1. CASE \/ UploadFile(s) \/ AddToBatch(s) \/ Flush(s) \/ SendSingleFile(s)
             \/ CloneFiles(s) \/ Begun(s) \/ PrecompileBatch(s) \/ Deploy(s) \/ IsReady(s)
    <3>1. Keeps(s) /\ Knows(c'[s])
      BY <1>1, <2>1, UploadKeeps, CommitKeeps DEF OpenInv
    <3>2. \A t \in Sessions \ {s} : c'[t] = c[t]
      BY <1>1, <2>1 DEF TypeInv, TypeOK, Become, UploadFile, AddToBatch, Flush, SendSingleFile,
         CloneFiles, Begun, PrecompileBatch, Deploy, IsReady
    <3> QED
      BY <1>1, <3>1, <3>2, KeepsOwned
  <2>2. CASE \/ Start(s) \/ GetResourceLimits(s) \/ Create(s) \/ StartServing(s)
             \/ Rollback(s) \/ IsServing(s) \/ UpdatePagespeed(s) \/ Raised(s) \/ Finish(s)
    BY <1>1, <2>2, StartOpens, CreateOpens, StartServingOpens, RollbackOpens, EndOpens
  <2> QED
    BY <1>2, <2>1, <2>2 DEF Steps
<1>3. ASSUME NEW s \in Sessions, Kill(s) PROVE OpenInv'
  BY <1>1, <1>3, KillOpens
<1>4. CASE UNCHANGED vars
  BY <1>1, <1>4 DEF vars, OpenInv, Knows, Owned, Holds, App
<1> QED
  BY <1>2, <1>3, <1>4 DEF Next, Done

(* Whatever the answers, and whenever the terminal is closed: a transaction  *)
(* that no running session is at was opened by one that lost track of it.    *)
THEOREM OrphansAreLost == Spec => []OrphanOnlyIfLost
<1>1. Spec => []OpenInv
  BY OpenInit, OpenStep, PTL DEF Spec
<1>2. OpenInv => OrphanOnlyIfLost
  BY DEF OpenInv, Owned, Holds, OrphanOnlyIfLost, Working, OpenPcs
<1> QED
  BY <1>1, <1>2, PTL

-----------------------------------------------------------------------------
(* Closing.                                                                  *)

(* What closes a transaction is startserving or a rollback.                  *)
LEMMA ClosesOwn ==
  OpenInv /\ [Next]_vars =>
    \A a \in AppIds : txn[a] # NoTxn /\ txn'[a] = NoTxn =>
      \E s \in Sessions :
        /\ c[s].pc \in {"startserving", "rollback"} /\ c'[s] # c[s] /\ App(s) = a
        /\ c[s].action = "rollback" \/ c[s].told
<1> SUFFICES ASSUME OpenInv, [Next]_vars, NEW a \in AppIds, txn[a] # NoTxn, txn'[a] = NoTxn
             PROVE  \E s \in Sessions :
                      /\ c[s].pc \in {"startserving", "rollback"} /\ c'[s] # c[s] /\ App(s) = a
                      /\ c[s].action = "rollback" \/ c[s].told
  OBVIOUS
<1>1. TypeInv /\ txn[a].by \in Sessions /\ NoTxn.by \notin Sessions
  BY UploadAssumption DEF OpenInv, TypeInv, TypeOK, Transaction, NoTxn
<1>2. ~UNCHANGED txn
  OBVIOUS
<1>3. PICK s \in Sessions : Steps(s) \/ Kill(s)
  BY <1>2 DEF Next, Done, vars
<1>4. c[s] \in Client /\ Knows(c[s])
  BY <1>1 DEF OpenInv, TypeInv, TypeOK
<1>5. ~(\/ UploadFile(s) \/ AddToBatch(s) \/ Flush(s) \/ SendSingleFile(s)
        \/ CloneFiles(s) \/ Begun(s) \/ PrecompileBatch(s) \/ Deploy(s) \/ IsReady(s))
  BY <1>1, <1>4, UploadKeeps, CommitKeeps DEF Keeps
<1>6. ~(\/ Start(s) \/ GetResourceLimits(s) \/ IsServing(s) \/ UpdatePagespeed(s)
        \/ Raised(s) \/ Finish(s) \/ Kill(s))
  BY <1>2 DEF Start, GetResourceLimits, IsServing, UpdatePagespeed, Raised, Finish, Kill
<1>7. ~Create(s)
  <2> SUFFICES ASSUME Create(s) PROVE FALSE
    OBVIOUS
  <2>1. App(s) \in AppIds /\ txn \in [AppIds -> Transaction \cup {NoTxn}]
    BY <1>1, AppType DEF Create, TypeInv, TypeOK
  <2>2. PICK o \in Outcomes(txn[App(s)] = NoTxn) : Execute(o[1], App(s), [NoTxn EXCEPT !.by = s])
    BY DEF Create
  <2>3. [NoTxn EXCEPT !.by = s].by = s
    BY DEF NoTxn
  <2> QED
    BY <1>1, <2>1, <2>2, <2>3 DEF Execute
<1>8. StartServing(s) \/ Rollback(s)
  BY <1>3, <1>5, <1>6, <1>7 DEF Steps
<1>9. c[s].pc \in {"startserving", "rollback"} /\ (c[s].action = "rollback" \/ c[s].told)
  BY <1>4, <1>8 DEF StartServing, Rollback, Knows, OpenPcs
<1>10. App(s) = a
  <2>1. \E done : Execute(done, App(s), NoTxn)
    BY <1>8 DEF StartServing, Rollback
  <2> QED
    BY <1>1, <2>1 DEF Execute, TypeInv, TypeOK
<1>11. c'[s] # c[s]
  <2>1. CASE StartServing(s)
    <3>1. c[s].pc = "startserving"
      BY <2>1 DEF StartServing
    <3>2. \A e : Raise(c[s], e).pc = "rollback"
      BY <1>4, <3>1, RaiseKnows DEF OpenPcs
    <3>3. /\ [c[s] EXCEPT !.pc = "isserving"].pc = "isserving"
          /\ [c[s] EXCEPT !.pc = "pagespeed", !.inTransaction = FALSE].pc = "pagespeed"
      BY <1>4 DEF Client
    <3>4. \E n : Become(s, n) /\ n.pc \in {"rollback", "isserving", "pagespeed"}
      BY <2>1, <3>2, <3>3 DEF StartServing
    <3> QED
      BY <1>1, <3>1, <3>4 DEF Become, TypeInv, TypeOK
  <2>2. CASE Rollback(s)
    <3>1. c[s].pc = "rollback"
      BY <2>2 DEF Rollback
    <3> DEFINE n == [c[s] EXCEPT !.inTransaction = FALSE, !.files = {}]
               m == [n EXCEPT !.pc = "raised"]
               x(e) == [c[s] EXCEPT !.pc = "raised", !.exc = e]
    <3>2. m.pc = "raised" /\ NextApp(n).pc = "idle" /\ \A e : x(e).pc = "raised"
      BY <1>4 DEF Client, NextApp, NewUpload
    <3>3. \E e : \/ Become(s, m) \/ Become(s, NextApp(n)) \/ Become(s, x(e))
      BY <2>2 DEF Rollback
    <3> HIDE DEF n, m, x
    <3> QED
      BY <1>1, <3>1, <3>2, <3>3 DEF Become, TypeInv, TypeOK
  <2> QED
    BY <1>8, <2>1, <2>2
<1> QED
  BY <1>9, <1>10, <1>11

(* No step of any session closes a transaction of which the server has not   *)
(* told that session, but for somebody's asking for the action rollback.     *)
THEOREM NobodyElsesRollback == Spec => NoForeignRollback
<1>1. Spec => []OpenInv
  BY OpenInit, OpenStep, PTL DEF Spec
<1> QED
  BY <1>1, ClosesOwn, PTL DEF Spec, NoForeignRollback

-----------------------------------------------------------------------------
(* What is still to be sent, and what was.  An upload, a path in one of its  *)
(* kinds, is in one place: its path is still to be read, a call waits with   *)
(* it, it is in a batch, or it was sent.                                     *)
Upload(i) == <<i.what, i.path>>

CallsOf(a) == {k \in 1..Len(a) : a[k].op # "flush"}

Waiting(a) == {Upload(a[k]) : k \in CallsOf(a)}

Batched(r) == {u \in What \X Paths : u[2] \in ToSet(r.batch[u[1]])}

CallsOnce(a) == \A k, l \in CallsOf(a) : Upload(a[k]) = Upload(a[l]) => k = l

NoRepeat(b) == \A k, l \in 1..Len(b) : b[k] = b[l] => k = l

Apart(r) ==
  /\ CallsOnce(r.agenda)
  /\ \A w \in What : NoRepeat(r.batch[w])
  /\ Waiting(r.agenda) \cap Batched(r) = {}
  /\ (Waiting(r.agenda) \cup Batched(r)) \cap r.sent = {}
  /\ \A u \in Waiting(r.agenda) \cup Batched(r) \cup r.sent : u[2] \notin r.files

(* Nothing is waiting and nothing was sent before the upload.                *)
Fresh(r) ==
  r.pc \in {"idle", "limits", "create", "clone"} =>
    /\ r.agenda = <<>> /\ r.sent = {}
    /\ \A w \in What : r.batch[w] = <<>>

OnceInv ==
  /\ TypeInv
  /\ \A s \in Sessions : Fresh(c[s]) /\ (c[s].pc = "upload" => Apart(c[s]))
  /\ ~twice

-----------------------------------------------------------------------------
(* Nothing is left behind.  Once the last path is read, a flush follows for  *)
(* whatever is, or is going to be, in a batch.                               *)
FlushAfter(a, k, w) == \E l \in (k + 1)..Len(a) : a[l].op = "flush" /\ a[l].what = w

AddsFlushed(a) ==
  \A k \in 1..Len(a) : a[k].op \in {"add", "put"} => FlushAfter(a, k, a[k].what)

Flushed(r) ==
  r.pc = "upload" /\ r.files = {} =>
    /\ r.agenda # <<>> /\ AddsFlushed(r.agenda)
    /\ \A w \in What : r.batch[w] # <<>> => FlushAfter(r.agenda, 0, w)

(* What a session has still to clone or to send.                             *)
Outstanding(r) == Waiting(r.agenda) \cup Batched(r) \cup (What \X r.files)

Pending(r) ==
  IF r.pc = "clone" THEN r.toClone \cup (What \X r.missing) \cup ({"errorblob"} \X Paths)
  ELSE IF r.pc = "upload" THEN Outstanding(r)
  ELSE {}

(* What the server does not hold yet of a version is pending.                *)
Covered ==
  \A s \in Sessions : c[s].pc \in OpenPcs =>
    LET t == txn[App(s)]
    IN t.by = s /\ ~t.mixed => Needed \subseteq t.has \cup Pending(c[s])

CompleteInv ==
  /\ TypeInv
  /\ \A s \in Sessions :
       /\ Flushed(c[s])
       /\ c[s].pc \in {"create", "clone"} => c[s].files = AllFiles
  /\ Covered
  /\ ServedIsComplete

-----------------------------------------------------------------------------
(* Agendas.                                                                  *)

(* Two agendas one after the other.                                          *)
LEMMA ConcatAgenda ==
  ASSUME NEW p \in Seq(Item), NEW q \in Seq(Item)
  PROVE  /\ p \o q \in Seq(Item) /\ Len(p \o q) = Len(p) + Len(q)
         /\ Len(p) \in Nat /\ Len(q) \in Nat
         /\ \A k \in 1..Len(p) : k \in 1..Len(p \o q) /\ (p \o q)[k] = p[k]
         /\ \A k \in 1..Len(q) : Len(p) + k \in 1..Len(p \o q) /\ (p \o q)[Len(p) + k] = q[k]
         /\ \A k \in 1..Len(p \o q) :
              \/ k \in 1..Len(p) /\ (p \o q)[k] = p[k]
              \/ k - Len(p) \in 1..Len(q) /\ (p \o q)[k] = q[k - Len(p)]
<1>1. /\ p \o q \in Seq(Item) /\ Len(p \o q) = Len(p) + Len(q)
      /\ Len(p) \in Nat /\ Len(q) \in Nat
      /\ \A k \in 1..(Len(p) + Len(q)) : (p \o q)[k] = IF k <= Len(p) THEN p[k] ELSE q[k - Len(p)]
  BY ConcatProperties, LenProperties
<1> DEFINE n == p \o q
<1>2. ASSUME NEW k \in 1..Len(p) PROVE k \in 1..Len(n) /\ n[k] = p[k]
  BY <1>1
<1>3. ASSUME NEW k \in 1..Len(q) PROVE Len(p) + k \in 1..Len(n) /\ n[Len(p) + k] = q[k]
  <2>1. Len(p) + k \in 1..(Len(p) + Len(q)) /\ ~(Len(p) + k <= Len(p)) /\ (Len(p) + k) - Len(p) = k
    BY <1>1
  <2> QED
    BY <1>1, <2>1
<1>4. ASSUME NEW k \in 1..Len(n), ~(k \in 1..Len(p))
      PROVE  k - Len(p) \in 1..Len(q) /\ n[k] = q[k - Len(p)]
  BY <1>1, <1>4
<1> QED
  BY <1>1, <1>2, <1>3, <1>4

(* An agenda without its head.                                               *)
LEMMA TailAgenda ==
  ASSUME NEW a \in Seq(Item), a # <<>>
  PROVE  /\ Tail(a) \in Seq(Item) /\ Len(a) \in Nat \ {0} /\ Len(Tail(a)) = Len(a) - 1
         /\ Head(a) = a[1] /\ Head(a) \in Item
         /\ \A k \in 1..Len(Tail(a)) : k + 1 \in 2..Len(a) /\ Tail(a)[k] = a[k + 1]
         /\ \A k \in 2..Len(a) : k - 1 \in 1..Len(Tail(a)) /\ Tail(a)[k - 1] = a[k]
<1>1. /\ Tail(a) \in Seq(Item) /\ Len(a) \in Nat \ {0} /\ Len(Tail(a)) = Len(a) - 1
      /\ Head(a) = a[1] /\ Head(a) \in Item
      /\ \A k \in 1..Len(Tail(a)) : Tail(a)[k] = a[k + 1]
  BY HeadTailProperties, EmptySeq, LenProperties
<1>2. \A k \in 2..Len(a) : k - 1 \in 1..Len(Tail(a)) /\ (k - 1) + 1 = k
  BY <1>1
<1>3. \A k \in 1..Len(Tail(a)) : k + 1 \in 2..Len(a)
  BY <1>1
<1> QED
  BY <1>1, <1>2, <1>3

(* What waits in an agenda, and that it waits once.                          *)
LEMMA WaitingIn ==
  ASSUME NEW a, NEW u
  PROVE  u \in Waiting(a) <=> \E k \in 1..Len(a) : a[k].op # "flush" /\ Upload(a[k]) = u
BY DEF Waiting, CallsOf

(* The calls that two agendas stand for.                                     *)
LEMMA ConcatCalls ==
  ASSUME NEW p \in Seq(Item), NEW q \in Seq(Item)
  PROVE  /\ Waiting(p \o q) = Waiting(p) \cup Waiting(q)
         /\ CallsOnce(p) /\ CallsOnce(q) /\ Waiting(p) \cap Waiting(q) = {} => CallsOnce(p \o q)
<1> DEFINE n == p \o q
<1>1. /\ Len(p) \in Nat /\ Len(q) \in Nat /\ Len(n) = Len(p) + Len(q)
      /\ \A k \in 1..Len(p) : k \in 1..Len(n) /\ n[k] = p[k]
      /\ \A k \in 1..Len(q) : Len(p) + k \in 1..Len(n) /\ n[Len(p) + k] = q[k]
      /\ \A k \in 1..Len(n) :
           \/ k \in 1..Len(p) /\ n[k] = p[k]
           \/ k - Len(p) \in 1..Len(q) /\ n[k] = q[k - Len(p)]
  BY ConcatAgenda
<1> HIDE DEF n
<1>2. ASSUME NEW u \in Waiting(n) PROVE u \in Waiting(p) \cup Waiting(q)
  <2>1. PICK k \in 1..Len(n) : n[k].op # "flush" /\ Upload(n[k]) = u
    BY <1>2, WaitingIn
  <2>2. CASE k \in 1..Len(p) /\ n[k] = p[k]
    BY <2>1, <2>2, WaitingIn
  <2>3. CASE k - Len(p) \in 1..Len(q) /\ n[k] = q[k - Len(p)]
    BY <2>1, <2>3, WaitingIn
  <2> QED
    BY <1>1, <2>2, <2>3
<1>3. ASSUME NEW u \in Waiting(p) PROVE u \in Waiting(n)
  <2>1. PICK k \in 1..Len(p) : p[k].op # "flush" /\ Upload(p[k]) = u
    BY <1>3, WaitingIn
  <2> QED
    BY <1>1, <2>1, WaitingIn
<1>4. ASSUME NEW u \in Waiting(q) PROVE u \in Waiting(n)
  <2>1. PICK k \in 1..Len(q) : q[k].op # "flush" /\ Upload(q[k]) = u
    BY <1>4, WaitingIn
  <2> QED
    BY <1>1, <2>1, WaitingIn, ZenonT(60)
<1>5. ASSUME CallsOnce(p), CallsOnce(q), Waiting(p) \cap Waiting(q) = {}
      PROVE  CallsOnce(n)
  <2> SUFFICES ASSUME NEW k \in 1..Len(n), NEW l \in 1..Len(n), n[k].op # "flush", n[l].op # "flush",
                      Upload(n[k]) = Upload(n[l])
               PROVE  k = l
    BY DEF CallsOnce, CallsOf
  <2>1. CASE k \in 1..Len(p) /\ n[k] = p[k] /\ l \in 1..Len(p) /\ n[l] = p[l]
    BY <1>5, <2>1 DEF CallsOnce, CallsOf
  <2>2. CASE /\ k - Len(p) \in 1..Len(q) /\ n[k] = q[k - Len(p)]
             /\ l - Len(p) \in 1..Len(q) /\ n[l] = q[l - Len(p)]
    <3>1. k - Len(p) = l - Len(p)
      BY <1>5, <2>2, SMTT(30) DEF CallsOnce, CallsOf
    <3> QED
      BY <1>1, <3>1
  <2>3. CASE k \in 1..Len(p) /\ n[k] = p[k] /\ l - Len(p) \in 1..Len(q) /\ n[l] = q[l - Len(p)]
    <3>1. Upload(n[k]) \in Waiting(p) /\ Upload(n[l]) \in Waiting(q)
      BY <2>3, WaitingIn
    <3> QED
      BY <1>5, <3>1
  <2>4. CASE l \in 1..Len(p) /\ n[l] = p[l] /\ k - Len(p) \in 1..Len(q) /\ n[k] = q[k - Len(p)]
    <3>1. Upload(n[l]) \in Waiting(p) /\ Upload(n[k]) \in Waiting(q)
      BY <2>4, WaitingIn
    <3> QED
      BY <1>5, <3>1
  <2> QED
    BY <1>1, <2>1, <2>2, <2>3, <2>4
<1> QED
  BY <1>2, <1>3, <1>4, <1>5 DEF n

(* The calls left when the head is done.                                     *)
LEMMA TailCalls ==
  ASSUME NEW a \in Seq(Item), a # <<>>
  PROVE  /\ Head(a).op = "flush" => Waiting(a) = Waiting(Tail(a))
         /\ Head(a).op # "flush" => Waiting(a) = Waiting(Tail(a)) \cup {Upload(Head(a))}
         /\ CallsOnce(a) =>
              /\ CallsOnce(Tail(a))
              /\ Head(a).op # "flush" => Upload(Head(a)) \notin Waiting(Tail(a))
<1> DEFINE b == Tail(a)
<1>1. /\ Len(a) \in Nat \ {0} /\ Len(b) = Len(a) - 1 /\ Head(a) = a[1]
      /\ \A k \in 1..Len(b) : k + 1 \in 2..Len(a) /\ b[k] = a[k + 1]
      /\ \A k \in 2..Len(a) : k - 1 \in 1..Len(b) /\ b[k - 1] = a[k]
  BY TailAgenda
<1> HIDE DEF b
<1>2. 1 \in 1..Len(a) /\ \A k \in 1..Len(a) : k = 1 \/ k \in 2..Len(a)
  BY <1>1
<1>3. ASSUME NEW u \in Waiting(a)
      PROVE  u \in Waiting(b) \/ (Head(a).op # "flush" /\ u = Upload(Head(a)))
  <2>1. PICK k \in 1..Len(a) : a[k].op # "flush" /\ Upload(a[k]) = u
    BY <1>3, WaitingIn
  <2>2. CASE k = 1
    BY <1>1, <2>1, <2>2
  <2>3. CASE k \in 2..Len(a)
    BY <1>1, <2>1, <2>3, WaitingIn
  <2> QED
    BY <1>2, <2>2, <2>3
<1>4. ASSUME NEW u \in Waiting(b)
      PROVE  \E k \in 2..Len(a) : k \in 1..Len(a) /\ a[k].op # "flush" /\ Upload(a[k]) = u
  <2>1. PICK k \in 1..Len(b) : b[k].op # "flush" /\ Upload(b[k]) = u
    BY <1>4, WaitingIn
  <2>2. k + 1 \in 2..Len(a) /\ k + 1 \in 1..Len(a) /\ b[k] = a[k + 1]
    BY <1>1
  <2> QED
    BY <2>1, <2>2
<1>5. Waiting(b) \subseteq Waiting(a)
  BY <1>4, WaitingIn
<1>6. Head(a).op # "flush" => Upload(Head(a)) \in Waiting(a)
  BY <1>1, <1>2, WaitingIn
<1>7. ASSUME CallsOnce(a), Head(a).op # "flush", Upload(Head(a)) \in Waiting(b) PROVE FALSE
  <2>1. PICK k \in 2..Len(a) : k \in 1..Len(a) /\ a[k].op # "flush" /\ Upload(a[k]) = Upload(a[1])
    BY <1>1, <1>4, <1>7
  <2>2. k = 1
    BY <1>1, <1>2, <1>7, <2>1 DEF CallsOnce, CallsOf
  <2> QED
    BY <2>1, <2>2
<1>8. ASSUME CallsOnce(a) PROVE CallsOnce(b)
  <2> SUFFICES ASSUME NEW k \in 1..Len(b), NEW l \in 1..Len(b), b[k].op # "flush", b[l].op # "flush",
                      Upload(b[k]) = Upload(b[l])
               PROVE  k = l
    BY DEF CallsOnce, CallsOf
  <2>1. k + 1 \in 1..Len(a) /\ l + 1 \in 1..Len(a) /\ b[k] = a[k + 1] /\ b[l] = a[l + 1]
    BY <1>1, SMTT(30)
  <2>2. k + 1 = l + 1
    BY <1>8, <2>1 DEF CallsOnce, CallsOf
  <2> QED
    BY <2>2
<1> QED
  BY <1>3, <1>5, <1>6, <1>7, <1>8 DEF b

(* The flushes that are still to come.                                       *)
LEMMA ConcatFlush ==
  ASSUME NEW p \in Seq(Item), NEW q \in Seq(Item), NEW k \in Nat, NEW j \in Nat, NEW w,
         FlushAfter(q, k, w), j <= Len(p) + k
  PROVE  FlushAfter(p \o q, j, w)
<1>1. /\ Len(p) \in Nat /\ Len(q) \in Nat /\ Len(p \o q) = Len(p) + Len(q)
      /\ \A l \in 1..Len(q) : Len(p) + l \in 1..Len(p \o q) /\ (p \o q)[Len(p) + l] = q[l]
  BY ConcatAgenda
<1>2. PICK l \in (k + 1)..Len(q) : q[l].op = "flush" /\ q[l].what = w
  BY DEF FlushAfter
<1>3. l \in 1..Len(q) /\ Len(p) + l \in (j + 1)..Len(p \o q)
  BY <1>1
<1> QED
  BY <1>1, <1>2, <1>3 DEF FlushAfter

(* What is put in front of an agenda is flushed by it.                       *)
LEMMA ConcatAdds ==
  ASSUME NEW p \in Seq(Item), NEW q \in Seq(Item), AddsFlushed(q),
         \A k \in 1..Len(p) : p[k].op \in {"add", "put"} => FlushAfter(q, 0, p[k].what)
  PROVE  AddsFlushed(p \o q)
<1> DEFINE n == p \o q
<1>1. /\ Len(p) \in Nat
      /\ \A k \in 1..Len(n) :
           \/ k \in 1..Len(p) /\ n[k] = p[k]
           \/ k - Len(p) \in 1..Len(q) /\ n[k] = q[k - Len(p)]
  BY ConcatAgenda
<1> SUFFICES ASSUME NEW k \in 1..Len(n), n[k].op \in {"add", "put"}
             PROVE  FlushAfter(n, k, n[k].what)
  BY DEF AddsFlushed
<1>2. CASE k \in 1..Len(p) /\ n[k] = p[k]
  <2>1. FlushAfter(q, 0, p[k].what) /\ k <= Len(p) + 0
    BY <1>1, <1>2
  <2> QED
    BY <1>2, <2>1, ConcatFlush
<1>3. CASE k - Len(p) \in 1..Len(q) /\ n[k] = q[k - Len(p)]
  <2>1. FlushAfter(q, k - Len(p), q[k - Len(p)].what)
    BY <1>3 DEF AddsFlushed
  <2>2. k - Len(p) \in Nat /\ k <= Len(p) + (k - Len(p)) /\ k \in Nat
    BY <1>1, <1>3
  <2> QED
    BY <1>3, <2>1, <2>2, ConcatFlush
<1> QED
  BY <1>1, <1>2, <1>3

(* A flush stays ahead until it is the head.                                 *)
LEMMA TailFlush ==
  ASSUME NEW a \in Seq(Item), a # <<>>
  PROVE  /\ \A w : FlushAfter(a, 0, w) =>
              FlushAfter(Tail(a), 0, w) \/ (Head(a).op = "flush" /\ Head(a).what = w)
         /\ AddsFlushed(a) =>
              /\ AddsFlushed(Tail(a))
              /\ Head(a).op \in {"add", "put"} => FlushAfter(Tail(a), 0, Head(a).what)
<1> DEFINE b == Tail(a)
<1>1. /\ Len(a) \in Nat \ {0} /\ Len(b) = Len(a) - 1 /\ Head(a) = a[1]
      /\ \A k \in 1..Len(b) : k + 1 \in 2..Len(a) /\ b[k] = a[k + 1]
      /\ \A k \in 2..Len(a) : k - 1 \in 1..Len(b) /\ b[k - 1] = a[k]
  BY TailAgenda
<1> HIDE DEF b
<1>2. ASSUME NEW w, NEW k \in 1..Len(a), FlushAfter(a, k, w) PROVE FlushAfter(b, k - 1, w)
  <2>1. PICK l \in (k + 1)..Len(a) : a[l].op = "flush" /\ a[l].what = w
    BY <1>2 DEF FlushAfter
  <2>2. l \in 2..Len(a) /\ l - 1 \in ((k - 1) + 1)..Len(b)
    BY <1>1
  <2> QED
    BY <1>1, <2>1, <2>2 DEF FlushAfter
<1>3. 1 \in 1..Len(a) /\ 1 - 1 = 0
  BY <1>1
<1>4. ASSUME NEW w, FlushAfter(a, 0, w), ~(Head(a).op = "flush" /\ Head(a).what = w)
      PROVE  FlushAfter(b, 0, w)
  <2>1. PICK l \in (0 + 1)..Len(a) : a[l].op = "flush" /\ a[l].what = w
    BY <1>4 DEF FlushAfter
  <2>2. l # 1
    BY <1>1, <1>4, <2>1
  <2>3. l \in (1 + 1)..Len(a)
    BY <1>1, <2>2
  <2>4. FlushAfter(a, 1, w)
    BY <2>1, <2>3 DEF FlushAfter
  <2> QED
    BY <1>2, <1>3, <2>4
<1>5. ASSUME AddsFlushed(a) PROVE AddsFlushed(b)
  <2> SUFFICES ASSUME NEW k \in 1..Len(b), b[k].op \in {"add", "put"}
               PROVE  FlushAfter(b, k, b[k].what)
    BY DEF AddsFlushed
  <2>1. k + 1 \in 1..Len(a) /\ b[k] = a[k + 1] /\ (k + 1) - 1 = k
    BY <1>1
  <2>2. FlushAfter(a, k + 1, b[k].what)
    BY <1>5, <2>1 DEF AddsFlushed
  <2> QED
    BY <1>2, <2>1, <2>2
<1>6. ASSUME AddsFlushed(a), Head(a).op \in {"add", "put"} PROVE FlushAfter(b, 0, Head(a).what)
  BY <1>1, <1>2, <1>3, <1>6 DEF AddsFlushed
<1> QED
  BY <1>4, <1>5, <1>6 DEF b

-----------------------------------------------------------------------------
(* Batches.                                                                  *)

(* What is in a batch, by its places.                                        *)
LEMMA BatchedIn ==
  ASSUME NEW r \in Client, NEW w \in What, NEW f
  PROVE  /\ <<w, f>> \in Batched(r) <=> \E k \in 1..Len(r.batch[w]) : r.batch[w][k] = f
         /\ r.batch[w] \in Seq(Paths) /\ {w} \X ToSet(r.batch[w]) \subseteq Batched(r)
         /\ r.batch[w] = <<>> => <<w, f>> \notin Batched(r)
<1>1. r.batch[w] \in Seq(Paths)
  BY DEF Client
<1>2. ASSUME NEW g PROVE <<w, g>> \in Batched(r) <=> \E k \in 1..Len(r.batch[w]) : r.batch[w][k] = g
  BY <1>1 DEF Batched, ToSet
<1>3. \A g : g \in ToSet(r.batch[w]) <=> \E k \in 1..Len(r.batch[w]) : r.batch[w][k] = g
  BY <1>1 DEF ToSet
<1>4. {w} \X ToSet(r.batch[w]) \subseteq Batched(r)
  <2> SUFFICES ASSUME NEW u \in {w} \X ToSet(r.batch[w]) PROVE u \in Batched(r)
    OBVIOUS
  <2>1. u = <<w, u[2]>> /\ u[2] \in ToSet(r.batch[w])
    OBVIOUS
  <2>2. <<w, u[2]>> \in Batched(r)
    BY <1>2, <1>3, <2>1
  <2> QED
    BY <2>1, <2>2
<1>5. r.batch[w] = <<>> => <<w, f>> \notin Batched(r)
  BY <1>2
<1> QED
  BY <1>1, <1>2, <1>4, <1>5

(* The same, for every batch of every session.                               *)
LEMMA BatchedAt ==
  \A r \in Client : \A w \in What : \A g :
    <<w, g>> \in Batched(r) <=> \E k \in 1..Len(r.batch[w]) : r.batch[w][k] = g
<1> SUFFICES ASSUME NEW r \in Client, NEW w \in What, NEW g
             PROVE  <<w, g>> \in Batched(r) <=> \E k \in 1..Len(r.batch[w]) : r.batch[w][k] = g
  OBVIOUS
<1>1. r.batch[w] \in Seq(Paths)
  BY DEF Client
<1> QED
  BY <1>1 DEF Batched, ToSet

(* A batch that is emptied.                                                  *)
LEMMA BatchReset ==
  ASSUME NEW r \in Client, NEW n \in Client, NEW w \in What,
         n.batch[w] = <<>>, \A v \in What \ {w} : n.batch[v] = r.batch[v]
  PROVE  /\ Batched(n) = Batched(r) \ ({w} \X ToSet(r.batch[w]))
         /\ {w} \X ToSet(r.batch[w]) \subseteq Batched(r)
         /\ (\A v \in What : NoRepeat(r.batch[v])) => \A v \in What : NoRepeat(n.batch[v])
<1>1. NoRepeat(<<>>)
  BY DEF NoRepeat
<1>2. ASSUME NEW u \in What \X Paths
      PROVE  u \in Batched(n) <=> u \in Batched(r) \ ({w} \X ToSet(r.batch[w]))
  <2>1. u[1] \in What /\ u = <<u[1], u[2]>> /\ u[2] \in Paths
    BY <1>2
  <2>2. CASE u[1] = w
    <3>1. u \notin Batched(n)
      BY <2>1, <2>2, BatchedIn
    <3>2. u \in Batched(r) => u[2] \in ToSet(r.batch[w])
      BY <2>2 DEF Batched
    <3>3. u[2] \in ToSet(r.batch[w]) => u \in {w} \X ToSet(r.batch[w])
      BY <2>1, <2>2
    <3> QED
      BY <3>1, <3>2, <3>3
  <2>3. CASE u[1] # w
    <3>1. u \in Batched(n) <=> u \in Batched(r)
      BY <2>1, <2>3 DEF Batched
    <3> QED
      BY <2>1, <2>3, <3>1
  <2> QED
    BY <2>2, <2>3
<1>3. Batched(n) \subseteq What \X Paths /\ Batched(r) \subseteq What \X Paths
  BY DEF Batched
<1>4. Batched(n) = Batched(r) \ ({w} \X ToSet(r.batch[w]))
  BY <1>2, <1>3
<1>5. {w} \X ToSet(r.batch[w]) \subseteq Batched(r)
  BY BatchedIn
<1>6. (\A v \in What : NoRepeat(r.batch[v])) => \A v \in What : NoRepeat(n.batch[v])
  BY <1>1
<1> QED
  BY <1>4, <1>5, <1>6

(* A file put into a batch.                                                  *)
LEMMA BatchAppend ==
  ASSUME NEW r \in Client, NEW n \in Client, NEW w \in What, NEW f \in Paths,
         n.batch[w] = Append(r.batch[w], f), \A v \in What \ {w} : n.batch[v] = r.batch[v]
  PROVE  /\ Batched(n) = Batched(r) \cup {<<w, f>>}
         /\ (\A v \in What : NoRepeat(r.batch[v])) /\ <<w, f>> \notin Batched(r) =>
              \A v \in What : NoRepeat(n.batch[v])
<1> DEFINE b == r.batch[w]
           d == n.batch[w]
<1>1. /\ b \in Seq(Paths) /\ Len(b) \in Nat /\ Len(d) = Len(b) + 1
      /\ \A k \in 1..Len(b) : k \in 1..Len(d) /\ d[k] = b[k]
      /\ Len(d) \in 1..Len(d) /\ d[Len(d)] = f
      /\ \A k \in 1..Len(d) : k \in 1..Len(b) \/ k = Len(d)
  <2>1. b \in Seq(Paths) /\ d = Append(b, f)
    BY DEF Client
  <2> HIDE DEF b, d
  <2>2. /\ Len(b) \in Nat /\ Len(d) = Len(b) + 1
        /\ \A k \in 1..(Len(b) + 1) : d[k] = IF k = Len(b) + 1 THEN f ELSE b[k]
    BY <2>1, AppendProperties, LenProperties
  <2> QED
    BY <2>1, <2>2
<1>5. \A g : <<w, g>> \in Batched(n) <=> \E k \in 1..Len(n.batch[w]) : n.batch[w][k] = g
  BY BatchedAt, Zenon
<1>2. ASSUME NEW u \in What \X Paths
      PROVE  u \in Batched(n) <=> u \in Batched(r) \cup {<<w, f>>}
  <2>1. u[1] \in What /\ u = <<u[1], u[2]>> /\ u[2] \in Paths
    BY <1>2
  <2>2. CASE u[1] = w
    <3>1. <<w, u[2]>> \in Batched(n) <=> \E k \in 1..Len(d) : d[k] = u[2]
      BY <1>5, Zenon
    <3>2. u \in Batched(r) <=> \E k \in 1..Len(b) : b[k] = u[2]
      BY <2>1, <2>2, BatchedIn
    <3>3. (\E k \in 1..Len(d) : d[k] = u[2]) <=> (\E k \in 1..Len(b) : b[k] = u[2]) \/ u[2] = f
      <4> HIDE DEF b, d
      <4> QED
        BY <1>1
    <3>4. u = <<w, u[2]>> /\ (u = <<w, f>> <=> u[2] = f)
      BY <2>1, <2>2
    <3> QED
      BY <3>1, <3>2, <3>3, <3>4
  <2>3. CASE u[1] # w
    <3>1. u \in Batched(n) <=> u \in Batched(r)
      BY <2>1, <2>3 DEF Batched
    <3> QED
      BY <2>1, <2>3, <3>1
  <2> QED
    BY <2>2, <2>3
<1>3. Batched(n) \subseteq What \X Paths /\ Batched(r) \cup {<<w, f>>} \subseteq What \X Paths
  BY DEF Batched
<1>4. ASSUME NoRepeat(b), <<w, f>> \notin Batched(r) PROVE NoRepeat(d)
  <2>1. \A k \in 1..Len(b) : b[k] # f
    BY <1>4, BatchedIn
  <2> HIDE DEF b, d
  <2> QED
    BY <1>1, <1>4, <2>1 DEF NoRepeat
<1> QED
  BY <1>2, <1>3, <1>4

(* A batch that is given up: each of its files is a call.                    *)
LEMMA SinglesCalls ==
  ASSUME NEW r \in Client, NEW w \in What
  PROVE  LET q == Singles(w, r.batch[w]) IN
         /\ q \in Seq(Item) /\ (r.batch[w] # <<>> => q # <<>>)
         /\ Waiting(q) = {w} \X ToSet(r.batch[w])
         /\ NoRepeat(r.batch[w]) => CallsOnce(q)
         /\ \A k \in 1..Len(q) : q[k].op = "single"
<1> DEFINE b == r.batch[w]
           q == Singles(w, b)
<1>1. /\ b \in Seq(Paths) /\ q \in Seq(Item) /\ Len(q) = Len(b) /\ Len(b) \in Nat
      /\ \A k \in 1..Len(b) : q[k].op = "single" /\ q[k].what = w /\ q[k].path = b[k]
  <2>1. b \in Seq(Paths)
    BY DEF Client
  <2> HIDE DEF b
  <2> QED
    BY <2>1, SinglesFacts
<1>2. b # <<>> => q # <<>>
  BY <1>1, EmptySeq
<1>3. \A x : x \in ToSet(b) <=> \E k \in 1..Len(b) : b[k] = x
  BY <1>1 DEF ToSet
<1> HIDE DEF b, q
<1>4. ASSUME NEW u \in Waiting(q) PROVE u \in {w} \X ToSet(b)
  <2>1. PICK k \in 1..Len(q) : q[k].op # "flush" /\ Upload(q[k]) = u
    BY <1>4, WaitingIn
  <2>2. u = <<w, b[k]>>
    BY <1>1, <2>1 DEF Upload
  <2> QED
    BY <1>1, <1>3, <2>2
<1>5. ASSUME NEW u \in {w} \X ToSet(b) PROVE u \in Waiting(q)
  <2>1. u = <<w, u[2]>> /\ u[2] \in ToSet(b)
    OBVIOUS
  <2>2. PICK k \in 1..Len(b) : b[k] = u[2]
    BY <1>3, <2>1
  <2>3. k \in 1..Len(q) /\ q[k].op # "flush" /\ Upload(q[k]) = u
    BY <1>1, <2>1, <2>2 DEF Upload
  <2> QED
    BY <2>3, WaitingIn
<1>6. NoRepeat(b) => CallsOnce(q)
  <2> SUFFICES ASSUME NoRepeat(b), NEW k \in 1..Len(q), NEW l \in 1..Len(q),
                      Upload(q[k]) = Upload(q[l])
               PROVE  k = l
    BY DEF CallsOnce, CallsOf
  <2>1. b[k] = b[l]
    BY <1>1 DEF Upload
  <2> QED
    BY <1>1, <2>1 DEF NoRepeat
<1> QED
  BY <1>1, <1>2, <1>4, <1>5, <1>6 DEF b, q

-----------------------------------------------------------------------------
(* The calls of the upload: how they move uploads from the files to the      *)
(* agenda, the batches and the server.                                       *)

Moves(r, n, uploads) ==
  /\ n.pc \in {"upload", "precompile"} /\ n.apps = r.apps
  /\ Apart(r) => Apart(n) /\ uploads \cap r.sent = {}
  /\ Flushed(r) => Flushed(n) /\ Pending(r) \cap Needed \subseteq Pending(n) \cup uploads

(* The head of an agenda is a call or a flush.                               *)
LEMMA HeadCall ==
  ASSUME NEW r \in Client, Busy(r), r.agenda # <<>>
  PROVE  /\ r.agenda \in Seq(Item) /\ Head(r.agenda) \in Item /\ Head(r.agenda).what \in What
         /\ Head(r.agenda).op # "flush" =>
              Head(r.agenda).path \in Paths /\ Upload(Head(r.agenda)) \in What \X Paths
<1>1. <<>> \in Seq(Item) /\ PathsGiven(<<>>)
  BY DEF PathsGiven
<1>2. Head(r.agenda) \in Item /\ (Head(r.agenda).op # "flush" => Head(r.agenda).path \in Paths)
  BY <1>1, AgendaTypes
<1> QED
  BY <1>2 DEF Client, Item, Upload

(* What is pending while files are uploaded, and after.                      *)
LEMMA PendingIs ==
  ASSUME NEW n
  PROVE  /\ n.pc = "upload" => Pending(n) = Outstanding(n)
         /\ n.pc = "precompile" => Pending(n) = {}
BY DEF Pending

(* An empty agenda.                                                          *)
LEMMA NothingWaiting ==
  ASSUME NEW a, Len(a) = 0
  PROVE  Waiting(a) = {}
<1>1. \A u : u \notin Waiting(a)
  BY WaitingIn
<1> QED
  BY <1>1

(* Empty batches.                                                            *)
LEMMA NothingBatched ==
  ASSUME NEW r \in Client, \A w \in What : r.batch[w] = <<>>
  PROVE  Batched(r) = {}
<1> SUFFICES ASSUME NEW u \in Batched(r) PROVE FALSE
  OBVIOUS
<1>1. u[1] \in What /\ u = <<u[1], u[2]>>
  BY DEF Batched
<1> QED
  BY <1>1, BatchedIn

(* The session after its call: what waits is the rest of the agenda.         *)
LEMMA Advanced ==
  ASSUME NEW r \in Client, r.pc = "upload", r.agenda # <<>>, Flushed(r),
         NEW n \in Client, n.agenda = Tail(r.agenda), n.files = r.files,
         n.pc = IF Len(r.agenda) = 1 /\ r.files = {} THEN "precompile" ELSE "upload",
         r.files = {} => \A w \in What : n.batch[w] # <<>> => FlushAfter(n.agenda, 0, w)
  PROVE  Flushed(n) /\ Pending(n) = Outstanding(n)
<1>1. /\ r.agenda \in Seq(Item) /\ n.agenda \in Seq(Item)
      /\ Len(r.agenda) \in Nat \ {0} /\ Len(n.agenda) = Len(r.agenda) - 1
  <2>1. r.agenda \in Seq(Item) /\ n.agenda \in Seq(Item)
    BY DEF Client
  <2> QED
    BY <2>1, TailAgenda
<1>2. Flushed(n)
  <2> SUFFICES ASSUME n.pc = "upload", n.files = {}
               PROVE  n.agenda # <<>> /\ AddsFlushed(n.agenda)
    BY DEF Flushed
  <2>1. Len(r.agenda) # 1
    OBVIOUS
  <2>2. AddsFlushed(n.agenda)
    BY <1>1, TailFlush DEF Flushed
  <2>3. n.agenda # <<>>
    <3> DEFINE b == n.agenda
    <3>1. b \in Seq(Item) /\ Len(b) # 0
      BY <1>1, <2>1
    <3> HIDE DEF b
    <3>2. b # <<>>
      BY <3>1, EmptySeq
    <3> QED
      BY <3>2 DEF b
  <2> QED
    BY <2>2, <2>3
<1>3. CASE n.pc = "upload"
  BY <1>2, <1>3, PendingIs
<1>4. CASE n.pc = "precompile"
  <2>1. Len(r.agenda) = 1 /\ n.files = {} /\ Len(n.agenda) = 0
    BY <1>1, <1>4
  <2>2. Waiting(n.agenda) = {}
    BY <2>1, NothingWaiting
  <2>3. \A w \in What : n.batch[w] = <<>>
    BY <2>1 DEF FlushAfter
  <2>4. Batched(n) = {}
    BY <2>3, NothingBatched
  <2>5. Outstanding(n) = {}
    BY <2>1, <2>2, <2>4 DEF Outstanding
  <2> QED
    BY <1>2, <1>4, <2>5, PendingIs
<1> QED
  BY <1>3, <1>4

(* AddToBatch puts calls in the place of its own.                            *)
LEMMA OpsCalls ==
  ASSUME NEW i \in Item, i.op # "flush", i.path \in Paths,
         NEW ops, ops = <<"flush", "put">> \/ ops = <<"single">>
  PROVE  LET q == [k \in 1..Len(ops) |-> [i EXCEPT !.op = ops[k]]]
         IN /\ q \in Seq(Item) /\ q # <<>>
            /\ Waiting(q) = {Upload(i)} /\ CallsOnce(q)
            /\ \A k \in 1..Len(q) : q[k].what = i.what
<1> DEFINE q == [k \in 1..Len(ops) |-> [i EXCEPT !.op = ops[k]]]
<1>1. Len(ops) \in Nat \ {0} /\ \E m \in 1..Len(ops) : \A k \in 1..Len(ops) : ops[k] # "flush" <=> k = m
  <2>1. CASE ops = <<"flush", "put">>
    <3>1. Len(ops) = 2 /\ ops[1] = "flush" /\ ops[2] = "put"
      BY <2>1
    <3>2. \A k \in 1..2 : ops[k] # "flush" <=> k = 2
      BY <3>1
    <3> QED
      BY <3>1, <3>2
  <2>2. CASE ops = <<"single">>
    <3>1. Len(ops) = 1 /\ ops[1] = "single"
      BY <2>2
    <3>2. \A k \in 1..1 : ops[k] # "flush" <=> k = 1
      BY <3>1
    <3> QED
      BY <3>1, <3>2
  <2> QED
    BY <2>1, <2>2
<1>2. \A k \in 1..Len(ops) : q[k].op = ops[k] /\ q[k].what = i.what /\ q[k].path = i.path
  BY DEF Item
<1>3. q \in Seq(Item) /\ Len(q) = Len(ops)
  <2>1. q \in Seq(Item)
    BY OpsType
  <2> QED
    BY <1>1, <2>1
<1>4. q # <<>>
  BY <1>1, <1>3
<1> HIDE DEF q
<1>5. PICK m \in 1..Len(ops) : \A k \in 1..Len(ops) : ops[k] # "flush" <=> k = m
  BY <1>1
<1>6. \A k \in 1..Len(q) : (q[k].op # "flush" <=> k = m) /\ Upload(q[k]) = Upload(i)
  BY <1>2, <1>3, <1>5 DEF Upload
<1>7. \A u : u \in Waiting(q) <=> u = Upload(i)
  BY <1>3, <1>5, <1>6, WaitingIn
<1>8. CallsOnce(q)
  BY <1>6 DEF CallsOnce, CallsOf
<1> QED
  BY <1>2, <1>3, <1>4, <1>7, <1>8 DEF q

(* AddToBatch: an item replaced by others for the same file.                 *)
LEMMA ReplaceMoves ==
  ASSUME NEW r \in Client, Busy(r), r.pc = "upload", r.agenda # <<>>,
         Head(r.agenda).op \in {"add", "put"},
         NEW q \in Seq(Item), q # <<>>, Waiting(q) = {Upload(Head(r.agenda))}, CallsOnce(q),
         \A k \in 1..Len(q) : q[k].what = Head(r.agenda).what,
         NEW n \in Client, n.agenda = q \o Tail(r.agenda), n.files = r.files, n.batch = r.batch,
         n.sent = r.sent, n.pc = r.pc, n.apps = r.apps
  PROVE  Moves(r, n, {})
<1> DEFINE a == r.agenda
           b == Tail(a)
<1>1. /\ a \in Seq(Item) /\ b \in Seq(Item) /\ Len(q) \in Nat \ {0}
      /\ Head(a).op # "flush" /\ n.agenda = q \o b /\ Len(n.agenda) # 0
  <2>1. a \in Seq(Item) /\ b \in Seq(Item)
    BY HeadCall, TailAgenda
  <2>2. Len(q) \in Nat \ {0}
    BY EmptySeq, LenProperties
  <2> HIDE DEF a, b
  <2>3. Len(q \o b) = Len(q) + Len(b) /\ Len(b) \in Nat
    BY <2>1, ConcatAgenda
  <2> QED
    BY <2>1, <2>2, <2>3 DEF a, b
<1>2. /\ Waiting(a) = Waiting(b) \cup {Upload(Head(a))}
      /\ CallsOnce(a) => CallsOnce(b) /\ Upload(Head(a)) \notin Waiting(b)
  BY <1>1, TailCalls
<1>3. Waiting(n.agenda) = Waiting(a)
  BY <1>1, <1>2, ConcatCalls
<1>4. Batched(n) = Batched(r)
  BY DEF Batched
<1>5. Apart(r) => Apart(n)
  <2> SUFFICES ASSUME Apart(r) PROVE Apart(n)
    OBVIOUS
  <2>1. CallsOnce(b) /\ Waiting(q) \cap Waiting(b) = {}
    BY <1>2 DEF Apart
  <2> HIDE DEF b
  <2>2. CallsOnce(n.agenda)
    BY <1>1, <2>1, ConcatCalls
  <2> QED
    BY <1>3, <1>4, <2>2 DEF Apart
<1>6. Flushed(r) => Flushed(n)
  <2> SUFFICES ASSUME Flushed(r), n.files = {}
               PROVE  /\ n.agenda # <<>> /\ AddsFlushed(n.agenda)
                      /\ \A w \in What : n.batch[w] # <<>> => FlushAfter(n.agenda, 0, w)
    BY DEF Flushed
  <2>1. /\ AddsFlushed(b) /\ FlushAfter(b, 0, Head(a).what)
        /\ \A w \in What : r.batch[w] # <<>> => FlushAfter(b, 0, w)
    BY <1>1, TailFlush DEF Flushed
  <2> HIDE DEF b
  <2>2. AddsFlushed(n.agenda)
    BY <1>1, <2>1, ConcatAdds
  <2>3. \A w : FlushAfter(b, 0, w) => FlushAfter(n.agenda, 0, w)
    <3>1. 0 \in Nat /\ 0 <= Len(q) + 0
      BY <1>1
    <3> QED
      BY <1>1, <3>1, ConcatFlush
  <2> QED
    BY <1>1, <2>1, <2>2, <2>3
<1>7. Pending(n) = Pending(r)
  BY <1>3, <1>4 DEF Pending, Outstanding
<1> QED
  BY <1>5, <1>6, <1>7 DEF Moves

(* The pc of a session after a call.                                         *)
Onward(r) == IF Len(r.agenda) = 1 /\ r.files = {} THEN "precompile" ELSE "upload"

(* AddToBatch: a file goes from the agenda into a batch.                     *)
LEMMA AppendMoves ==
  ASSUME NEW r \in Client, Busy(r), r.pc = "upload", r.agenda # <<>>,
         Head(r.agenda).op \in {"add", "put"},
         NEW n \in Client, n.agenda = Tail(r.agenda), n.files = r.files, n.sent = r.sent,
         n.pc = Onward(r), n.apps = r.apps,
         n.batch[Head(r.agenda).what] = Append(r.batch[Head(r.agenda).what], Head(r.agenda).path),
         \A v \in What \ {Head(r.agenda).what} : n.batch[v] = r.batch[v]
  PROVE  Moves(r, n, {})
<1> DEFINE a == r.agenda
           i == Head(a)
           b == n.agenda
<1>1. /\ a \in Seq(Item) /\ i \in Item /\ i.op # "flush" /\ i.what \in What /\ i.path \in Paths
      /\ Upload(i) = <<i.what, i.path>>
  BY HeadCall DEF Upload
<1>2. /\ Waiting(a) = Waiting(b) \cup {Upload(i)}
      /\ CallsOnce(a) => CallsOnce(b) /\ Upload(i) \notin Waiting(b)
  BY <1>1, TailCalls
<1>3. /\ Batched(n) = Batched(r) \cup {Upload(i)}
      /\ (\A v \in What : NoRepeat(r.batch[v])) /\ Upload(i) \notin Batched(r) =>
           \A v \in What : NoRepeat(n.batch[v])
  <2> HIDE DEF i
  <2>1. n.batch[i.what] = Append(r.batch[i.what], i.path) /\ \A v \in What \ {i.what} : n.batch[v] = r.batch[v]
    BY DEF i
  <2> DEFINE u == <<i.what, i.path>>
  <2>2. /\ Batched(n) = Batched(r) \cup {u}
        /\ (\A v \in What : NoRepeat(r.batch[v])) /\ u \notin Batched(r) =>
             \A v \in What : NoRepeat(n.batch[v])
    BY <1>1, <2>1, BatchAppend
  <2> QED
    BY <1>1, <2>2
<1>4. ASSUME Apart(r) PROVE Apart(n)
  <2> HIDE DEF b, i
  <2>1. CallsOnce(b) /\ Upload(i) \notin Waiting(b) /\ Upload(i) \notin Batched(r)
    BY <1>2, <1>4 DEF Apart
  <2>2. \A v \in What : NoRepeat(n.batch[v])
    BY <1>3, <1>4, <2>1 DEF Apart
  <2>3. /\ Waiting(b) \cap Batched(n) = {}
        /\ (Waiting(b) \cup Batched(n)) \cap n.sent = {}
        /\ \A u \in Waiting(b) \cup Batched(n) \cup n.sent : u[2] \notin n.files
    BY <1>2, <1>3, <1>4, <2>1 DEF Apart
  <2> QED
    BY <2>1, <2>2, <2>3 DEF Apart, b
<1>5. ASSUME Flushed(r), r.files = {}
      PROVE  \A w \in What : n.batch[w] # <<>> => FlushAfter(n.agenda, 0, w)
  <2>1. FlushAfter(b, 0, i.what) /\ \A w \in What : r.batch[w] # <<>> => FlushAfter(b, 0, w)
    BY <1>1, <1>5, TailFlush DEF Flushed
  <2> QED
    BY <2>1
<1>6. ASSUME Flushed(r) PROVE Flushed(n) /\ Pending(n) = Outstanding(n)
  BY <1>5, <1>6, Advanced DEF Onward
<1>7. Pending(r) \subseteq Outstanding(n)
  BY <1>2, <1>3, PendingIs DEF Outstanding
<1> QED
  BY <1>4, <1>6, <1>7 DEF Moves, Onward

(* The flush of an empty batch, and of one whose batch the server took.      *)
LEMMA FlushMoves ==
  ASSUME NEW r \in Client, Busy(r), r.pc = "upload", r.agenda # <<>>,
         Head(r.agenda).op = "flush", NEW w, w = Head(r.agenda).what,
         NEW uploads, uploads = {w} \X ToSet(r.batch[w]),
         NEW n \in Client, n.agenda = Tail(r.agenda), n.files = r.files, n.sent = r.sent \cup uploads,
         n.pc = Onward(r), n.apps = r.apps,
         n.batch[w] = <<>>, \A v \in What \ {w} : n.batch[v] = r.batch[v]
  PROVE  Moves(r, n, uploads)
<1> DEFINE a == r.agenda
           b == n.agenda
<1>1. a \in Seq(Item) /\ w \in What
  BY HeadCall
<1>2. Waiting(a) = Waiting(b) /\ (CallsOnce(a) => CallsOnce(b))
  BY <1>1, TailCalls
<1>3. /\ Batched(n) = Batched(r) \ uploads /\ uploads \subseteq Batched(r)
      /\ (\A v \in What : NoRepeat(r.batch[v])) => \A v \in What : NoRepeat(n.batch[v])
  BY <1>1, BatchReset
<1>4. ASSUME Apart(r) PROVE Apart(n) /\ uploads \cap r.sent = {}
  BY <1>2, <1>3, <1>4 DEF Apart
<1>5. ASSUME Flushed(r), r.files = {}
      PROVE  \A v \in What : n.batch[v] # <<>> => FlushAfter(n.agenda, 0, v)
  <2>1. \A v : FlushAfter(a, 0, v) => FlushAfter(b, 0, v) \/ v = w
    BY <1>1, TailFlush
  <2>2. \A v \in What : r.batch[v] # <<>> => FlushAfter(a, 0, v)
    BY <1>5 DEF Flushed
  <2> QED
    BY <2>1, <2>2
<1>6. ASSUME Flushed(r) PROVE Flushed(n) /\ Pending(n) = Outstanding(n)
  BY <1>5, <1>6, Advanced DEF Onward
<1>7. Pending(r) \subseteq Outstanding(n) \cup uploads
  BY <1>2, <1>3, PendingIs DEF Outstanding
<1> QED
  BY <1>4, <1>6, <1>7 DEF Moves, Onward

(* Where there is something, there is something with more behind it.         *)
LEMMA SomethingMore == \A m \in Nat \ {0}, k \in Nat : m + k # 0
OBVIOUS

(* The files of a batch become calls, in front of the other ones.            *)
LEMMA UnbatchedMoves ==
  ASSUME NEW r \in Client, Busy(r), r.pc = "upload", r.agenda # <<>>,
         Head(r.agenda).op = "flush", NEW w, w = Head(r.agenda).what,
         NEW q \in Seq(Item), q # <<>>, Waiting(q) = {w} \X ToSet(r.batch[w]), NoRepeat(r.batch[w]) => CallsOnce(q),
         \A k \in 1..Len(q) : q[k].op = "single",
         NEW n \in Client, n.agenda = q \o Tail(r.agenda), n.files = r.files,
         n.sent = r.sent, n.pc = r.pc, n.apps = r.apps,
         n.batch[w] = <<>>, \A v \in What \ {w} : n.batch[v] = r.batch[v]
  PROVE  Moves(r, n, {})
<1> DEFINE a == r.agenda
           b == Tail(a)
           uploads == {w} \X ToSet(r.batch[w])
<1>1. a \in Seq(Item) /\ w \in What /\ b \in Seq(Item)
  BY HeadCall, TailAgenda
<1>2. Waiting(a) = Waiting(b) /\ (CallsOnce(a) => CallsOnce(b))
  BY <1>1, TailCalls
<1>3. /\ Batched(n) = Batched(r) \ uploads /\ uploads \subseteq Batched(r)
      /\ (\A v \in What : NoRepeat(r.batch[v])) => \A v \in What : NoRepeat(n.batch[v])
  <2>1. Batched(n) = Batched(r) \ uploads
    BY <1>1, BatchReset
  <2>2. uploads \subseteq Batched(r)
    BY <1>1, BatchReset
  <2>3. (\A v \in What : NoRepeat(r.batch[v])) => \A v \in What : NoRepeat(n.batch[v])
    BY <1>1, BatchReset
  <2> QED
    BY <2>1, <2>2, <2>3
<1>4. /\ q \in Seq(Item) /\ q # <<>> /\ Waiting(q) = uploads
      /\ NoRepeat(r.batch[w]) => CallsOnce(q)
      /\ \A k \in 1..Len(q) : q[k].op = "single"
  OBVIOUS
<1>5. n.agenda = q \o b
  OBVIOUS
<1> HIDE DEF b, uploads
<1>6. /\ Waiting(n.agenda) = Waiting(q) \cup Waiting(b)
      /\ CallsOnce(q) /\ CallsOnce(b) /\ Waiting(q) \cap Waiting(b) = {} => CallsOnce(n.agenda)
  BY <1>1, <1>4, <1>5, ConcatCalls
<1>7. ASSUME Apart(r) PROVE Apart(n)
  <2>1. CallsOnce(n.agenda)
    BY <1>1, <1>2, <1>3, <1>4, <1>6, <1>7 DEF Apart
  <2>2. \A v \in What : NoRepeat(n.batch[v])
    BY <1>3, <1>7 DEF Apart
  <2>3. /\ Waiting(n.agenda) \cap Batched(n) = {}
        /\ (Waiting(n.agenda) \cup Batched(n)) \cap n.sent = {}
        /\ \A u \in Waiting(n.agenda) \cup Batched(n) \cup n.sent : u[2] \notin n.files
    BY <1>2, <1>3, <1>4, <1>6, <1>7 DEF Apart
  <2> QED
    BY <2>1, <2>2, <2>3 DEF Apart
<1>8. ASSUME Flushed(r) PROVE Flushed(n)
  <2> SUFFICES ASSUME n.files = {}
               PROVE  /\ n.agenda # <<>> /\ AddsFlushed(n.agenda)
                      /\ \A v \in What : n.batch[v] # <<>> => FlushAfter(n.agenda, 0, v)
    BY DEF Flushed
  <2>1. AddsFlushed(a) /\ \A v \in What : r.batch[v] # <<>> => FlushAfter(a, 0, v)
    BY <1>8 DEF Flushed
  <2>2. AddsFlushed(b) /\ \A v : FlushAfter(a, 0, v) => FlushAfter(b, 0, v) \/ v = w
    BY <1>1, <2>1, TailFlush DEF b
  <2>3. AddsFlushed(n.agenda)
    BY <1>1, <1>4, <1>5, <2>2, ConcatAdds
  <2>4. ASSUME NEW v, FlushAfter(b, 0, v) PROVE FlushAfter(n.agenda, 0, v)
    <3>1. 0 \in Nat /\ 0 <= Len(q) + 0
      BY LenProperties
    <3> QED
      BY <1>1, <1>4, <1>5, <2>4, <3>1, ConcatFlush
  <2>5. n.agenda # <<>>
    <3>1. /\ q \o b \in Seq(Item) /\ Len(q \o b) = Len(q) + Len(b)
          /\ Len(q) \in Nat \ {0} /\ Len(b) \in Nat
      BY <1>1, <1>4, ConcatAgenda, EmptySeq
    <3>2. Len(q \o b) # 0
      BY <3>1, SomethingMore, ZenonT(60)
    <3>3. q \o b # <<>>
      BY <3>1, <3>2, EmptySeq
    <3> QED
      BY <1>5, <3>3
  <2> QED
    BY <2>1, <2>2, <2>3, <2>4, <2>5
<1>9. Pending(r) \subseteq Pending(n)
  BY <1>2, <1>3, <1>4, <1>6, PendingIs DEF Outstanding
<1> QED
  BY <1>7, <1>8, <1>9 DEF Moves

(* Batching is given up: the files of the batch become calls.                *)
LEMMA SinglesMoves ==
  ASSUME NEW r \in Client, Busy(r), r.pc = "upload", r.agenda # <<>>,
         Head(r.agenda).op = "flush", NEW w, w = Head(r.agenda).what, r.batch[w] # <<>>,
         NEW n \in Client, n.agenda = Singles(w, r.batch[w]) \o Tail(r.agenda), n.files = r.files,
         n.sent = r.sent, n.pc = r.pc, n.apps = r.apps,
         n.batch[w] = <<>>, \A v \in What \ {w} : n.batch[v] = r.batch[v]
  PROVE  Moves(r, n, {})
<1> DEFINE q == Singles(w, r.batch[w])
<1>1. w \in What
  BY HeadCall, TailAgenda
<1>2. /\ q \in Seq(Item) /\ q # <<>> /\ Waiting(q) = {w} \X ToSet(r.batch[w])
      /\ NoRepeat(r.batch[w]) => CallsOnce(q)
      /\ \A k \in 1..Len(q) : q[k].op = "single"
  BY <1>1, SinglesCalls
<1>3. n.agenda = q \o Tail(r.agenda)
  OBVIOUS
<1> HIDE DEF q
<1> QED
  BY <1>2, <1>3, UnbatchedMoves

(* A single file that the server took.                                       *)
LEMMA SingleMoves ==
  ASSUME NEW r \in Client, Busy(r), r.pc = "upload", r.agenda # <<>>,
         Head(r.agenda).op = "single", NEW u, u = Upload(Head(r.agenda)),
         NEW n \in Client, n.agenda = Tail(r.agenda), n.files = r.files, n.sent = r.sent \cup {u},
         n.pc = Onward(r), n.apps = r.apps, n.batch = r.batch
  PROVE  Moves(r, n, {u})
<1> DEFINE a == r.agenda
           b == n.agenda
<1>1. a \in Seq(Item) /\ Head(a).op # "flush"
  BY HeadCall
<1>2. /\ Waiting(a) = Waiting(b) \cup {u}
      /\ CallsOnce(a) => CallsOnce(b) /\ u \notin Waiting(b)
  BY <1>1, TailCalls
<1>3. Batched(n) = Batched(r)
  BY DEF Batched
<1>4. ASSUME Apart(r) PROVE Apart(n) /\ {u} \cap r.sent = {}
  BY <1>2, <1>3, <1>4 DEF Apart
<1>5. ASSUME Flushed(r), r.files = {}
      PROVE  \A v \in What : n.batch[v] # <<>> => FlushAfter(n.agenda, 0, v)
  <2>1. \A v : FlushAfter(a, 0, v) => FlushAfter(b, 0, v)
    BY <1>1, TailFlush
  <2> QED
    BY <1>5, <2>1 DEF Flushed
<1>6. ASSUME Flushed(r) PROVE Flushed(n) /\ Pending(n) = Outstanding(n)
  BY <1>5, <1>6, Advanced DEF Onward
<1>7. Pending(r) \subseteq Outstanding(n) \cup {u}
  BY <1>2, <1>3, PendingIs DEF Outstanding
<1> QED
  BY <1>4, <1>6, <1>7 DEF Moves, Onward

(* The next path is handed to the batchers, the last one with the flushes.   *)
LEMMA AddsCalls ==
  ASSUME NEW f \in Paths
  PROVE  /\ Adds(f) \in Seq(Item) /\ CallsOnce(Adds(f))
         /\ \A u : u \in Waiting(Adds(f)) => u[2] = f
         /\ \A w : w \in ToSet(UploadsOf(f)) => <<w, f>> \in Waiting(Adds(f))
         /\ \A k \in 1..Len(Adds(f)) : Adds(f)[k].what \in What
<1> DEFINE q == Adds(f)
           k0 == UploadsOf(f)
<1>1. /\ q \in Seq(Item) /\ Len(q) = Len(k0)
      /\ \A k \in 1..Len(q) : q[k].op = "add" /\ q[k].what = k0[k] /\ q[k].path = f
  BY AddsFacts
<1>2. k0 \in Seq(What) /\ \A i, j \in 1..Len(k0) : k0[i] = k0[j] => i = j
  BY UploadsOfFacts
<1>3. \A w : w \in ToSet(k0) => \E k \in 1..Len(k0) : k0[k] = w
  BY <1>2 DEF ToSet
<1> HIDE DEF q, k0
<1>4. CallsOnce(q)
  BY <1>1, <1>2 DEF CallsOnce, CallsOf, Upload
<1>5. ASSUME NEW u \in Waiting(q) PROVE u[2] = f
  <2>1. PICK k \in 1..Len(q) : q[k].op # "flush" /\ Upload(q[k]) = u
    BY <1>5, WaitingIn
  <2> QED
    BY <1>1, <2>1 DEF Upload
<1>6. ASSUME NEW w \in ToSet(k0) PROVE <<w, f>> \in Waiting(q)
  <2>1. PICK k \in 1..Len(k0) : k0[k] = w
    BY <1>3
  <2>2. k \in 1..Len(q) /\ q[k].op # "flush" /\ Upload(q[k]) = <<w, f>>
    BY <1>1, <2>1 DEF Upload
  <2> QED
    BY <2>2, WaitingIn
<1>7. \A k \in 1..Len(q) : q[k].what \in What
  BY <1>1, <1>2
<1> QED
  BY <1>1, <1>4, <1>5, <1>6, <1>7 DEF q, k0

(* The last flushes are no calls.                                            *)
LEMMA FlushesCalls ==
  /\ Flushes \in Seq(Item) /\ Flushes # <<>> /\ Waiting(Flushes) = {} /\ CallsOnce(Flushes)
  /\ AddsFlushed(Flushes) /\ \A w \in What : FlushAfter(Flushes, 0, w)
<1>1. /\ Flushes \in Seq(Item) /\ Len(Flushes) = 3
      /\ \A k \in 1..3 : Flushes[k].op = "flush"
      /\ \A w \in What : \E k \in 1..3 : Flushes[k].what = w
  BY FlushesFacts
<1>2. \A u : u \notin Waiting(Flushes)
  BY <1>1, WaitingIn
<1>3. Flushes # <<>>
  BY <1>1, EmptySeq
<1>4. CallsOnce(Flushes) /\ AddsFlushed(Flushes)
  BY <1>1 DEF CallsOnce, CallsOf, AddsFlushed
<1>5. \A w \in What : FlushAfter(Flushes, 0, w)
  BY <1>1 DEF FlushAfter
<1> QED
  BY <1>1, <1>2, <1>3, <1>4, <1>5

(* Nothing to do is nothing to call.                                         *)
LEMMA NoCalls ==
  <<>> \in Seq(Item) /\ Waiting(<<>>) = {} /\ CallsOnce(<<>>)
<1>1. <<>> \in Seq(Item) /\ Len(<<>>) = 0
  OBVIOUS
<1> QED
  BY <1>1, NothingWaiting DEF CallsOnce, CallsOf

(* A file read from the disk becomes its items, and the last one the flushes. *)
LEMMA ReadMovesTo ==
  ASSUME NEW r \in Client, r.pc = "upload", r.agenda = <<>>, NEW f \in r.files,
         NEW q \in Seq(Item), CallsOnce(q), \A u : u \in Waiting(q) => u[2] = f,
         \A w : w \in ToSet(UploadsOf(f)) => <<w, f>> \in Waiting(q),
         \A k \in 1..Len(q) : q[k].what \in What,
         NEW m \in Seq(Item), Waiting(m) = {}, CallsOnce(m),
         NEW n \in Client, n.files = r.files \ {f}, n.agenda = q \o m,
         n.files = {} => m # <<>> /\ AddsFlushed(m) /\ \A w \in What : FlushAfter(m, 0, w),
         n.batch = r.batch, n.sent = r.sent, n.pc = r.pc, n.apps = r.apps
  PROVE  Moves(r, n, {})
<1>5. Waiting(n.agenda) = Waiting(q) /\ CallsOnce(n.agenda)
  <2>1. Waiting(q \o m) = Waiting(q) \cup Waiting(m)
    BY ConcatCalls
  <2>2. Waiting(q) \cap Waiting(m) = {}
    OBVIOUS
  <2>3. CallsOnce(q \o m)
    BY <2>2, ConcatCalls
  <2> QED
    BY <2>1, <2>3
<1>6. Batched(n) = Batched(r) /\ Waiting(r.agenda) = {}
  BY NoCalls DEF Batched
<1>7. ASSUME Apart(r) PROVE Apart(n)
  <2>1. \A v \in What : NoRepeat(n.batch[v])
    BY <1>7 DEF Apart
  <2>2. \A u \in Batched(r) \cup r.sent : u[2] # f /\ u[2] \notin n.files
    BY <1>7 DEF Apart
  <2>3. \A u \in Waiting(n.agenda) : u[2] = f /\ u[2] \notin n.files
    BY <1>5
  <2>4. Batched(n) \cap n.sent = {}
    BY <1>6, <1>7 DEF Apart
  <2>5. /\ Waiting(n.agenda) \cap Batched(n) = {}
        /\ (Waiting(n.agenda) \cup Batched(n)) \cap n.sent = {}
        /\ \A u \in Waiting(n.agenda) \cup Batched(n) \cup n.sent : u[2] \notin n.files
    BY <1>6, <2>2, <2>3, <2>4
  <2> QED
    BY <1>5, <2>1, <2>5 DEF Apart
<1>8. Flushed(n)
  <2> SUFFICES ASSUME n.files = {}
               PROVE  /\ n.agenda # <<>> /\ AddsFlushed(n.agenda)
                      /\ \A v \in What : n.batch[v] # <<>> => FlushAfter(n.agenda, 0, v)
    BY DEF Flushed
  <2>1. AddsFlushed(n.agenda)
    BY ConcatAdds
  <2>2. ASSUME NEW v \in What PROVE FlushAfter(n.agenda, 0, v)
    <3>1. Len(q) \in Nat
      BY LenProperties
    <3>2. 0 \in Nat /\ 0 <= Len(q) + 0
      BY <3>1
    <3>3. FlushAfter(m, 0, v)
      OBVIOUS
    <3> QED
      BY <3>2, <3>3, ConcatFlush
  <2>3. n.agenda # <<>>
    <3> DEFINE g == q \o m
    <3>1. g \in Seq(Item) /\ Len(g) = Len(q) + Len(m) /\ Len(m) \in Nat \ {0} /\ Len(q) \in Nat
      BY ConcatAgenda, EmptySeq
    <3> HIDE DEF g
    <3>2. g # <<>>
      BY <3>1, EmptySeq
    <3> QED
      BY <3>2 DEF g
  <2> QED
    BY <2>1, <2>2, <2>3
<1>9. Pending(r) \cap Needed \subseteq Pending(n)
  <2> SUFFICES ASSUME NEW u \in Outstanding(r), u \in Needed PROVE u \in Outstanding(n)
    BY PendingIs
  <2>1. CASE u \in Batched(r)
    BY <1>6, <2>1 DEF Outstanding
  <2>2. CASE u \in What \X r.files /\ u[2] # f
    BY <2>2 DEF Outstanding
  <2>3. CASE u \in What \X r.files /\ u[2] = f
    <3>1. u = <<u[1], f>> /\ u[1] \in ToSet(UploadsOf(f))
      BY <2>3 DEF Needed
    <3> QED
      BY <1>5, <3>1 DEF Outstanding
  <2> QED
    BY <1>6, <2>1, <2>2, <2>3 DEF Outstanding
<1> QED
  BY <1>7, <1>8, <1>9 DEF Moves

(* The same, for the agenda that UploadFile makes.                           *)
LEMMA ReadMoves ==
  ASSUME NEW r \in Client, r.pc = "upload", r.agenda = <<>>, NEW f \in r.files,
         NEW n \in Client, n.files = r.files \ {f},
         n.agenda = Adds(f) \o (IF r.files \ {f} = {} THEN Flushes ELSE <<>>),
         n.batch = r.batch, n.sent = r.sent, n.pc = r.pc, n.apps = r.apps
  PROVE  Moves(r, n, {})
<1>1. f \in Paths
  BY DEF Client
<1>2. /\ Adds(f) \in Seq(Item) /\ CallsOnce(Adds(f))
      /\ \A u : u \in Waiting(Adds(f)) => u[2] = f
      /\ \A w : w \in ToSet(UploadsOf(f)) => <<w, f>> \in Waiting(Adds(f))
      /\ \A k \in 1..Len(Adds(f)) : Adds(f)[k].what \in What
  BY <1>1, AddsCalls
<1>3. CASE r.files \ {f} = {}
  BY <1>2, <1>3, FlushesCalls, ReadMovesTo
<1>4. CASE r.files \ {f} # {}
  BY <1>2, <1>4, NoCalls, ReadMovesTo
<1> QED
  BY <1>3, <1>4


-----------------------------------------------------------------------------
(* What the upload's actions do: they move uploads, and the server gets      *)
(* those that are sent, or they end in an exception.                         *)
Gets(s, uploads) ==
  \/ uploads = {} /\ UNCHANGED txn
  \/ /\ txn[App(s)] # NoTxn
     /\ txn' = [txn EXCEPT ![App(s)] = [Touched(s, App(s)) EXCEPT !.has = @ \cup uploads]]

Uploads(s) ==
  \E uploads \in SUBSET (What \X Paths) :
    /\ twice' => twice \/ uploads \cap c[s].sent # {}
    /\ Apart(c[s]) => uploads \cap c[s].sent = {}
    /\ \/ \E n \in Client : Become(s, n) /\ Moves(c[s], n, uploads) /\ Gets(s, uploads)
       \/ \E e \in Exceptions : Become(s, Raise(c[s], e))

(* A step that sends nothing.                                                *)
LEMMA MovesOnly ==
  ASSUME NEW s \in Sessions, twice' = twice, UNCHANGED txn,
         NEW n \in Client, Become(s, n), Moves(c[s], n, {})
  PROVE  Uploads(s)
<1>1. Gets(s, {}) /\ {} \in SUBSET (What \X Paths) /\ {} \cap c[s].sent = {}
  BY DEF Gets
<1> QED
  BY <1>1 DEF Uploads

(* A step that sends nothing and raises.                                     *)
LEMMA RaisesOnly ==
  ASSUME NEW s \in Sessions, twice' = twice, NEW e \in Exceptions, Become(s, Raise(c[s], e))
  PROVE  Uploads(s)
<1>1. {} \in SUBSET (What \X Paths) /\ {} \cap c[s].sent = {}
  OBVIOUS
<1> QED
  BY <1>1 DEF Uploads

(* UploadFile moves a file from the list to the agenda.                      *)
LEMMA UploadFileMoves ==
  ASSUME TypeInv, NEW s \in Sessions, UploadFile(s)
  PROVE  Uploads(s)
<1> DEFINE r == c[s]
<1>1. /\ r \in Client /\ Busy(r) /\ r.pc = "upload" /\ r.agenda = <<>>
      /\ UNCHANGED <<txn, twice>>
  BY DEF TypeInv, TypeOK, UploadFile, Unseen
<1>2. ASSUME NEW f \in r.files,
             Become(s, [r EXCEPT !.files = r.files \ {f},
                         !.agenda = Adds(f) \o (IF r.files \ {f} = {} THEN Flushes ELSE <<>>)])
      PROVE  Uploads(s)
  <2> DEFINE n == [r EXCEPT !.files = r.files \ {f},
                    !.agenda = Adds(f) \o (IF r.files \ {f} = {} THEN Flushes ELSE <<>>)]
  <2>1. Adds(f) \o (IF r.files \ {f} = {} THEN Flushes ELSE <<>>) \in Seq(Item)
    <3>1. f \in Paths
      BY <1>1 DEF Client
    <3>2. Adds(f) \in Seq(Item) /\ Flushes \in Seq(Item) /\ <<>> \in Seq(Item)
      BY <3>1, AddsFacts, FlushesFacts
    <3> QED
      BY <3>2, ConcatAgenda
  <2>2. /\ n \in Client /\ n.files = r.files \ {f}
        /\ n.agenda = Adds(f) \o (IF r.files \ {f} = {} THEN Flushes ELSE <<>>)
        /\ n.batch = r.batch /\ n.sent = r.sent /\ n.pc = r.pc /\ n.apps = r.apps
    BY <1>1, <2>1 DEF Client
  <2> HIDE DEF n
  <2>3. Moves(r, n, {})
    BY <1>1, <2>2, ReadMoves
  <2>4. Become(s, n)
    BY <1>2 DEF n
  <2> QED
    BY <1>1, <2>2, <2>3, <2>4, MovesOnly
<1>3. CASE Become(s, Raise(r, "other"))
  BY <1>1, <1>3, RaisesOnly DEF Exceptions
<1> QED
  BY <1>2, <1>3 DEF UploadFile

(* AddToBatch moves a file from the agenda to a batch, or to other items.    *)
LEMMA AddToBatchMoves ==
  ASSUME TypeInv, NEW s \in Sessions, AddToBatch(s)
  PROVE  Uploads(s)
<1> DEFINE r == c[s]
           i == Head(r.agenda)
           Then(ops) == [r EXCEPT !.agenda =
                           [k \in 1..Len(ops) |-> [i EXCEPT !.op = ops[k]]] \o Tail(@)]
<1>1. /\ r \in Client /\ Busy(r) /\ r.pc = "upload" /\ r.agenda # <<>>
      /\ UNCHANGED <<txn, twice>>
  BY DEF TypeInv, TypeOK, AddToBatch, Unseen
<1>2. i \in Item /\ i.op \in {"add", "put"} /\ i.op # "flush" /\ i.path \in Paths /\ i.what \in What
  <2>1. i.op \in {"add", "put"}
    BY DEF AddToBatch
  <2> QED
    BY <1>1, <2>1, HeadCall
<1>3. \/ Become(s, Then(<<"flush", "put">>))
      \/ Become(s, Then(<<"single">>))
      \/ Become(s, [Advance(r) EXCEPT !.batch[i.what] = Append(@, i.path)])
  BY DEF AddToBatch
<1>4. ASSUME NEW ops, ops = <<"flush", "put">> \/ ops = <<"single">>, Become(s, Then(ops))
      PROVE  Uploads(s)
  <2> DEFINE q == [k \in 1..Len(ops) |-> [i EXCEPT !.op = ops[k]]]
             n == [r EXCEPT !.agenda = q \o Tail(r.agenda)]
  <2>1. /\ q \in Seq(Item) /\ q # <<>> /\ Waiting(q) = {Upload(i)} /\ CallsOnce(q)
        /\ \A k \in 1..Len(q) : q[k].what = i.what
    <3> HIDE DEF i
    <3> QED
      BY <1>2, <1>4, OpsCalls
  <2>2. Become(s, n)
    BY <1>4
  <2> HIDE DEF q
  <2>3. q \o Tail(r.agenda) \in Seq(Item)
    BY <1>1, <2>1, HeadCall, TailAgenda, ConcatAgenda
  <2>4. /\ n \in Client /\ n.agenda = q \o Tail(r.agenda) /\ n.files = r.files
        /\ n.batch = r.batch /\ n.sent = r.sent /\ n.pc = r.pc /\ n.apps = r.apps
    BY <1>1, <2>3 DEF Client
  <2> HIDE DEF n
  <2>5. Moves(r, n, {})
    BY <1>1, <1>2, <2>1, <2>4, ReplaceMoves
  <2> QED
    BY <1>1, <2>2, <2>4, <2>5, MovesOnly
<1>5. CASE Become(s, [Advance(r) EXCEPT !.batch[i.what] = Append(@, i.path)])
  <2> DEFINE v == Advance(r)
             n == [v EXCEPT !.batch[i.what] = Append(@, i.path)]
  <2>1. /\ v \in Client /\ v.agenda = Tail(r.agenda) /\ v.files = r.files /\ v.batch = r.batch
        /\ v.sent = r.sent /\ v.apps = r.apps /\ v.pc = Onward(r)
    <3>1. v \in Client
      BY <1>1, AdvanceType
    <3> QED
      BY <1>1, <3>1 DEF Advance, Client, Onward
  <2>2. Append(v.batch[i.what], i.path) \in Seq(Paths)
    <3>1. v.batch[i.what] \in Seq(Paths)
      BY <1>2, <2>1 DEF Client
    <3> QED
      BY <1>2, <3>1
  <2> HIDE DEF v
  <2>3. /\ n \in Client /\ n.agenda = v.agenda /\ n.files = v.files /\ n.sent = v.sent
        /\ n.pc = v.pc /\ n.apps = v.apps
        /\ n.batch[i.what] = Append(v.batch[i.what], i.path)
        /\ \A w \in What \ {i.what} : n.batch[w] = v.batch[w]
    BY <1>2, <2>1, <2>2 DEF Client
  <2>4. Become(s, n)
    BY <1>5 DEF v
  <2> HIDE DEF n
  <2>5. Moves(r, n, {})
    BY <1>1, <1>2, <2>1, <2>3, AppendMoves
  <2> QED
    BY <1>1, <2>3, <2>4, <2>5, MovesOnly
<1> QED
  BY <1>3, <1>4, <1>5

(* A request with uploads in it: the server takes them, or it fails.         *)
LEMMA SentMoves ==
  ASSUME TypeInv, NEW s \in Sessions, c[s].pc = "upload",
         NEW uploads \in SUBSET (What \X Paths), SentBefore(c[s], uploads),
         NEW n \in Client, Moves(c[s], n, uploads), NEW accepts, accepts => txn[App(s)] # NoTxn,
         NEW o \in Outcomes(accepts),
         Execute(o[1], App(s), [Touched(s, App(s)) EXCEPT !.has = @ \cup uploads]),
         Become(s, IF o[2] = "ok" THEN n ELSE Raise(c[s], o[2]))
  PROVE  Uploads(s)
<1>1. (o[1] => accepts) /\ o[2] \in Errors \cup {"ok"} /\ (o[2] = "ok" => o[1])
  BY OutcomesFacts
<1>2. /\ twice' => twice \/ uploads \cap c[s].sent # {}
      /\ Apart(c[s]) => uploads \cap c[s].sent = {}
  BY DEF SentBefore, Moves
<1>3. CASE o[2] = "ok"
  <2>1. Gets(s, uploads)
    BY <1>1, <1>3 DEF Gets, Execute
  <2>2. Become(s, n)
    BY <1>3
  <2> QED
    BY <1>2, <2>1, <2>2 DEF Uploads
<1>4. CASE o[2] # "ok"
  <2>1. o[2] \in Exceptions /\ Become(s, Raise(c[s], o[2]))
    BY <1>1, <1>4 DEF Errors, Exceptions
  <2> QED
    BY <1>2, <2>1 DEF Uploads
<1> QED
  BY <1>3, <1>4

(* Flush sends a batch, or makes its files calls of their own.               *)
LEMMA FlushesMove ==
  ASSUME TypeInv, NEW s \in Sessions, Flush(s)
  PROVE  Uploads(s)
<1> DEFINE r == c[s]
           w == Head(r.agenda).what
           uploads == {w} \X ToSet(r.batch[w])
<1>1. /\ r \in Client /\ Busy(r) /\ r.pc = "upload" /\ r.agenda # <<>>
      /\ Head(r.agenda).op = "flush"
  BY DEF TypeInv, TypeOK, Flush
<1>2. w \in What /\ r.batch[w] \in Seq(Paths) /\ uploads \in SUBSET (What \X Paths)
  <2>1. w \in What
    BY <1>1, HeadCall
  <2>2. r.batch[w] \in Seq(Paths)
    BY <1>1, <2>1 DEF Client
  <2>3. \A f \in ToSet(r.batch[w]) : f \in Paths
    BY <2>2 DEF ToSet
  <2> QED
    BY <2>1, <2>2, <2>3
<1>3. <<>> \in Seq(Paths)
  OBVIOUS
<1>4. CASE r.batch[w] = <<>> /\ Become(s, Advance(r)) /\ UNCHANGED <<txn, twice>>
  <2> DEFINE n == Advance(r)
  <2>1. /\ n \in Client /\ n.agenda = Tail(r.agenda) /\ n.files = r.files /\ n.batch = r.batch
        /\ n.sent = r.sent /\ n.apps = r.apps /\ n.pc = Onward(r)
    <3>1. n \in Client
      BY <1>1, AdvanceType
    <3> QED
      BY <1>1, <3>1 DEF Advance, Client, Onward
  <2> HIDE DEF n
  <2>2. uploads = {}
    BY <1>4 DEF ToSet
  <2>3. n.sent = r.sent \cup uploads /\ n.batch[w] = <<>>
    BY <1>4, <2>1, <2>2
  <2>4. Moves(r, n, uploads)
    <3> HIDE DEF uploads
    <3>1. uploads = {w} \X ToSet(r.batch[w])
      BY DEF uploads
    <3> QED
      BY <1>1, <2>1, <2>3, <3>1, FlushMoves
  <2>5. Moves(r, n, {})
    BY <2>2, <2>4
  <2> QED
    BY <1>4, <2>1, <2>5, MovesOnly DEF n
<1>5. CASE /\ r.batch[w] # <<>>
           /\ Become(s, [ResetBatch(r, w) EXCEPT !.batching[w] = FALSE,
                            !.agenda = Singles(w, r.batch[w]) \o Tail(@)])
           /\ UNCHANGED <<txn, twice>>
  <2> DEFINE v == ResetBatch(r, w)
             q == Singles(w, r.batch[w])
             n == [v EXCEPT !.batching[w] = FALSE, !.agenda = q \o Tail(r.agenda)]
  <2>1. /\ v \in Client /\ v.agenda = r.agenda /\ v.pc = r.pc /\ v.apps = r.apps
        /\ v.files = r.files /\ v.sent = r.sent
        /\ v.batch[w] = <<>> /\ \A u \in What \ {w} : v.batch[u] = r.batch[u]
    BY <1>1, <1>2, <1>3 DEF ResetBatch, Client
  <2>2. q \o Tail(r.agenda) \in Seq(Item)
    <3>1. q \in Seq(Item)
      BY <1>2, SinglesFacts
    <3>2. Tail(r.agenda) \in Seq(Item)
      BY <1>1, HeadCall, TailAgenda
    <3> QED
      BY <3>1, <3>2, ConcatAgenda
  <2>3. Become(s, [v EXCEPT !.batching[w] = FALSE, !.agenda = q \o Tail(@)])
    BY <1>5
  <2> HIDE DEF v, q
  <2>4. Become(s, n)
    BY <2>1, <2>3
  <2>5. /\ n \in Client /\ n.agenda = q \o Tail(r.agenda) /\ n.pc = r.pc /\ n.apps = r.apps
        /\ n.files = r.files /\ n.sent = r.sent /\ n.batch = v.batch
    BY <1>2, <2>1, <2>2 DEF Client
  <2> HIDE DEF n
  <2>6. n.batch[w] = <<>> /\ \A u \in What \ {w} : n.batch[u] = r.batch[u]
    BY <2>1, <2>5
  <2>7. Moves(r, n, {})
    BY <1>1, <1>5, <2>5, <2>6, SinglesMoves DEF q
  <2> QED
    BY <1>5, <2>4, <2>5, <2>7, MovesOnly
<1>6. CASE /\ SentBefore(r, uploads)
           /\ \E o \in Outcomes(txn[App(s)] # NoTxn /\ ~config.old) :
                /\ Execute(o[1], App(s), [Touched(s, App(s)) EXCEPT !.has = @ \cup uploads])
                /\ Become(s, IF o[2] = "ok"
                             THEN Advance(Sending(ResetBatch(r, w), uploads))
                             ELSE Raise(r, o[2]))
  <2> DEFINE v == ResetBatch(r, w)
             x == Sending(v, uploads)
             n == Advance(x)
  <2>1. /\ v \in Client /\ Busy(v) /\ v.agenda = r.agenda /\ v.pc = r.pc /\ v.apps = r.apps
        /\ v.files = r.files /\ v.sent = r.sent
        /\ v.batch[w] = <<>> /\ \A u \in What \ {w} : v.batch[u] = r.batch[u]
    <3>1. Busy(v)
      BY <1>1, <1>2, ResetType
    <3> QED
      BY <1>1, <1>2, <1>3, <3>1 DEF ResetBatch, Client
  <2>2. PICK o \in Outcomes(txn[App(s)] # NoTxn /\ ~config.old) :
          /\ Execute(o[1], App(s), [Touched(s, App(s)) EXCEPT !.has = @ \cup uploads])
          /\ Become(s, IF o[2] = "ok" THEN n ELSE Raise(r, o[2]))
    BY <1>6
  <2> HIDE DEF v, uploads
  <2>3. /\ x \in Client /\ Busy(x) /\ x.agenda = v.agenda /\ x.pc = v.pc /\ x.apps = v.apps
        /\ x.files = v.files /\ x.sent = v.sent \cup uploads /\ x.batch = v.batch
    <3>1. x \in Client /\ Busy(x)
      BY <1>2, <2>1, SendingType
    <3> QED
      BY <1>2, <2>1, <3>1 DEF Sending, Client
  <2> HIDE DEF x
  <2>4. /\ n \in Client /\ n.agenda = Tail(x.agenda) /\ n.files = x.files /\ n.batch = x.batch
        /\ n.sent = x.sent /\ n.apps = x.apps
        /\ n.pc = IF Len(x.agenda) = 1 /\ x.files = {} THEN "precompile" ELSE x.pc
    <3>1. x.pc = "upload" /\ x.agenda # <<>>
      BY <1>1, <2>1, <2>3
    <3>2. n \in Client
      BY <2>3, <3>1, AdvanceType
    <3> QED
      BY <2>3, <3>2 DEF Advance, Client
  <2> HIDE DEF n
  <2>5. /\ n.agenda = Tail(r.agenda) /\ n.files = r.files /\ n.sent = r.sent \cup uploads
        /\ n.pc = Onward(r) /\ n.apps = r.apps
        /\ n.batch[w] = <<>> /\ \A u \in What \ {w} : n.batch[u] = r.batch[u]
    BY <1>1, <2>1, <2>3, <2>4 DEF Onward
  <2>6. uploads = {w} \X ToSet(r.batch[w])
    BY DEF uploads
  <2>7. Moves(r, n, uploads)
    BY <1>1, <2>4, <2>5, <2>6, FlushMoves
  <2>8. (txn[App(s)] # NoTxn /\ ~config.old) => txn[App(s)] # NoTxn
    OBVIOUS
  <2> QED
    BY <1>1, <1>2, <1>6, <2>2, <2>4, <2>7, <2>8, SentMoves
<1> QED
  BY <1>4, <1>5, <1>6 DEF Flush

(* SendSingleFile sends the file at the head.                                *)
LEMMA SendSingleMoves ==
  ASSUME TypeInv, NEW s \in Sessions, SendSingleFile(s)
  PROVE  Uploads(s)
<1> DEFINE r == c[s]
           u == Upload(Head(r.agenda))
           x == Sending(r, {u})
           n == Advance(x)
<1>1. /\ r \in Client /\ Busy(r) /\ r.pc = "upload" /\ r.agenda # <<>>
      /\ Head(r.agenda).op = "single" /\ SentBefore(r, {u})
  BY DEF TypeInv, TypeOK, SendSingleFile, Upload
<1>2. u \in What \X Paths
  <2>1. Head(r.agenda).op # "flush"
    BY <1>1
  <2> QED
    BY <1>1, <2>1, HeadCall
<1>3. PICK o \in Outcomes(txn[App(s)] # NoTxn) :
        /\ Execute(o[1], App(s), [Touched(s, App(s)) EXCEPT !.has = @ \cup {u}])
        /\ Become(s, IF o[2] = "ok" THEN n ELSE Raise(r, o[2]))
  BY DEF SendSingleFile, Upload
<1>4. u = Upload(Head(r.agenda))
  OBVIOUS
<1> HIDE DEF u
<1>5. /\ x \in Client /\ Busy(x) /\ x.agenda = r.agenda /\ x.pc = r.pc /\ x.apps = r.apps
      /\ x.files = r.files /\ x.sent = r.sent \cup {u} /\ x.batch = r.batch
  <2>1. x \in Client /\ Busy(x)
    BY <1>1, <1>2, SendingType
  <2> QED
    BY <1>1, <1>2, <2>1 DEF Sending, Client
<1> HIDE DEF x
<1>6. /\ n \in Client /\ n.agenda = Tail(x.agenda) /\ n.files = x.files /\ n.batch = x.batch
      /\ n.sent = x.sent /\ n.apps = x.apps
      /\ n.pc = IF Len(x.agenda) = 1 /\ x.files = {} THEN "precompile" ELSE x.pc
  <2>1. x.pc = "upload" /\ x.agenda # <<>>
    BY <1>1, <1>5
  <2>2. n \in Client
    BY <1>5, <2>1, AdvanceType
  <2> QED
    BY <1>5, <2>2 DEF Advance, Client
<1> HIDE DEF n
<1>7. /\ n.agenda = Tail(r.agenda) /\ n.files = r.files /\ n.sent = r.sent \cup {u}
      /\ n.pc = Onward(r) /\ n.apps = r.apps /\ n.batch = r.batch
  BY <1>1, <1>5, <1>6 DEF Onward
<1>8. Moves(r, n, {u})
  BY <1>1, <1>4, <1>6, <1>7, SingleMoves
<1>9. {u} \in SUBSET (What \X Paths) /\ (txn[App(s)] # NoTxn => txn[App(s)] # NoTxn)
  BY <1>2
<1> QED
  BY <1>1, <1>3, <1>6, <1>8, <1>9, SentMoves

(* Each step of the upload moves or sends a file.                            *)
LEMMA UploadsMove ==
  ASSUME TypeInv, NEW s \in Sessions,
         UploadFile(s) \/ AddToBatch(s) \/ Flush(s) \/ SendSingleFile(s)
  PROVE  Uploads(s) /\ c[s].pc = "upload"
BY UploadFileMoves, AddToBatchMoves, FlushesMove, SendSingleMoves
   DEF UploadFile, AddToBatch, Flush, SendSingleFile

-----------------------------------------------------------------------------
(* Each file is sent once.                                                   *)

(* The sessions that no upload is behind, or is behind them.                 *)
LEMMA OnceFrom ==
  ASSUME OnceInv, TypeInv', NEW s \in Sessions, NEW n \in Client, Become(s, n),
         Fresh(n), n.pc = "upload" => Apart(n), ~twice'
  PROVE  OnceInv'
<1>1. c'[s] = n /\ \A t \in Sessions \ {s} : c'[t] = c[t]
  BY BecomeFacts DEF OnceInv, TypeInv, TypeOK
<1>2. \A t \in Sessions : Fresh(c'[t]) /\ (c'[t].pc = "upload" => Apart(c'[t]))
  BY <1>1 DEF OnceInv
<1> QED
  BY <1>2 DEF OnceInv, Fresh, Apart, Batched, CallsOnce, NoRepeat, Waiting, CallsOf, Upload

(* After an exception, or for the next app id, nothing is sent yet.          *)
LEMMA NewIsFresh ==
  ASSUME NEW r
  PROVE  /\ \A e : Fresh(Raise(r, e)) /\ Raise(r, e).pc # "upload"
         /\ Fresh(NextApp(r)) /\ NextApp(r).pc # "upload"
         /\ Fresh(Ended(r)) /\ Ended(r).pc # "upload"
BY DEF Fresh, Raise, NextApp, Ended, NewUpload

(* A step that leaves the batches and the agenda alone.                      *)
LEMMA StillFresh ==
  ASSUME NEW r, NEW n, Fresh(r), n.pc # "upload",
         n.pc \in {"idle", "limits", "create", "clone"} => r.pc \in {"idle", "limits", "create", "clone"},
         n.agenda = r.agenda, n.sent = r.sent, n.batch = r.batch
  PROVE  Fresh(n) /\ (n.pc = "upload" => Apart(n))
BY DEF Fresh

(* When the upload begins, nothing is sent or under way.                     *)
LEMMA BegunApart ==
  ASSUME NEW r \in Client, Fresh(r), r.pc = "clone",
         NEW n \in Client, n.agenda = r.agenda, n.sent = r.sent, n.batch = r.batch,
         n.pc \in {"upload", "precompile"}
  PROVE  Fresh(n) /\ Apart(n)
<1>1. n.agenda = <<>> /\ n.sent = {} /\ \A w \in What : n.batch[w] = <<>>
  BY DEF Fresh
<1>2. Waiting(n.agenda) = {} /\ CallsOnce(n.agenda) /\ Batched(n) = {}
  BY <1>1, NoCalls, NothingBatched
<1>3. \A w \in What : NoRepeat(n.batch[w])
  BY <1>1 DEF NoRepeat
<1> QED
  BY <1>1, <1>2, <1>3 DEF Fresh, Apart

(* At first nothing is sent.                                                 *)
LEMMA OnceInit == Init => OnceInv
<1> SUFFICES ASSUME Init PROVE OnceInv
  OBVIOUS
<1>1. TypeInv
  BY TypeInit
<1>2. \A s \in Sessions : Fresh(c[s]) /\ c[s].pc = "idle"
  BY DEF Init, NewUpload, Fresh
<1> QED
  BY <1>1, <1>2 DEF OnceInv, Init

(* What a session becomes by a step that is not one of the upload's.         *)
LEMMA OtherSteps ==
  ASSUME TypeInv, NEW s \in Sessions, Fresh(c[s]),
         \/ Start(s) \/ GetResourceLimits(s) \/ Create(s) \/ CloneFiles(s)
         \/ PrecompileBatch(s) \/ Deploy(s) \/ IsReady(s) \/ StartServing(s) \/ IsServing(s)
         \/ UpdatePagespeed(s) \/ Rollback(s) \/ Raised(s) \/ Finish(s) \/ Kill(s)
  PROVE  twice' = twice /\ \E n : Become(s, n) /\ Fresh(n) /\ n.pc # "upload"
<1> DEFINE r == c[s]
           Early == {"idle", "limits", "create", "clone"}
           Calm(n) == Fresh(n) /\ n.pc # "upload"
<1>1. r \in Client
  BY DEF TypeInv, TypeOK
<1>2. /\ \A e : Calm(Raise(r, e))
      /\ Calm(NextApp(r)) /\ Calm(Ended(r))
  BY NewIsFresh
<1>3. ASSUME NEW n, n.pc # "upload", n.pc \in Early => r.pc \in Early,
             n.agenda = r.agenda, n.sent = r.sent, n.batch = r.batch
      PROVE  Calm(n)
  BY <1>3 DEF Fresh
<1>4. CASE Start(s) \/ GetResourceLimits(s)
  <2> DEFINE n == [r EXCEPT !.pc = "create", !.files = AllFiles]
  <2>1. \/ r.pc = "idle" /\ (Become(s, Update(r)) \/ Become(s, RollbackAction(r)))
        \/ r.pc = "limits" /\ Become(s, n)
        \/ \E e : Become(s, Raise(r, e))
    BY <1>4 DEF Start, GetResourceLimits
  <2>2. r.pc = "idle" => Calm(Update(r)) /\ Calm(RollbackAction(r))
    <3>1. /\ Update(r).pc = "limits" /\ Update(r).agenda = r.agenda
          /\ Update(r).sent = r.sent /\ Update(r).batch = r.batch
          /\ RollbackAction(r).pc = "rollback" /\ RollbackAction(r).agenda = r.agenda
          /\ RollbackAction(r).sent = r.sent /\ RollbackAction(r).batch = r.batch
      BY <1>1 DEF Update, RollbackAction, Client
    <3> QED
      BY <1>3, <3>1
  <2>3. r.pc = "limits" => Calm(n)
    <3>1. n.pc = "create" /\ n.agenda = r.agenda /\ n.sent = r.sent /\ n.batch = r.batch
      BY <1>1 DEF Client
    <3> QED
      BY <1>3, <3>1
  <2> HIDE DEF n, Calm
  <2>4. \E m : Become(s, m) /\ Calm(m)
    BY <1>2, <2>1, <2>2, <2>3
  <2> QED
    BY <1>4, <2>4 DEF Start, GetResourceLimits, Unseen, Calm
<1>5. CASE Create(s)
  <2>1. ASSUME NEW x PROVE Calm([r EXCEPT !.pc = "clone", !.inTransaction = TRUE, !.told = TRUE, !.toClone = x])
    <3> DEFINE n == [r EXCEPT !.pc = "clone", !.inTransaction = TRUE, !.told = TRUE, !.toClone = x]
    <3>1. n.pc = "clone" /\ n.agenda = r.agenda /\ n.sent = r.sent /\ n.batch = r.batch
      BY <1>1 DEF Client
    <3>2. r.pc = "create"
      BY <1>5 DEF Create
    <3> QED
      BY <1>3, <3>1, <3>2
  <2> HIDE DEF Calm
  <2>2. \E m : Become(s, m) /\ Calm(m)
    BY <1>2, <1>5, <2>1 DEF Create
  <2> QED
    BY <1>5, <2>2 DEF Create, Calm
<1>6. CASE CloneFiles(s)
  <2>1. ASSUME NEW x, NEW y PROVE Calm([r EXCEPT !.toClone = x, !.missing = y])
    <3> DEFINE n == [r EXCEPT !.toClone = x, !.missing = y]
    <3>1. n.pc = r.pc /\ n.agenda = r.agenda /\ n.sent = r.sent /\ n.batch = r.batch
      BY <1>1 DEF Client
    <3>2. r.pc = "clone"
      BY <1>6 DEF CloneFiles
    <3> QED
      BY <1>3, <3>1, <3>2
  <2> HIDE DEF Calm
  <2>2. \E m : Become(s, m) /\ Calm(m)
    BY <1>2, <1>6, <2>1 DEF CloneFiles
  <2> QED
    BY <1>6, <2>2 DEF CloneFiles, Unseen, Calm
<1>7. CASE PrecompileBatch(s) \/ Deploy(s)
  <2>1. ASSUME NEW x, NEW pc \in {"precompile", "deploy"} PROVE Calm([r EXCEPT !.compile = x, !.pc = pc])
    <3> DEFINE n == [r EXCEPT !.compile = x, !.pc = pc]
    <3>1. n.pc = pc /\ n.agenda = r.agenda /\ n.sent = r.sent /\ n.batch = r.batch
      BY <1>1 DEF Client
    <3> QED
      BY <1>3, <3>1
  <2>2. Calm([r EXCEPT !.pc = "isready", !.tries = 0])
    <3> DEFINE n == [r EXCEPT !.pc = "isready", !.tries = 0]
    <3>1. n.pc = "isready" /\ n.agenda = r.agenda /\ n.sent = r.sent /\ n.batch = r.batch
      BY <1>1 DEF Client
    <3> QED
      BY <1>3, <3>1
  <2> HIDE DEF Calm
  <2>3. CASE PrecompileBatch(s)
    <3>1. r.pc = "precompile"
      BY <2>3 DEF PrecompileBatch
    <3>2. \/ \E left : Become(s, [r EXCEPT !.compile = left, !.pc = IF left = {} THEN "deploy" ELSE r.pc])
          \/ \E e : Become(s, Raise(r, e))
          \/ Become(s, [r EXCEPT !.compile = {}, !.pc = "deploy"])
      BY <2>3 DEF PrecompileBatch
    <3>3. \E m : Become(s, m) /\ Calm(m)
      BY <1>2, <2>1, <3>1, <3>2
    <3> QED
      BY <2>3, <3>3 DEF PrecompileBatch, Unseen, Calm
  <2>4. CASE Deploy(s)
    <3>1. \E m : Become(s, m) /\ Calm(m)
      BY <1>2, <2>2, <2>4 DEF Deploy
    <3> QED
      BY <2>4, <3>1 DEF Deploy, Unseen, Calm
  <2> QED
    BY <1>7, <2>3, <2>4
<1>8. CASE IsReady(s) \/ StartServing(s) \/ IsServing(s)
  <2> DEFINE n1 == [r EXCEPT !.pc = "startserving", !.tries = 0]
             n2 == [r EXCEPT !.pc = "pagespeed", !.inTransaction = FALSE, !.tries = 0]
             n3 == [r EXCEPT !.pc = "isserving"]
             n4 == [r EXCEPT !.pc = "pagespeed", !.inTransaction = FALSE]
             n5 == [r EXCEPT !.tries = r.tries + 1]
  <2>1. /\ n1.pc = "startserving" /\ n1.agenda = r.agenda /\ n1.sent = r.sent /\ n1.batch = r.batch
        /\ n2.pc = "pagespeed" /\ n2.agenda = r.agenda /\ n2.sent = r.sent /\ n2.batch = r.batch
        /\ n3.pc = "isserving" /\ n3.agenda = r.agenda /\ n3.sent = r.sent /\ n3.batch = r.batch
        /\ n4.pc = "pagespeed" /\ n4.agenda = r.agenda /\ n4.sent = r.sent /\ n4.batch = r.batch
    BY <1>1 DEF Client
  <2>2. n5.pc = r.pc /\ n5.agenda = r.agenda /\ n5.sent = r.sent /\ n5.batch = r.batch
    BY <1>1 DEF Client
  <2>3. r.pc \in {"isready", "startserving", "isserving"}
    BY <1>8 DEF IsReady, StartServing, IsServing
  <2>4. \/ Become(s, n1) \/ Become(s, n2) \/ Become(s, n3) \/ Become(s, n4)
        \/ Become(s, TryAgain(r)) \/ \E e : Become(s, Raise(r, e))
    BY <1>8 DEF IsReady, StartServing, IsServing
  <2>5. TryAgain(r) = n5 \/ TryAgain(r) = Raise(r, "other")
    BY DEF TryAgain
  <2> HIDE DEF n1, n2, n3, n4, n5
  <2>6. Calm(n1) /\ Calm(n2) /\ Calm(n3) /\ Calm(n4) /\ Calm(n5)
    BY <1>3, <2>1, <2>2, <2>3
  <2> HIDE DEF Calm
  <2>7. \E m : Become(s, m) /\ Calm(m)
    BY <1>2, <2>4, <2>5, <2>6
  <2> QED
    BY <1>8, <2>7 DEF IsReady, StartServing, IsServing, Unseen, Calm
<1>9. CASE Rollback(s)
  <2> DEFINE n == [r EXCEPT !.inTransaction = FALSE, !.files = {}]
             m == [n EXCEPT !.pc = "raised"]
             x(e) == [r EXCEPT !.pc = "raised", !.exc = e]
  <2>1. m.pc = "raised" /\ \A e : x(e).pc = "raised"
    BY <1>1 DEF Client
  <2>2. Calm(m) /\ Calm(NextApp(n)) /\ \A e : Calm(x(e))
    BY <2>1, NewIsFresh DEF Fresh
  <2>3. Become(s, m) \/ Become(s, NextApp(n)) \/ \E e : Become(s, x(e))
    BY <1>9 DEF Rollback
  <2> HIDE DEF n, m, x, Calm
  <2>4. \E y : Become(s, y) /\ Calm(y)
    BY <2>2, <2>3
  <2> QED
    BY <1>9, <2>4 DEF Rollback, Calm
<1>10. CASE UpdatePagespeed(s) \/ Raised(s) \/ Finish(s) \/ Kill(s)
  <2>1. Become(s, NextApp(r)) \/ Become(s, Ended(r)) \/ \E e : Become(s, Raise(r, e))
    BY <1>10 DEF UpdatePagespeed, Raised, Finish, Kill
  <2> HIDE DEF Calm
  <2>2. \E m : Become(s, m) /\ Calm(m)
    BY <1>2, <2>1
  <2> QED
    BY <1>10, <2>2 DEF UpdatePagespeed, Raised, Finish, Kill, Unseen, Calm
<1> QED
  BY <1>4, <1>5, <1>6, <1>7, <1>8, <1>9, <1>10

(* Every step keeps what is sent apart from what is to be sent.              *)
LEMMA OnceStep == OnceInv /\ [Next]_vars => OnceInv'
<1> SUFFICES ASSUME OnceInv, [Next]_vars PROVE OnceInv'
  OBVIOUS
<1>1. TypeInv /\ TypeInv'
  BY TypeStep DEF OnceInv
<1>2. ASSUME NEW s \in Sessions, Steps(s) \/ Kill(s) PROVE OnceInv'
  <2>1. Fresh(c[s]) /\ (c[s].pc = "upload" => Apart(c[s])) /\ ~twice /\ c[s] \in Client
    BY <1>1 DEF OnceInv, TypeInv, TypeOK
  <2>2. CASE UploadFile(s) \/ AddToBatch(s) \/ Flush(s) \/ SendSingleFile(s)
    <3>1. Uploads(s) /\ Apart(c[s])
      BY <1>1, <2>1, <2>2, UploadsMove
    <3>2. ~twice'
      BY <2>1, <3>1 DEF Uploads
    <3>3. \E n \in Client : Become(s, n) /\ Fresh(n) /\ (n.pc = "upload" => Apart(n))
      <4>1. CASE \E n \in Client : \E uploads : Become(s, n) /\ Moves(c[s], n, uploads)
        BY <3>1, <4>1 DEF Moves, Fresh
      <4>2. CASE \E e \in Exceptions : Become(s, Raise(c[s], e))
        BY <2>1, <4>2, RaiseFacts, NewIsFresh
      <4> QED
        BY <3>1, <4>1, <4>2 DEF Uploads
    <3> QED
      BY <1>1, <3>2, <3>3, OnceFrom
  <2>3. CASE Begun(s)
    <3> DEFINE Begins(n) == /\ n.agenda = c[s].agenda /\ n.sent = c[s].sent /\ n.batch = c[s].batch
                            /\ n.pc \in {"upload", "precompile"}
    <3>1. ASSUME NEW f, NEW x, NEW pc \in {"precompile", "upload"}
          PROVE  Begins([c[s] EXCEPT !.files = f, !.pc = pc, !.compile = x])
      BY <2>1 DEF Client
    <3>2. \E f, x, pc : /\ pc \in {"precompile", "upload"}
                        /\ Become(s, [c[s] EXCEPT !.files = f, !.pc = pc, !.compile = x])
      BY <2>3 DEF Begun
    <3> HIDE DEF Begins
    <3>3. PICK n : Become(s, n) /\ Begins(n)
      BY <3>1, <3>2
    <3>4. c'[s] = n /\ c'[s] \in Client
      BY <1>1, <3>3 DEF Become, TypeInv, TypeOK
    <3>5. c[s].pc = "clone" /\ twice' = twice
      BY <2>3 DEF Begun, Unseen
    <3>6. Fresh(n) /\ Apart(n) /\ n \in Client
      BY <2>1, <3>3, <3>4, <3>5, BegunApart DEF Begins
    <3> QED
      BY <1>1, <2>1, <3>3, <3>5, <3>6, OnceFrom
  <2>4. CASE \/ Start(s) \/ GetResourceLimits(s) \/ Create(s) \/ CloneFiles(s)
             \/ PrecompileBatch(s) \/ Deploy(s) \/ IsReady(s) \/ StartServing(s) \/ IsServing(s)
             \/ UpdatePagespeed(s) \/ Rollback(s) \/ Raised(s) \/ Finish(s) \/ Kill(s)
    <3>1. twice' = twice /\ \E n : Become(s, n) /\ Fresh(n) /\ n.pc # "upload"
      BY <1>1, <2>1, <2>4, OtherSteps
    <3>2. PICK n : Become(s, n) /\ Fresh(n) /\ n.pc # "upload"
      BY <3>1
    <3>3. n \in Client
      BY <1>1, <3>2 DEF Become, TypeInv, TypeOK
    <3> QED
      BY <1>1, <2>1, <3>1, <3>2, <3>3, OnceFrom
  <2> QED
    BY <1>2, <2>2, <2>3, <2>4 DEF Steps
<1>3. CASE UNCHANGED vars
  <2>1. c' = c /\ twice' = twice
    BY <1>3 DEF vars
  <2>2. \A s \in Sessions : Fresh(c'[s]) /\ (c'[s].pc = "upload" => Apart(c'[s]))
    BY <2>1 DEF OnceInv
  <2> QED
    BY <1>1, <2>1, <2>2 DEF OnceInv, Fresh, Apart, Batched, CallsOnce, NoRepeat, Waiting, CallsOf, Upload
<1> QED
  BY <1>2, <1>3 DEF Next, Done

(* Whatever is batched, sent singly, or sent singly after a batch was        *)
(* refused by a server without batches: no upload of a run is sent twice.    *)
THEOREM EachSentOnce == Spec => []SentOnce
<1>1. Spec => []OnceInv
  BY OnceInit, OnceStep, PTL DEF Spec
<1>2. OnceInv => SentOnce
  BY DEF OnceInv, SentOnce
<1> QED
  BY <1>1, <1>2, PTL

-----------------------------------------------------------------------------
(* What goes live is complete.                                               *)

(* A step of s leaves every other session's transaction as it is, or mixed.  *)
OthersSee(s) ==
  \A b \in AppIds :
    txn'[b] = txn[b] \/ txn'[b].by \notin Sessions \ {s} \/ txn'[b].mixed

(* Its own holds the uploads afterwards.                                     *)
Reaches(s, uploads) ==
  txn'[App(s)].by = s /\ ~txn'[App(s)].mixed =>
    /\ txn[App(s)].by = s /\ ~txn[App(s)].mixed
    /\ txn[App(s)].has \cup uploads \subseteq txn'[App(s)].has

Grows(t, s, a, uploads) ==
  \/ t = Touched(s, a) /\ uploads = {}
  \/ t = [Touched(s, a) EXCEPT !.deployed = TRUE] /\ uploads = {}
  \/ t = [Touched(s, a) EXCEPT !.has = @ \cup uploads]

(* A transaction that grows by files.                                        *)
LEMMA TouchedRecord ==
  ASSUME TypeInv, NEW s \in Sessions, NEW a \in AppIds, txn[a] # NoTxn,
         NEW uploads \in SUBSET (What \X Paths),
         NEW t, Grows(t, s, a, uploads)
  PROVE  /\ t \in Transaction /\ t.by = txn[a].by /\ t.has = txn[a].has \cup uploads
         /\ t.mixed <=> (txn[a].mixed \/ txn[a].by # s)
<1> DEFINE x == Touched(s, a)
<1>1. x \in Transaction /\ x.by = txn[a].by /\ x.has = txn[a].has /\ (x.mixed <=> (txn[a].mixed \/ txn[a].by # s))
  BY TouchedFacts, ZenonT(60) DEF TypeInv, TypeOK
<1> HIDE DEF x
<1>2. CASE t = x /\ uploads = {}
  BY <1>1, <1>2
<1>3. CASE t = [x EXCEPT !.deployed = TRUE] /\ uploads = {}
  BY <1>1, <1>3 DEF Transaction
<1>4. CASE t = [x EXCEPT !.has = @ \cup uploads]
  BY <1>1, <1>4 DEF Transaction
<1> QED
  BY <1>2, <1>3, <1>4 DEF x, Grows

(* A request that adds to the transaction, whatever comes of it.             *)
LEMMA RequestSees ==
  ASSUME TypeInv, NEW s \in Sessions, c[s].pc \notin {"idle", "end"},
         NEW accepts, accepts => txn[App(s)] # NoTxn, NEW o \in Outcomes(accepts),
         NEW uploads \in SUBSET (What \X Paths),
         NEW t, Grows(t, s, App(s), uploads), Execute(o[1], App(s), t)
  PROVE  /\ OthersSee(s)
         /\ o[2] = "ok" \/ uploads = {} => Reaches(s, uploads)
<1> DEFINE a == App(s)
<1>1. a \in AppIds /\ txn \in [AppIds -> Transaction \cup {NoTxn}]
  BY AppType DEF TypeInv, TypeOK
<1>2. o[1] \in BOOLEAN /\ (o[1] => accepts) /\ (o[2] = "ok" => o[1])
  BY OutcomesFacts
<1>3. o[1] => /\ t \in Transaction /\ t.by = txn[a].by /\ t.has = txn[a].has \cup uploads
              /\ t.mixed <=> (txn[a].mixed \/ txn[a].by # s)
  <2> SUFFICES ASSUME o[1] PROVE /\ t \in Transaction /\ t.by = txn[a].by /\ t.has = txn[a].has \cup uploads
                                 /\ t.mixed <=> (txn[a].mixed \/ txn[a].by # s)
    OBVIOUS
  <2>1. txn[a] # NoTxn
    BY <1>2
  <2> QED
    BY <1>1, <2>1, TouchedRecord
<1>4. txn'[a] = (IF o[1] THEN t ELSE txn[a]) /\ \A b \in AppIds \ {a} : txn'[b] = txn[b]
  BY <1>1, <1>2, <1>3, ExecuteFacts
<1>5. OthersSee(s)
  BY <1>1, <1>3, <1>4 DEF OthersSee
<1>6. ASSUME o[2] = "ok" \/ uploads = {} PROVE Reaches(s, uploads)
  <2>1. CASE o[1]
    BY <1>3, <1>4, <2>1 DEF Reaches
  <2>2. CASE ~o[1]
    BY <1>2, <1>4, <1>6, <2>2 DEF Reaches
  <2> QED
    BY <1>2, <2>1, <2>2
<1> QED
  BY <1>5, <1>6

(* A step without a request leaves the server.                               *)
LEMMA NoRequestSees ==
  ASSUME NEW s \in Sessions, UNCHANGED txn
  PROVE  OthersSee(s) /\ Reaches(s, {})
BY DEF OthersSee, Reaches

(* Opening and closing.                                                      *)
LEMMA OpensSees ==
  ASSUME TypeInv, NEW s \in Sessions, c[s].pc \notin {"idle", "end"},
         NEW accepts, NEW o \in Outcomes(accepts),
         NEW t, t.by \notin Sessions \ {s}, t \in Transaction \cup {NoTxn}, Execute(o[1], App(s), t)
  PROVE  OthersSee(s)
<1>1. App(s) \in AppIds /\ txn \in [AppIds -> Transaction \cup {NoTxn}]
  BY AppType DEF TypeInv, TypeOK
<1>2. o[1] \in BOOLEAN
  BY OutcomesFacts
<1>3. txn'[App(s)] = (IF o[1] THEN t ELSE txn[App(s)]) /\ \A b \in AppIds \ {App(s)} : txn'[b] = txn[b]
  BY <1>1, <1>2, ExecuteFacts
<1> QED
  BY <1>1, <1>2, <1>3 DEF OthersSee

(* The uploads that a form of a path stands for.                             *)
LEMMA KindsOf ==
  ASSUME NEW f, NEW w, w \in ToSet(UploadsOf(f))
  PROVE  \/ w = "blob" /\ IsStaticFile(f)
         \/ w = "errorblob" /\ IsErrorFile(f)
         \/ w = "file" /\ IsApplicationFile(f)
<1> DEFINE Kind(v) == \/ v = "blob" /\ IsStaticFile(f)
                      \/ v = "errorblob" /\ IsErrorFile(f)
                      \/ v = "file" /\ IsApplicationFile(f)
           Kinds(q) == q \in Seq(What) /\ \A k \in 1..Len(q) : Kind(q[k])
<1>1. ASSUME NEW v \in What, Kind(v) PROVE Kinds(<<v>>)
  BY <1>1
<1>2. Kinds(<<>>)
  OBVIOUS
<1>3. ASSUME NEW p, NEW q, Kinds(p), Kinds(q) PROVE Kinds(p \o q)
  <2>1. /\ p \o q \in Seq(What) /\ Len(p \o q) = Len(p) + Len(q) /\ Len(p) \in Nat /\ Len(q) \in Nat
        /\ \A k \in 1..(Len(p) + Len(q)) : (p \o q)[k] = IF k <= Len(p) THEN p[k] ELSE q[k - Len(p)]
    BY <1>3, ConcatProperties, LenProperties
  <2>2. ASSUME NEW k \in 1..Len(p \o q) PROVE Kind((p \o q)[k])
    <3>1. CASE k <= Len(p)
      BY <1>3, <2>1, <3>1
    <3>2. CASE ~(k <= Len(p))
      <4>1. k - Len(p) \in 1..Len(q)
        BY <2>1, <3>2
      <4> HIDE DEF Kind
      <4> QED
        BY <1>3, <2>1, <3>2, <4>1
    <3> QED
      BY <3>1, <3>2
  <2> QED
    BY <2>1, <2>2
<1>4. /\ "blob" \in What /\ "errorblob" \in What /\ "file" \in What
      /\ IsStaticFile(f) => Kind("blob")
      /\ IsErrorFile(f) => Kind("errorblob")
      /\ IsApplicationFile(f) => Kind("file")
  BY DEF What
<1> HIDE DEF Kinds
<1>5. Kinds(UploadsOf(f))
  <2> DEFINE p == IF IsStaticFile(f) THEN <<"blob">> ELSE <<>>
             q == IF IsErrorFile(f) THEN <<"errorblob">> ELSE <<>>
             r == IF IsApplicationFile(f) THEN <<"file">> ELSE <<>>
  <2>1. Kinds(p) /\ Kinds(q) /\ Kinds(r)
    BY <1>1, <1>2, <1>4
  <2> HIDE DEF p, q, r
  <2>2. Kinds(p \o q)
    BY <1>3, <2>1
  <2>3. Kinds((p \o q) \o r)
    BY <1>3, <2>1, <2>2
  <2> QED
    BY <2>3 DEF UploadsOf, p, q, r
<1>6. UploadsOf(f) \in Seq(What) /\ \A k \in 1..Len(UploadsOf(f)) : Kind(UploadsOf(f)[k])
  BY <1>5 DEF Kinds
<1>7. PICK k \in 1..Len(UploadsOf(f)) : UploadsOf(f)[k] = w
  BY <1>6 DEF ToSet
<1>8. Kind(w)
  <2> HIDE DEF Kind
  <2> QED
    BY <1>6, <1>7
<1> QED
  BY <1>8

(* What a version needs is what the uploads of its files are.                *)
LEMMA NeededIs ==
  ASSUME NEW u \in Needed
  PROVE  /\ u \in What \X AllFiles /\ u = <<u[1], u[2]>> /\ u[2] \in Paths
         /\ \/ u[1] = "blob" /\ IsStaticFile(u[2])
            \/ u[1] = "errorblob" /\ IsErrorFile(u[2])
            \/ u[1] = "file" /\ IsApplicationFile(u[2])
<1>1. u \in What \X (Paths \ TooLong) /\ u[1] \in ToSet(UploadsOf(u[2]))
  BY DEF Needed
<1> QED
  BY <1>1, KindsOf DEF AllFiles

(* The session after a step, and what its transaction holds then.            *)
CoveredBy(s) ==
  c[s].pc \in OpenPcs /\ txn[App(s)].by = s /\ ~txn[App(s)].mixed =>
    Needed \subseteq txn[App(s)].has \cup Pending(c[s])

OwnWhole(s, n) ==
  n.pc \in OpenPcs /\ txn'[Head(n.apps)].by = s /\ ~txn'[Head(n.apps)].mixed =>
    Needed \subseteq txn'[Head(n.apps)].has \cup Pending(n)

(* The coverage, session by session.                                         *)
LEMMA CoveredIs == Covered <=> \A s \in Sessions : CoveredBy(s)
BY DEF Covered, CoveredBy

(* A step of one session that keeps its own and the others' coverage.        *)
LEMMA CompleteFrom ==
  ASSUME CompleteInv, TypeInv', NEW s \in Sessions, NEW n \in Client, Become(s, n),
         OthersSee(s), Flushed(n), n.pc \in {"create", "clone"} => n.files = AllFiles,
         OwnWhole(s, n), ServedIsComplete'
  PROVE  CompleteInv'
<1>1. c'[s] = n /\ \A t \in Sessions \ {s} : c'[t] = c[t]
  BY BecomeFacts DEF CompleteInv, TypeInv, TypeOK
<1>2. \A t \in Sessions : /\ Flushed(c'[t])
                          /\ c'[t].pc \in {"create", "clone"} => c'[t].files = AllFiles
  BY <1>1 DEF CompleteInv
<1>3. ASSUME NEW t \in Sessions, t # s, c'[t].pc \in OpenPcs,
             txn'[Head(c'[t].apps)].by = t, ~txn'[Head(c'[t].apps)].mixed
      PROVE  Needed \subseteq txn'[Head(c'[t].apps)].has \cup Pending(c'[t])
  <2>1. c'[t] = c[t] /\ CoveredBy(t)
    BY <1>1, <1>3, CoveredIs DEF CompleteInv
  <2>2. App(t) \in AppIds /\ App(t) = Head(c'[t].apps)
    BY <1>3, <2>1, AppType DEF CompleteInv, OpenPcs, App
  <2>3. txn'[App(t)] = txn[App(t)]
    BY <1>3, <2>2 DEF OthersSee
  <2> QED
    BY <1>3, <2>1, <2>2, <2>3 DEF CoveredBy
<1>4. ASSUME NEW t \in Sessions, t = s, c'[t].pc \in OpenPcs,
             txn'[Head(c'[t].apps)].by = t, ~txn'[Head(c'[t].apps)].mixed
      PROVE  Needed \subseteq txn'[Head(c'[t].apps)].has \cup Pending(c'[t])
  BY <1>1, <1>4 DEF OwnWhole
<1>5. Covered'
  BY <1>3, <1>4 DEF Covered, App, Pending, Outstanding, Waiting, CallsOf, Upload, Batched,
     Needed, UploadsOf, IsStaticFile, IsErrorFile, IsApplicationFile
<1>6. (\A t \in Sessions : Flushed(c[t]))'
  BY <1>2 DEF Flushed, AddsFlushed, FlushAfter
<1>7. (\A t \in Sessions : c[t].pc \in {"create", "clone"} => c[t].files = AllFiles)'
  BY <1>2
<1> QED
  BY <1>5, <1>6, <1>7 DEF CompleteInv

(* What a session becomes and what its transaction holds then.               *)
Settled(s, n) ==
  /\ Flushed(n) /\ (n.pc \in {"create", "clone"} => n.files = AllFiles)
  /\ OwnWhole(s, n)

Stays(s) == OthersSee(s) /\ \E n : Become(s, n) /\ Settled(s, n)

(* Nothing is asked of a session that has no transaction, or is closing it.  *)
LEMMA OutsideSettled ==
  ASSUME NEW s, NEW n, n.pc \notin OpenPcs \cup {"create"}
  PROVE  Settled(s, n)
BY DEF Settled, Flushed, OwnWhole, OpenPcs

(* A session that leaves a transaction has settled it.                       *)
LEMMA LeavesSettled ==
  ASSUME NEW s, NEW r
  PROVE  /\ \A e : Settled(s, Raise(r, e))
         /\ Settled(s, NextApp(r)) /\ Settled(s, Ended(r))
<1>1. /\ \A e : Raise(r, e).pc \in {"rollback", "raised"}
      /\ NextApp(r).pc = "idle" /\ Ended(r).pc = "end"
  BY DEF Raise, NextApp, Ended, NewUpload
<1>2. \A e : Raise(r, e).pc \notin OpenPcs \cup {"create"}
  BY <1>1 DEF OpenPcs
<1>3. NextApp(r).pc \notin OpenPcs \cup {"create"} /\ Ended(r).pc \notin OpenPcs \cup {"create"}
  BY <1>1 DEF OpenPcs
<1> QED
  BY <1>2, <1>3, OutsideSettled

(* A session that goes on with its transaction: what it no longer has to     *)
(* send the server has got.                                                  *)
LEMMA GoesOnSettled ==
  ASSUME CompleteInv, NEW s \in Sessions, c[s].pc \in OpenPcs, NEW n, n.apps = c[s].apps,
         NEW uploads, Reaches(s, uploads), Flushed(n), n.pc = "clone" => n.files = AllFiles,
         n.pc # "create", Pending(c[s]) \cap Needed \subseteq Pending(n) \cup uploads
  PROVE  Settled(s, n)
<1>1. App(s) = Head(n.apps)
  BY DEF App
<1>2. CoveredBy(s)
  BY CoveredIs DEF CompleteInv
<1>3. OwnWhole(s, n)
  BY <1>1, <1>2 DEF OwnWhole, Reaches, CoveredBy
<1> QED
  BY <1>3 DEF Settled

(* The coverage depends on a few fields alone.                               *)
LEMMA CompleteStays ==
  ASSUME CompleteInv, TypeInv', NEW s \in Sessions, Stays(s), ServedIsComplete'
  PROVE  CompleteInv'
<1>1. PICK n : Become(s, n) /\ Settled(s, n)
  BY DEF Stays
<1>2. n \in Client
  BY <1>1 DEF Become, CompleteInv, TypeInv, TypeOK
<1> QED
  BY <1>1, <1>2, CompleteFrom DEF Stays, Settled

(* What is served stays complete while nothing new goes live.                *)
LEMMA ServedStill ==
  ASSUME ServedIsComplete, UNCHANGED live
  PROVE  ServedIsComplete'
BY DEF ServedIsComplete, Needed, UploadsOf, IsStaticFile, IsErrorFile, IsApplicationFile

(* At first nothing is served.                                               *)
LEMMA CompleteInit == Init => CompleteInv
<1> SUFFICES ASSUME Init PROVE CompleteInv
  OBVIOUS
<1>1. TypeInv
  BY TypeInit
<1>2. \A s \in Sessions : c[s].pc = "idle"
  BY DEF Init, NewUpload
<1>3. \A s \in Sessions : Flushed(c[s]) /\ c[s].pc \notin {"create", "clone"} \cup OpenPcs
  BY <1>2 DEF Flushed, OpenPcs
<1>4. Covered
  BY <1>3 DEF Covered
<1>5. ServedIsComplete
  BY DEF Init, ServedIsComplete
<1> QED
  BY <1>1, <1>3, <1>4, <1>5 DEF CompleteInv

(* Up to the transaction, and the end of an upload.                          *)
LEMMA EndsStay ==
  ASSUME CompleteInv, NEW s \in Sessions,
         \/ Start(s) \/ GetResourceLimits(s) \/ IsServing(s) \/ UpdatePagespeed(s)
         \/ Rollback(s) \/ Raised(s) \/ Finish(s) \/ Kill(s)
  PROVE  Stays(s) /\ live' = live
<1> DEFINE r == c[s]
<1>1. r \in Client
  BY DEF CompleteInv, TypeInv, TypeOK
<1>2. /\ \A e : Settled(s, Raise(r, e))
      /\ Settled(s, NextApp(r)) /\ Settled(s, Ended(r))
  BY LeavesSettled
<1>3. ASSUME NEW n, n.pc \in {"limits", "rollback", "raised", "isserving", "pagespeed"}
      PROVE  Settled(s, n)
  <2>1. n.pc \notin OpenPcs \cup {"create"}
    BY <1>3 DEF OpenPcs
  <2> QED
    BY <2>1, OutsideSettled
<1>4. CASE Start(s)
  <2>1. \/ Become(s, Update(r)) \/ Become(s, RollbackAction(r))
        \/ \E e : Become(s, Raise(r, e))
    BY <1>4 DEF Start
  <2>2. Settled(s, Update(r)) /\ Settled(s, RollbackAction(r))
    <3>1. Update(r).pc = "limits" /\ RollbackAction(r).pc = "rollback"
      BY <1>1 DEF Update, RollbackAction, Client
    <3> QED
      BY <1>3, <3>1
  <2>3. UNCHANGED <<txn, live>>
    BY <1>4 DEF Start, Unseen
  <2>4. \E n : Become(s, n) /\ Settled(s, n)
    BY <1>2, <2>1, <2>2
  <2> QED
    BY <2>3, <2>4, NoRequestSees DEF Stays
<1>5. CASE GetResourceLimits(s)
  <2> DEFINE n == [r EXCEPT !.pc = "create", !.files = AllFiles]
  <2>1. Become(s, n) \/ \E e : Become(s, Raise(r, e))
    BY <1>5 DEF GetResourceLimits
  <2>2. n.pc = "create" /\ n.files = AllFiles
    BY <1>1 DEF Client
  <2> HIDE DEF n
  <2>3. Settled(s, n)
    BY <2>2 DEF Settled, Flushed, OwnWhole, OpenPcs
  <2>4. UNCHANGED <<txn, live>>
    BY <1>5 DEF GetResourceLimits, Unseen
  <2>5. \E m : Become(s, m) /\ Settled(s, m)
    BY <1>2, <2>1, <2>3
  <2> QED
    BY <2>4, <2>5, NoRequestSees DEF Stays
<1>6. CASE IsServing(s)
  <2> DEFINE n == [r EXCEPT !.pc = "pagespeed", !.inTransaction = FALSE, !.tries = 0]
             m == [r EXCEPT !.tries = r.tries + 1]
  <2>1. \/ Become(s, n) \/ Become(s, TryAgain(r)) \/ \E e : Become(s, Raise(r, e))
    BY <1>6 DEF IsServing
  <2>2. n.pc = "pagespeed" /\ m.pc = "isserving"
    BY <1>1, <1>6 DEF Client, IsServing
  <2>3. TryAgain(r) = m \/ TryAgain(r) = Raise(r, "other")
    BY DEF TryAgain
  <2> HIDE DEF n, m
  <2>4. Settled(s, n) /\ Settled(s, m)
    BY <1>3, <2>2
  <2>5. UNCHANGED <<txn, live>>
    BY <1>6 DEF IsServing, Unseen
  <2>6. \E x : Become(s, x) /\ Settled(s, x)
    BY <1>2, <2>1, <2>3, <2>4
  <2> QED
    BY <2>5, <2>6, NoRequestSees DEF Stays
<1>7. CASE Rollback(s)
  <2> DEFINE n == [r EXCEPT !.inTransaction = FALSE, !.files = {}]
             m == [n EXCEPT !.pc = "raised"]
             x(e) == [r EXCEPT !.pc = "raised", !.exc = e]
  <2>1. m.pc = "raised" /\ \A e : x(e).pc = "raised"
    BY <1>1 DEF Client
  <2>3. Become(s, m) \/ Become(s, NextApp(n)) \/ \E e : Become(s, x(e))
    BY <1>7 DEF Rollback
  <2> HIDE DEF n, m, x
  <2>2. Settled(s, m) /\ Settled(s, NextApp(n)) /\ \A e : Settled(s, x(e))
    BY <1>3, <2>1, LeavesSettled
  <2>4. \E y : Become(s, y) /\ Settled(s, y)
    BY <2>2, <2>3
  <2>5. OthersSee(s)
    <3>1. PICK o \in Outcomes(txn[App(s)] # NoTxn) : Execute(o[1], App(s), NoTxn)
      BY <1>7 DEF Rollback
    <3>2. NoTxn.by \notin Sessions \ {s} /\ c[s].pc \notin {"idle", "end"}
      BY <1>7, UploadAssumption DEF NoTxn, Rollback
    <3> QED
      BY <3>1, <3>2, OpensSees DEF CompleteInv
  <2> QED
    BY <1>7, <2>4, <2>5 DEF Rollback, Stays
<1>8. CASE UpdatePagespeed(s) \/ Raised(s) \/ Finish(s) \/ Kill(s)
  <2>1. Become(s, NextApp(r)) \/ Become(s, Ended(r)) \/ \E e : Become(s, Raise(r, e))
    BY <1>8 DEF UpdatePagespeed, Raised, Finish, Kill
  <2>2. UNCHANGED <<txn, live>>
    BY <1>8 DEF UpdatePagespeed, Raised, Finish, Kill, Unseen
  <2>3. \E n : Become(s, n) /\ Settled(s, n)
    BY <1>2, <2>1
  <2> QED
    BY <2>2, <2>3, NoRequestSees DEF Stays
<1> QED
  BY <1>4, <1>5, <1>6, <1>7, <1>8

(* Begin: everything needed is to be cloned or is an error blob; what the    *)
(* server did not have is missing; what is missing is read.                  *)
LEMMA CreateStays ==
  ASSUME CompleteInv, NEW s \in Sessions, Create(s)
  PROVE  Stays(s) /\ live' = live
<1> DEFINE r == c[s]
           clones == {p \in {"blob", "file"} \X r.files :
                       IF p[1] = "blob" THEN IsStaticFile(p[2]) ELSE IsApplicationFile(p[2])}
           n == [r EXCEPT !.pc = "clone", !.inTransaction = TRUE, !.told = TRUE, !.toClone = clones]
           t == [NoTxn EXCEPT !.by = s]
<1>1. r \in Client /\ r.pc = "create" /\ r.files = AllFiles
  BY DEF CompleteInv, TypeInv, TypeOK, Create
<1>2. PICK o \in Outcomes(txn[App(s)] = NoTxn) :
        /\ Execute(o[1], App(s), t)
        /\ Become(s, IF o[2] = "ok" THEN n ELSE Raise(r, o[2]))
  BY DEF Create
<1>3. OthersSee(s)
  <2>1. t.by = s /\ t \in Transaction
    BY DEF NoTxn, Transaction
  <2> HIDE DEF t
  <2> QED
    BY <1>1, <1>2, <2>1, OpensSees DEF CompleteInv
<1>4. n.pc = "clone" /\ n.files = r.files /\ n.toClone = clones
  BY <1>1 DEF Client
<1>5. Needed \subseteq Pending(n)
  <2> SUFFICES ASSUME NEW u \in Needed PROVE u \in Pending(n)
    OBVIOUS
  <2>1. /\ u[2] \in AllFiles /\ u = <<u[1], u[2]>> /\ u[2] \in Paths
        /\ \/ u[1] = "blob" /\ IsStaticFile(u[2])
           \/ u[1] = "errorblob" /\ IsErrorFile(u[2])
           \/ u[1] = "file" /\ IsApplicationFile(u[2])
    BY NeededIs
  <2>2. u \in clones \/ u \in {"errorblob"} \X Paths
    BY <1>1, <2>1
  <2> HIDE DEF clones, n
  <2> QED
    BY <1>4, <2>2 DEF Pending
<1>6. Settled(s, n)
  <2> HIDE DEF n, clones
  <2> QED
    BY <1>1, <1>4, <1>5 DEF Settled, Flushed, OwnWhole
<1>7. \E m : Become(s, m) /\ Settled(s, m)
  <2> HIDE DEF n
  <2> QED
    BY <1>2, <1>6, LeavesSettled
<1> QED
  BY <1>3, <1>7 DEF Stays, Create

(* CloneFiles: a file is cloned, or asked for.                               *)
LEMMA CloneStays ==
  ASSUME CompleteInv, NEW s \in Sessions, CloneFiles(s)
  PROVE  Stays(s) /\ live' = live
<1> DEFINE r == c[s]
           a == App(s)
           kind == IF \E p \in r.toClone : p[1] = "blob" THEN "blob" ELSE "file"
           left == {p \in r.toClone : p[1] = kind}
           size == IF Cardinality(left) < MaxFilesToClone THEN Cardinality(left) ELSE MaxFilesToClone
           Cloned(chunk, absent) ==
             [r EXCEPT !.toClone = @ \ chunk, !.missing = @ \cup {p[2] : p \in absent}]
<1>1. r \in Client /\ r.pc = "clone" /\ r.files = AllFiles /\ TypeInv
  BY DEF CompleteInv, TypeInv, TypeOK, CloneFiles
<1>2. PICK chunk \in kSubset(size, left), o \in Outcomes(txn[a] # NoTxn) :
        \E absent \in SUBSET chunk :
          /\ Execute(o[1], a, [Touched(s, a) EXCEPT !.has = @ \cup (chunk \ absent)])
          /\ Become(s, IF o[2] = "ok" THEN Cloned(chunk, absent) ELSE Raise(r, o[2]))
  BY DEF CloneFiles
<1>3. PICK absent \in SUBSET chunk :
        /\ Execute(o[1], a, [Touched(s, a) EXCEPT !.has = @ \cup (chunk \ absent)])
        /\ Become(s, IF o[2] = "ok" THEN Cloned(chunk, absent) ELSE Raise(r, o[2]))
  BY <1>2
<1>4. chunk \subseteq r.toClone /\ r.toClone \subseteq {"blob", "file"} \X Paths
  BY <1>1, <1>2 DEF kSubset, Client
<1>5. chunk \ absent \in SUBSET (What \X Paths)
  BY <1>4 DEF What
<1> DEFINE n == Cloned(chunk, absent)
           t == [Touched(s, a) EXCEPT !.has = @ \cup (chunk \ absent)]
<1>6. /\ n.pc = "clone" /\ n.files = r.files /\ n.apps = r.apps
      /\ n.toClone = r.toClone \ chunk
      /\ n.missing = r.missing \cup {p[2] : p \in absent}
  BY <1>1 DEF Client
<1> HIDE DEF n, kind, left, size
<1>7. OthersSee(s) /\ (o[2] = "ok" => Reaches(s, chunk \ absent))
  <2>1. Grows(t, s, a, chunk \ absent)
    BY DEF Grows
  <2>2. Execute(o[1], a, t)
    BY <1>3
  <2> HIDE DEF t
  <2> QED
    BY <1>1, <1>5, <2>1, <2>2, RequestSees
<1>8. Pending(r) \cap Needed \subseteq Pending(n) \cup (chunk \ absent)
  <2> SUFFICES ASSUME NEW u \in Pending(r), u \notin chunk \ absent
               PROVE  u \in Pending(n)
    OBVIOUS
  <2>1. Pending(r) = r.toClone \cup (What \X r.missing) \cup ({"errorblob"} \X Paths)
    BY <1>1 DEF Pending
  <2>2. Pending(n) = n.toClone \cup (What \X n.missing) \cup ({"errorblob"} \X Paths)
    BY <1>6 DEF Pending
  <2>3. CASE u \in absent
    <3>1. u \in {"blob", "file"} \X Paths
      BY <1>4, <2>3
    <3>2. u = <<u[1], u[2]>> /\ u[1] \in What /\ u[2] \in n.missing
      BY <1>6, <2>3, <3>1 DEF What
    <3>3. u \in What \X n.missing
      BY <3>2
    <3> QED
      BY <2>2, <3>3
  <2>4. CASE u \notin absent
    <3>1. u \in r.toClone => u \in n.toClone
      BY <1>6, <2>4
    <3>2. u \in What \X r.missing => u \in What \X n.missing
      BY <1>6
    <3> QED
      BY <2>1, <2>2, <3>1, <3>2
  <2> QED
    BY <2>3, <2>4
<1>9. o[2] = "ok" => Settled(s, n)
  <2>1. Flushed(n) /\ r.pc \in OpenPcs
    BY <1>1, <1>6 DEF Flushed, OpenPcs
  <2> QED
    BY <1>1, <1>6, <1>7, <1>8, <2>1, GoesOnSettled
<1>10. \E m : Become(s, m) /\ Settled(s, m)
  <2>1. Become(s, IF o[2] = "ok" THEN n ELSE Raise(r, o[2]))
    BY <1>3 DEF n
  <2> QED
    BY <1>9, <2>1, LeavesSettled
<1> QED
  BY <1>7, <1>10 DEF Stays, CloneFiles, Unseen

(* The list of missing files is complete.                                    *)
LEMMA BegunStays ==
  ASSUME CompleteInv, NEW s \in Sessions, Begun(s)
  PROVE  Stays(s) /\ live' = live
<1> DEFINE r == c[s]
           todo == r.missing \cup {f \in r.files : IsErrorFile(f)}
           n == [r EXCEPT !.files = todo, !.pc = IF todo = {} THEN "precompile" ELSE "upload",
                          !.compile = IF config.go
                            THEN {f \in AllFiles : IsApplicationFile(f)} ELSE {}]
<1>1. /\ r \in Client /\ r.pc = "clone" /\ r.files = AllFiles /\ r.toClone = {}
      /\ UNCHANGED <<txn, live>> /\ Become(s, n)
  BY DEF CompleteInv, TypeInv, TypeOK, Begun, Unseen
<1>2. /\ n.files = todo /\ n.apps = r.apps
      /\ n.pc = IF todo = {} THEN "precompile" ELSE "upload"
  BY <1>1 DEF Client
<1> HIDE DEF n
<1>3. Pending(r) \cap Needed \subseteq Pending(n)
  <2> SUFFICES ASSUME NEW u \in Pending(r), u \in Needed PROVE u \in Pending(n)
    OBVIOUS
  <2>1. Pending(r) = r.toClone \cup (What \X r.missing) \cup ({"errorblob"} \X Paths)
    BY <1>1 DEF Pending
  <2>2. /\ u \in What \X AllFiles /\ u = <<u[1], u[2]>> /\ u[2] \in Paths
        /\ \/ u[1] = "blob" /\ IsStaticFile(u[2])
           \/ u[1] = "errorblob" /\ IsErrorFile(u[2])
           \/ u[1] = "file" /\ IsApplicationFile(u[2])
    BY NeededIs
  <2>3. u[2] \in todo
    <3>1. CASE u \in What \X r.missing
      BY <2>2, <3>1
    <3>2. CASE u \in {"errorblob"} \X Paths
      BY <1>1, <2>2, <3>2
    <3> QED
      BY <1>1, <2>1, <3>1, <3>2
  <2>4. n.pc = "upload" /\ u \in What \X n.files
    BY <1>2, <2>2, <2>3
  <2> QED
    BY <2>4 DEF Pending, Outstanding
<1>4. Flushed(n) /\ n.pc \notin {"create", "clone"} /\ r.pc \in OpenPcs
  BY <1>1, <1>2 DEF Flushed, OpenPcs
<1>5. OthersSee(s) /\ Reaches(s, {})
  BY <1>1, NoRequestSees
<1>6. Settled(s, n)
  BY <1>2, <1>3, <1>4, <1>5, GoesOnSettled
<1> QED
  BY <1>1, <1>5, <1>6 DEF Stays

(* The uploads: what the server gets is what was moved.                      *)
LEMMA UploadRequestsSee ==
  ASSUME TypeInv, NEW s \in Sessions,
         UploadFile(s) \/ AddToBatch(s) \/ Flush(s) \/ SendSingleFile(s)
  PROVE  OthersSee(s) /\ live' = live
<1> DEFINE r == c[s]
           a == App(s)
<1>1. r \in Client /\ Busy(r) /\ r.pc = "upload"
  BY DEF TypeInv, TypeOK, UploadFile, AddToBatch, Flush, SendSingleFile
<1>2. CASE UploadFile(s) \/ AddToBatch(s)
  BY <1>2, NoRequestSees DEF UploadFile, AddToBatch, Unseen
<1>3. CASE Flush(s)
  <2> DEFINE w == Head(r.agenda).what
             uploads == {w} \X ToSet(r.batch[w])
             t == [Touched(s, a) EXCEPT !.has = @ \cup uploads]
  <2>1. UNCHANGED txn \/ \E o \in Outcomes(txn[a] # NoTxn /\ ~config.old) : Execute(o[1], a, t)
    BY <1>3 DEF Flush
  <2>2. uploads \in SUBSET (What \X Paths)
    <3>1. w \in What
      BY <1>1, <1>3, HeadCall DEF Flush
    <3>2. r.batch[w] \in Seq(Paths)
      BY <1>1, <3>1 DEF Client
    <3>3. ToSet(r.batch[w]) \subseteq Paths
      BY <3>2 DEF ToSet
    <3> QED
      BY <3>1, <3>3
  <2>3. Grows(t, s, a, uploads) /\ (txn[a] # NoTxn /\ ~config.old => txn[a] # NoTxn)
    BY DEF Grows
  <2> HIDE DEF t, uploads, w
  <2>4. OthersSee(s)
    BY <1>1, <2>1, <2>2, <2>3, RequestSees, NoRequestSees
  <2> QED
    BY <1>3, <2>4 DEF Flush
<1>4. CASE SendSingleFile(s)
  <2> DEFINE u == Upload(Head(r.agenda))
             t == [Touched(s, a) EXCEPT !.has = @ \cup {u}]
  <2>1. \E o \in Outcomes(txn[a] # NoTxn) : Execute(o[1], a, t)
    BY <1>4 DEF SendSingleFile, Upload
  <2>2. {u} \in SUBSET (What \X Paths)
    <3>1. Head(r.agenda).op # "flush" /\ r.agenda # <<>>
      BY <1>4 DEF SendSingleFile
    <3> QED
      BY <1>1, <3>1, HeadCall
  <2>3. Grows(t, s, a, {u})
    BY DEF Grows
  <2> HIDE DEF t, u
  <2>4. OthersSee(s)
    BY <1>1, <2>1, <2>2, <2>3, RequestSees
  <2> QED
    BY <1>4, <2>4 DEF SendSingleFile
<1> QED
  BY <1>2, <1>3, <1>4

(* What a request carries reaches the transaction.                           *)
LEMMA GetsReaches ==
  ASSUME TypeInv, NEW s \in Sessions, c[s].pc \notin {"idle", "end"},
         NEW uploads \in SUBSET (What \X Paths), Gets(s, uploads)
  PROVE  Reaches(s, uploads)
<1> DEFINE a == App(s)
           t == [Touched(s, a) EXCEPT !.has = @ \cup uploads]
<1>1. CASE uploads = {} /\ UNCHANGED txn
  BY <1>1, NoRequestSees
<1>2. CASE txn[a] # NoTxn /\ txn' = [txn EXCEPT ![a] = t]
  <2>1. a \in AppIds /\ txn \in [AppIds -> Transaction \cup {NoTxn}]
    BY AppType DEF TypeInv, TypeOK
  <2>2. Grows(t, s, a, uploads)
    BY DEF Grows
  <2>3. txn'[a] = t
    BY <1>2, <2>1
  <2> HIDE DEF t
  <2>4. t.by = txn[a].by /\ t.has = txn[a].has \cup uploads /\ (t.mixed <=> (txn[a].mixed \/ txn[a].by # s))
    BY <1>2, <2>1, <2>2, TouchedRecord
  <2> QED
    BY <2>3, <2>4 DEF Reaches
<1> QED
  BY <1>1, <1>2 DEF Gets

(* The steps of the upload keep the coverage.                                *)
LEMMA UploadsStay ==
  ASSUME CompleteInv, NEW s \in Sessions,
         UploadFile(s) \/ AddToBatch(s) \/ Flush(s) \/ SendSingleFile(s)
  PROVE  Stays(s) /\ live' = live
<1>1. TypeInv /\ Flushed(c[s])
  BY DEF CompleteInv
<1>2. Uploads(s) /\ c[s].pc = "upload"
  BY <1>1, UploadsMove
<1>3. OthersSee(s) /\ live' = live
  BY <1>1, UploadRequestsSee
<1>4. PICK uploads \in SUBSET (What \X Paths) :
        \/ \E n \in Client : Become(s, n) /\ Moves(c[s], n, uploads) /\ Gets(s, uploads)
        \/ \E e \in Exceptions : Become(s, Raise(c[s], e))
  BY <1>2 DEF Uploads
<1>5. ASSUME NEW n \in Client, Become(s, n), Moves(c[s], n, uploads), Gets(s, uploads)
      PROVE  \E m : Become(s, m) /\ Settled(s, m)
  <2>1. Reaches(s, uploads)
    BY <1>1, <1>2, <1>5, GetsReaches
  <2>2. /\ n.apps = c[s].apps /\ Flushed(n) /\ n.pc \notin {"create", "clone"}
        /\ Pending(c[s]) \cap Needed \subseteq Pending(n) \cup uploads
    BY <1>1, <1>5 DEF Moves
  <2>3. c[s].pc \in OpenPcs
    BY <1>2 DEF OpenPcs
  <2>4. Settled(s, n)
    BY <2>1, <2>2, <2>3, GoesOnSettled
  <2> QED
    BY <1>5, <2>4
<1>6. ASSUME NEW e \in Exceptions, Become(s, Raise(c[s], e))
      PROVE  \E m : Become(s, m) /\ Settled(s, m)
  BY <1>6, LeavesSettled
<1> QED
  BY <1>3, <1>4, <1>5, <1>6 DEF Stays

(* Precompilation, deploy and the waiting: nothing is pending, and nothing   *)
(* is taken away.                                                            *)
LEMMA NothingPendingSettled ==
  ASSUME CompleteInv, NEW s \in Sessions, c[s].pc \in {"precompile", "deploy", "isready"},
         Reaches(s, {}), NEW n, n.apps = c[s].apps,
         n.pc \in {"precompile", "deploy", "isready", "startserving"}
  PROVE  Settled(s, n)
<1>1. Pending(c[s]) = {} /\ c[s].pc \in OpenPcs
  BY DEF Pending, OpenPcs
<1>2. Flushed(n) /\ n.pc \notin {"create", "clone"}
  BY DEF Flushed
<1> QED
  BY <1>1, <1>2, GoesOnSettled

(* The steps of Commit keep the coverage; startserving needs it.             *)
LEMMA CommitsStay ==
  ASSUME CompleteInv, NEW s \in Sessions, PrecompileBatch(s) \/ Deploy(s) \/ IsReady(s)
  PROVE  Stays(s) /\ live' = live
<1> DEFINE r == c[s]
           a == App(s)
<1>1. r \in Client /\ TypeInv /\ r.pc \in {"precompile", "deploy", "isready"}
  BY DEF CompleteInv, TypeInv, TypeOK, PrecompileBatch, Deploy, IsReady
<1>2. {} \in SUBSET (What \X Paths) /\ r.pc \notin {"idle", "end"}
  BY <1>1
<1>3. ASSUME OthersSee(s), Reaches(s, {}), live' = live,
             NEW n, Become(s, n),
             \/ n.apps = r.apps /\ n.pc \in {"precompile", "deploy", "isready", "startserving"}
             \/ \E e : n = Raise(r, e)
      PROVE  Stays(s) /\ live' = live
  <2>1. Settled(s, n)
    BY <1>1, <1>3, NothingPendingSettled, LeavesSettled
  <2> QED
    BY <1>3, <2>1 DEF Stays
<1>4. CASE PrecompileBatch(s)
  <2> DEFINE Left(x) == [r EXCEPT !.compile = x, !.pc = IF x = {} THEN "deploy" ELSE @]
             m == [r EXCEPT !.compile = {}, !.pc = "deploy"]
  <2>1. PICK o \in Outcomes(txn[a] # NoTxn) :
          /\ Execute(o[1], a, Touched(s, a))
          /\ \/ \E left : Become(s, Left(left))
             \/ \E e : Become(s, Raise(r, e))
             \/ Become(s, m)
    BY <1>4 DEF PrecompileBatch
  <2>2. Grows(Touched(s, a), s, a, {})
    BY DEF Grows
  <2>3. OthersSee(s) /\ Reaches(s, {})
    BY <1>1, <1>2, <2>1, <2>2, RequestSees
  <2>4. r.pc = "precompile" /\ live' = live
    BY <1>4 DEF PrecompileBatch, Unseen
  <2>5. /\ \A x : Left(x).apps = r.apps /\ Left(x).pc \in {"precompile", "deploy"}
        /\ m.apps = r.apps /\ m.pc = "deploy"
    BY <1>1, <2>4 DEF Client
  <2> HIDE DEF Left, m
  <2> QED
    BY <1>3, <2>1, <2>3, <2>4, <2>5
<1>5. CASE Deploy(s)
  <2> DEFINE n == [r EXCEPT !.pc = "isready", !.tries = 0]
             t == [Touched(s, a) EXCEPT !.deployed = TRUE]
  <2>1. live' = live
    BY <1>5 DEF Deploy, Unseen
  <2>2. CASE UNCHANGED txn /\ Become(s, Raise(r, "other"))
    BY <1>3, <2>1, <2>2, NoRequestSees
  <2>3. CASE \E o \in Outcomes(txn[a] # NoTxn) :
               /\ Execute(o[1], a, t)
               /\ Become(s, IF o[2] = "ok" THEN n ELSE Raise(r, o[2]))
    <3>1. PICK o \in Outcomes(txn[a] # NoTxn) :
               /\ Execute(o[1], a, t)
               /\ Become(s, IF o[2] = "ok" THEN n ELSE Raise(r, o[2]))
      BY <2>3
    <3>2. Grows(t, s, a, {})
      BY DEF Grows
    <3>3. n.apps = r.apps /\ n.pc = "isready"
      BY <1>1 DEF Client
    <3> HIDE DEF n, t
    <3>4. OthersSee(s) /\ Reaches(s, {})
      BY <1>1, <1>2, <3>1, <3>2, RequestSees
    <3> QED
      BY <1>3, <2>1, <3>1, <3>3, <3>4
  <2> QED
    BY <1>5, <2>2, <2>3 DEF Deploy
<1>6. CASE IsReady(s)
  <2> DEFINE n == [r EXCEPT !.pc = "startserving", !.tries = 0]
             m == [r EXCEPT !.tries = r.tries + 1]
  <2>1. /\ UNCHANGED <<txn, live>> /\ r.pc = "isready"
        /\ \/ Become(s, n) \/ Become(s, TryAgain(r)) \/ \E e : Become(s, Raise(r, e))
    BY <1>6 DEF IsReady, Unseen
  <2>2. n.apps = r.apps /\ n.pc = "startserving" /\ m.apps = r.apps /\ m.pc = "isready"
    BY <1>1, <2>1 DEF Client
  <2>3. TryAgain(r) = m \/ TryAgain(r) = Raise(r, "other")
    BY DEF TryAgain
  <2> HIDE DEF n, m
  <2>4. OthersSee(s) /\ Reaches(s, {})
    BY <2>1, NoRequestSees
  <2> QED
    BY <1>3, <2>1, <2>2, <2>3, <2>4
<1> QED
  BY <1>4, <1>5, <1>6

(* The version goes live: nothing is pending, so what its transaction holds  *)
(* is everything.                                                            *)
LEMMA StartServingStays ==
  ASSUME CompleteInv, NEW s \in Sessions, StartServing(s)
  PROVE  Stays(s) /\ ServedIsComplete'
<1> DEFINE r == c[s]
           a == App(s)
           n == [r EXCEPT !.pc = "isserving"]
           m == [r EXCEPT !.pc = "pagespeed", !.inTransaction = FALSE]
<1>1. r \in Client /\ r.pc = "startserving" /\ TypeInv
  BY DEF CompleteInv, TypeInv, TypeOK, StartServing
<1>2. a \in AppIds /\ live \in [AppIds -> Transaction \cup {NoTxn}]
  BY <1>1, AppType DEF TypeInv, TypeOK
<1>3. PICK o \in Outcomes(txn[a].deployed) :
        /\ Execute(o[1], a, NoTxn)
        /\ live' = IF o[1] THEN [live EXCEPT ![a] = Touched(s, a)] ELSE live
        /\ Become(s, n) \/ Become(s, m) \/ \E e : Become(s, Raise(r, e))
  BY DEF StartServing
<1>4. Stays(s)
  <2>1. n.pc = "isserving" /\ m.pc = "pagespeed"
    BY <1>1 DEF Client
  <2> HIDE DEF n, m
  <2>2. Settled(s, n) /\ Settled(s, m)
    BY <2>1, OutsideSettled DEF OpenPcs
  <2>3. NoTxn.by \notin Sessions \ {s}
    BY UploadAssumption DEF NoTxn
  <2>4. OthersSee(s)
    BY <1>1, <1>3, <2>3, OpensSees
  <2> QED
    BY <1>3, <2>2, <2>4, LeavesSettled DEF Stays
<1>5. ASSUME o[1], ~Touched(s, a).mixed PROVE Needed \subseteq Touched(s, a).has
  <2>1. txn[a].deployed
    BY <1>5, OutcomesFacts
  <2>2. txn[a] # NoTxn
    BY <2>1 DEF NoTxn
  <2>3. /\ Touched(s, a).has = txn[a].has
        /\ Touched(s, a).mixed = (txn[a].mixed \/ txn[a].by # s)
    BY <1>1, <1>2, <2>2, TouchedFacts DEF TypeInv, TypeOK
  <2>4. CoveredBy(s) /\ Pending(r) = {} /\ r.pc \in OpenPcs
    BY <1>1, CoveredIs DEF CompleteInv, Pending, OpenPcs
  <2>5. txn[a].by = s /\ ~txn[a].mixed
    BY <1>5, <2>3
  <2> QED
    BY <2>3, <2>4, <2>5 DEF CoveredBy
<1>6. ASSUME NEW b \in AppIds, live'[b] # NoTxn, ~live'[b].mixed
      PROVE  Needed \subseteq live'[b].has
  <2>1. CASE o[1] /\ b = a
    BY <1>2, <1>3, <1>5, <1>6, <2>1
  <2>2. CASE ~(o[1] /\ b = a)
    BY <1>2, <1>3, <1>6, <2>2 DEF CompleteInv, ServedIsComplete
  <2> QED
    BY <2>1, <2>2
<1>7. ServedIsComplete'
  BY <1>6 DEF ServedIsComplete, Needed, UploadsOf, IsStaticFile, IsErrorFile, IsApplicationFile
<1> QED
  BY <1>4, <1>7

(* Every step keeps what is served complete.                                 *)
LEMMA CompleteStep == CompleteInv /\ [Next]_vars => CompleteInv'
<1> SUFFICES ASSUME CompleteInv, [Next]_vars PROVE CompleteInv'
  OBVIOUS
<1>1. TypeInv /\ TypeInv' /\ ServedIsComplete
  BY TypeStep DEF CompleteInv
<1>2. ASSUME NEW s \in Sessions, Steps(s) \/ Kill(s) PROVE CompleteInv'
  <2>1. Stays(s) /\ (live' = live \/ ServedIsComplete')
    BY <1>2, EndsStay, CreateStays, CloneStays, BegunStays, UploadsStay, CommitsStay,
       StartServingStays DEF Steps
  <2>2. ServedIsComplete'
    BY <1>1, <2>1, ServedStill
  <2> QED
    BY <1>1, <2>1, <2>2, CompleteStays
<1>3. CASE UNCHANGED vars
  <2>1. c' = c /\ txn' = txn /\ live' = live
    BY <1>3 DEF vars
  <2>2. ServedIsComplete'
    BY <1>1, <2>1, ServedStill
  <2>3. (\A t \in Sessions : /\ Flushed(c[t])
                             /\ c[t].pc \in {"create", "clone"} => c[t].files = AllFiles)'
    BY <2>1 DEF CompleteInv, Flushed, AddsFlushed, FlushAfter, AllFiles
  <2>4. Covered'
    BY <2>1 DEF CompleteInv, Covered, App, Pending, Outstanding, Waiting, CallsOf, Upload,
       Batched, Needed, UploadsOf, IsStaticFile, IsErrorFile, IsApplicationFile
  <2> QED
    BY <1>1, <2>2, <2>3, <2>4 DEF CompleteInv
<1> QED
  BY <1>2, <1>3 DEF Next, Done

(* Whatever was cloned, batched or sent singly, and whichever requests were  *)
(* answered with an error although they were executed: the version that      *)
(* startserving makes live holds every file in each form it is served in,    *)
(* unless two sessions' requests went into one transaction.                  *)
THEOREM NothingLeftBehind == Spec => []ServedIsComplete
<1>1. Spec => []CompleteInv
  BY CompleteInit, CompleteStep, PTL DEF Spec
<1>2. CompleteInv => ServedIsComplete
  BY DEF CompleteInv
<1> QED
  BY <1>1, <1>2, PTL
=============================================================================
