----------------------------- MODULE AppUpload -----------------------------
(***************************************************************************)
(* How snova-gae gets to App Engine: deployer.py asks for an action and a  *)
(* list of app ids and runs appcfg once per app id; appcfg's update opens  *)
(* a transaction on the admin server, clones what the server has, uploads  *)
(* the rest in batches, precompiles, deploys and starts serving            *)
(* (AppVersionUpload, UploadBatcher and RetryWithBackoff of appcfg.py).    *)
(* A session is a terminal in which somebody runs the deployer; sessions   *)
(* share nothing but the server, which is external and modelled from what  *)
(* the client relies on.  Every request may fail in each way that Send can *)
(* raise, before or after the server executed it (Send repeats a request   *)
(* that was answered with 5xx, see RpcServer).  A definition marked         *)
(* "Variant" is a fault put in place of the one it precedes to see that    *)
(* the properties notice it.                                               *)
(***************************************************************************)
EXTENDS Integers, Sequences, FiniteSets, FiniteSetsExt, SequencesExt

CONSTANTS
  Sessions,
  AppIds,
  Terminals,         \* what may be entered in each: an action and the AppID
                     \* line, split at the commas
  Configs,           \* servers and runtimes, see config
  Paths,             \* paths in their sorted order: a set of numbers
  StaticFiles,       \* those a static handler of app.yaml matches
  ErrorFiles,        \* those an error handler names
  TooLong,           \* those above the server's resource limits
  Size,              \* bytes of each path
  MaxFilesToClone,   \* the resource limit max_files_to_clone
  MaxBatchSize, MaxBatchCount, MaxBatchFileSize, BatchOverhead,
  MaxTries,          \* the last argument of RetryWithBackoff
  None

ASSUME UploadAssumption ==
  /\ Paths \subseteq Nat /\ IsFiniteSet(Paths)
  /\ StaticFiles \cup ErrorFiles \cup TooLong \subseteq Paths
  /\ Configs \subseteq [old : BOOLEAN, go : BOOLEAN]
  /\ Size \in [Paths -> Nat]
  /\ Terminals \subseteq [Sessions -> [action : {"update", "rollback"}, apps : Seq(AppIds)]]
  /\ {MaxFilesToClone, MaxTries} \subseteq Nat \ {0}
  /\ {MaxBatchSize, MaxBatchCount, MaxBatchFileSize, BatchOverhead} \subseteq Nat
  /\ None \notin Sessions

What == {"file", "blob", "errorblob"}

\* The kinds of file a path is uploaded as (FileClassification), in the order
\* UploadFile sends them.
IsStaticFile(f) == f \in StaticFiles
IsErrorFile(f) == f \in ErrorFiles
IsApplicationFile(f) == ~IsStaticFile(f) /\ ~IsErrorFile(f)

UploadsOf(f) ==
  (IF IsStaticFile(f) THEN <<"blob">> ELSE <<>>) \o
  (IF IsErrorFile(f) THEN <<"errorblob">> ELSE <<>>) \o
  (IF IsApplicationFile(f) THEN <<"file">> ELSE <<>>)

\* Everything the server must hold for a version of all of Paths.
Needed ==
  {u \in What \X (Paths \ TooLong) : u[1] \in ToSet(UploadsOf(u[2]))}

Exceptions == {"none", "http", "yaml", "other", "interrupt"}

Item == [op : {"add", "put", "flush", "single"}, what : What, path : Paths \cup {None}]

Pcs == {"idle", "limits", "create", "clone", "upload", "precompile", "deploy",
        "isready", "startserving", "isserving", "pagespeed", "rollback",
        "raised", "end"}

\* A session: the deployer's loop, and the AppVersionUpload of the app id it
\* is at.  files is the dictionary of paths that are still to be uploaded,
\* agenda the calls of UploadFile and the three flushes that are still to be
\* made, compile the precompilation's files.  Two histories of the current
\* run: sent, the uploads it made, and told, whether the server told it that a
\* transaction is open.
Client ==
  [pc : Pcs, action : {"update", "rollback"}, apps : Seq(AppIds),
   files : SUBSET Paths, toClone : SUBSET ({"blob", "file"} \X Paths),
   missing : SUBSET Paths, agenda : Seq(Item),
   batch : [What -> Seq(Paths)], batching : [What -> BOOLEAN],
   inTransaction : BOOLEAN, compile : SUBSET Paths, tries : 0..MaxTries,
   exc : Exceptions, sent : SUBSET (What \X Paths), told : BOOLEAN]

\* A transaction of the server: who opened it, what it holds, whether deploy
\* was executed; mixed says that another session's request went into it.
Transaction ==
  [by : Sessions, has : SUBSET (What \X Paths), deployed : BOOLEAN, mixed : BOOLEAN]

NoTxn == [by |-> None, has |-> {}, deployed |-> FALSE, mixed |-> FALSE]

VARIABLES
  c,       \* the sessions
  txn,     \* the server's open transaction of each app, or NoTxn
  live,    \* the version each app serves, or NoTxn
  config,  \* old: no batch URLs on this server; go: runtime: go in app.yaml
  lost,    \* history: apps for which a session lost track of its transaction
  twice    \* history: some upload was made twice in one run

vars == <<c, txn, live, config, lost, twice>>

TypeOK ==
  /\ c \in [Sessions -> Client]
  /\ txn \in [AppIds -> Transaction \cup {NoTxn}]
  /\ live \in [AppIds -> Transaction \cup {NoTxn}]
  /\ config \in [old : BOOLEAN, go : BOOLEAN]
  /\ lost \in [Sessions -> SUBSET AppIds]
  /\ twice \in BOOLEAN

\* The deployer between two runs of appcfg, and a new AppVersionUpload with its
\* three batchers.
NewUpload(pc, action, apps) ==
  [pc |-> pc, action |-> action, apps |-> apps, files |-> {}, toClone |-> {},
   missing |-> {}, agenda |-> <<>>, batch |-> [w \in What |-> <<>>],
   batching |-> [w \in What |-> TRUE], inTransaction |-> FALSE, compile |-> {},
   tries |-> 0, exc |-> "none", sent |-> {}, told |-> FALSE]

Init ==
  /\ \E t \in Terminals : c = [s \in Sessions |-> NewUpload("idle", t[s].action, t[s].apps)]
  /\ txn = [a \in AppIds |-> NoTxn]
  /\ live = [a \in AppIds |-> NoTxn]
  /\ config \in Configs
  /\ lost = [s \in Sessions |-> {}]
  /\ twice = FALSE

-----------------------------------------------------------------------------
(* A request and what can come of it.                                       *)

App(s) == Head(c[s].apps)

Errors == {"http", "other", "interrupt"}

\* <<executed by the server, what Send does>>.  A server that does not accept
\* a request does not execute it; one that does may have executed it although
\* the client gets an error: a lost answer, Ctrl-C while waiting, or a request
\* repeated after a 5xx and refused the second time.
Outcomes(accepts) ==
  IF accepts THEN {<<TRUE, "ok">>} \cup (BOOLEAN \X Errors)
             ELSE {FALSE} \X Errors

Become(s, r) == c' = [c EXCEPT ![s] = r]

\* Variants: Ctrl-C leaves without a rollback; every error rolls back.
RaiseInterrupt(r, e) ==
  [NewUpload(IF r.inTransaction /\ e # "interrupt" THEN "rollback" ELSE "raised",
             r.action, r.apps)
     EXCEPT !.inTransaction = r.inTransaction, !.exc = e, !.told = r.told]
RaiseRollsBack(r, e) ==
  [NewUpload("rollback", r.action, r.apps) EXCEPT !.exc = e, !.told = r.told]

\* The except clauses of DoUpload: Rollback, which asks the server only when
\* a transaction is in progress, and raise again.  Nothing else of the upload
\* is used after that.
Raise(r, e) ==
  [NewUpload(IF r.inTransaction THEN "rollback" ELSE "raised", r.action, r.apps)
     EXCEPT !.inTransaction = r.inTransaction, !.exc = e, !.told = r.told]

\* A request executed on the transaction of a changes it to t.
Execute(done, a, t) == txn' = IF done THEN [txn EXCEPT ![a] = t] ELSE txn

Touched(s, a) == [txn[a] EXCEPT !.mixed = @ \/ txn[a].by # s]

\* On to the next app id, or to the end of the deployer.
NextApp(r) == NewUpload("idle", r.action, Tail(r.apps))
Ended(r) == NewUpload("end", r.action, <<>>)

Unseen == UNCHANGED <<live, config, lost, twice>>

-----------------------------------------------------------------------------
(* The deployer and the actions of appcfg.                                  *)

\* The actions update, for a directory, and rollback, which sets in_transaction
\* itself.
Update(r) == [r EXCEPT !.pc = "limits"]
RollbackAction(r) == [r EXCEPT !.pc = "rollback", !.inTransaction = TRUE]

\* The loop of deployer.py takes the next app id and calls appcfg, which reads
\* app.yaml; Run reports an error in it.
Start(s) ==
  /\ c[s].pc = "idle" /\ c[s].apps # <<>>
  /\ \/ c[s].action = "update" /\ Become(s, Update(c[s]))
     \/ c[s].action = "rollback" /\ Become(s, RollbackAction(c[s]))
     \/ Become(s, Raise(c[s], "yaml"))
  /\ UNCHANGED txn /\ Unseen

\* The scan of the local files drops those that are too long.
AllFiles == Paths \ TooLong

\* GetResourceLimits, which takes a 404 for no limits, and the scan.  An error
\* up to here is raised without a Rollback.
GetResourceLimits(s) ==
  /\ c[s].pc = "limits"
  /\ \/ Become(s, [c[s] EXCEPT !.pc = "create", !.files = AllFiles])
     \/ \E e \in Errors : Become(s, Raise(c[s], e))
  /\ UNCHANGED txn /\ Unseen

\* Begin up to the lists of files to clone: in_transaction is set once the
\* server has answered.
Create(s) ==
  /\ c[s].pc = "create"
  /\ LET a == App(s)
         r == [c[s] EXCEPT !.pc = "clone", !.inTransaction = TRUE, !.told = TRUE,
                 !.toClone = {p \in {"blob", "file"} \X c[s].files :
                   IF p[1] = "blob" THEN IsStaticFile(p[2]) ELSE IsApplicationFile(p[2])}]
     IN \E o \in Outcomes(txn[a] = NoTxn) :
          /\ Execute(o[1], a, [NoTxn EXCEPT !.by = s])
          /\ Become(s, IF o[2] = "ok" THEN r ELSE Raise(c[s], o[2]))
          /\ lost' = IF o[1] /\ o[2] # "ok" THEN [lost EXCEPT ![s] = @ \cup {a}] ELSE lost
  /\ UNCHANGED <<live, config, twice>>

\* CloneFiles sends the blobs, then the files, at most MaxFilesToClone at a
\* time; the server answers which of a chunk it misses.
CloneFiles(s) ==
  /\ c[s].pc = "clone" /\ c[s].toClone # {}
  /\ LET a == App(s)
         r == c[s]
         kind == IF \E p \in r.toClone : p[1] = "blob" THEN "blob" ELSE "file"
         left == {p \in r.toClone : p[1] = kind}
         n == IF Cardinality(left) < MaxFilesToClone THEN Cardinality(left) ELSE MaxFilesToClone
     IN \E chunk \in kSubset(n, left), o \in Outcomes(txn[a] # NoTxn) :
        \E absent \in SUBSET chunk :
          /\ Execute(o[1], a, [Touched(s, a) EXCEPT !.has = @ \cup (chunk \ absent)])
          /\ Become(s, IF o[2] = "ok"
                       THEN [r EXCEPT !.toClone = @ \ chunk,
                                      !.missing = @ \cup {p[2] : p \in absent}]
                       ELSE Raise(r, o[2]))
  /\ Unseen

\* The end of Begin: error blobs are always uploaded.
Begun(s) ==
  /\ c[s].pc = "clone" /\ c[s].toClone = {}
  /\ LET todo == c[s].missing \cup {f \in c[s].files : IsErrorFile(f)} IN
       Become(s, [c[s] EXCEPT !.files = todo,
                              !.pc = IF todo = {} THEN "precompile" ELSE "upload",
                              !.compile = IF config.go
                                THEN {f \in AllFiles : IsApplicationFile(f)} ELSE {}])
  /\ UNCHANGED txn /\ Unseen

-----------------------------------------------------------------------------
(* The uploads: UploadFile, UploadBatcher.                                   *)

Adds(f) ==
  [i \in 1..Len(UploadsOf(f)) |-> [op |-> "add", what |-> UploadsOf(f)[i], path |-> f]]

\* Variant: the application files are not flushed.
FlushesTwo ==
  LET F(w) == [op |-> "flush", what |-> w, path |-> None]
  IN <<F("blob"), F("errorblob")>>

Flushes ==
  LET F(w) == [op |-> "flush", what |-> w, path |-> None]
  IN <<F("file"), F("blob"), F("errorblob")>>

\* The next missing file: it leaves self.files, is read and handed to the
\* batchers.  Opening it may fail.
UploadFile(s) ==
  /\ c[s].pc = "upload" /\ c[s].agenda = <<>> /\ c[s].files # {}
  /\ \/ \E f \in c[s].files :
          LET rest == c[s].files \ {f} IN
            /\ \A g \in rest : f < g
            /\ Become(s, [c[s] EXCEPT !.files = rest,
                            !.agenda = Adds(f) \o (IF rest = {} THEN Flushes ELSE <<>>)])
     \/ Become(s, Raise(c[s], "other"))
  /\ UNCHANGED txn /\ Unseen

\* Whether a file would overflow a batch.
BatchIsFull(batch, f) ==
  \/ Len(batch) >= MaxBatchCount
  \/ FoldLeft(LAMBDA n, g : n + Size[g] + BatchOverhead, 0, batch) + Size[f] > MaxBatchSize

\* The session after the head of its agenda; after the last flush it goes on to
\* the precompilation.
Advance(r) ==
  [r EXCEPT !.agenda = Tail(@),
            !.pc = IF Len(r.agenda) = 1 /\ r.files = {} THEN "precompile" ELSE @]

\* AddToBatch: "add" is the call, "put" what follows its Flush.
AddToBatch(s) ==
  /\ c[s].pc = "upload" /\ c[s].agenda # <<>>
  /\ LET r == c[s]
         i == Head(r.agenda)
         small == Size[i.path] <= MaxBatchFileSize
         full == i.op = "add" /\ small /\ BatchIsFull(r.batch[i.what], i.path)
         Then(ops) == [r EXCEPT !.agenda =
                         [k \in 1..Len(ops) |-> [i EXCEPT !.op = ops[k]]] \o Tail(@)]
     IN /\ i.op \in {"add", "put"}
        /\ \/ full /\ Become(s, Then(<<"flush", "put">>))
           \/ /\ ~full /\ small /\ r.batching[i.what]
              /\ Become(s, [Advance(r) EXCEPT !.batch[i.what] = Append(@, i.path)])
           \/ ~full /\ ~(small /\ r.batching[i.what]) /\ Become(s, Then(<<"single">>))
  /\ UNCHANGED txn /\ Unseen

\* An upload that is sent.
Sending(r, uploads) == [r EXCEPT !.sent = @ \cup uploads]

SentBefore(r, uploads) == twice' = (twice \/ uploads \cap r.sent # {})

\* The files of a batch, one by one.
Singles(w, batch) ==
  [i \in 1..Len(batch) |-> [op |-> "single", what |-> w, path |-> batch[i]]]

\* Variant: the batch is kept.
KeepBatch(r, w) == r

\* A batcher when Flush is done with its batch.
ResetBatch(r, w) == [r EXCEPT !.batch[w] = <<>>]

\* Flush.  A 404 means a server without batch URLs: batching is off from here
\* on and the files are sent one by one.
Flush(s) ==
  /\ c[s].pc = "upload" /\ c[s].agenda # <<>> /\ Head(c[s].agenda).op = "flush"
  /\ LET r == c[s]
         w == Head(r.agenda).what
         a == App(s)
         uploads == {w} \X ToSet(r.batch[w])
     IN \/ /\ r.batch[w] = <<>>
           /\ Become(s, Advance(r))
           /\ UNCHANGED <<txn, twice>>
        \/ /\ r.batch[w] # <<>> /\ config.old
           /\ Become(s, [ResetBatch(r, w) EXCEPT !.batching[w] = FALSE,
                           !.agenda = Singles(w, r.batch[w]) \o Tail(@)])
           /\ UNCHANGED <<txn, twice>>
        \/ /\ r.batch[w] # <<>>
           /\ \E o \in Outcomes(txn[a] # NoTxn /\ ~config.old) :
                /\ Execute(o[1], a, [Touched(s, a) EXCEPT !.has = @ \cup uploads])
                /\ Become(s, IF o[2] = "ok"
                             THEN Advance(Sending(ResetBatch(r, w), uploads))
                             ELSE Raise(r, o[2]))
           /\ SentBefore(r, uploads)
  /\ UNCHANGED <<live, config, lost>>

SendSingleFile(s) ==
  /\ c[s].pc = "upload" /\ c[s].agenda # <<>> /\ Head(c[s].agenda).op = "single"
  /\ LET r == c[s]
         a == App(s)
         uploads == {<<Head(r.agenda).what, Head(r.agenda).path>>}
     IN /\ \E o \in Outcomes(txn[a] # NoTxn) :
             /\ Execute(o[1], a, [Touched(s, a) EXCEPT !.has = @ \cup uploads])
             /\ Become(s, IF o[2] = "ok" THEN Advance(Sending(r, uploads))
                                        ELSE Raise(r, o[2]))
        /\ SentBefore(r, uploads)
  /\ UNCHANGED <<live, config, lost>>

-----------------------------------------------------------------------------
(* Precompile, Commit and Rollback.                                          *)

\* PrecompileBatch: the server answers which files are left, any list of them,
\* and is asked again until none is; nothing bounds the loop.  An HTTPError is
\* raised when it is 422 or the runtime is go; otherwise the app is deployed
\* without precompilation.
PrecompileBatch(s) ==
  /\ c[s].pc = "precompile"
  /\ LET a == App(s)
         r == c[s]
         all == {f \in AllFiles : IsApplicationFile(f)}
     IN \E o \in Outcomes(txn[a] # NoTxn) :
          /\ Execute(o[1], a, Touched(s, a))
          /\ \/ /\ o[2] = "ok"
                /\ \E left \in SUBSET all :
                     Become(s, [r EXCEPT !.compile = left,
                                  !.pc = IF left = {} THEN "deploy" ELSE @])
             \/ o[2] # "ok" /\ Become(s, Raise(r, o[2]))
             \/ /\ o[2] = "http" /\ ~config.go
                /\ Become(s, [r EXCEPT !.compile = {}, !.pc = "deploy"])
  /\ Unseen

Deploy(s) ==
  /\ c[s].pc = "deploy"
  /\ LET a == App(s)
         r == c[s]
     IN \/ /\ r.files # {}
           /\ Become(s, Raise(r, "other"))
           /\ UNCHANGED txn
        \/ /\ r.files = {}
           /\ \E o \in Outcomes(txn[a] # NoTxn) :
                /\ Execute(o[1], a, [Touched(s, a) EXCEPT !.deployed = TRUE])
                /\ Become(s, IF o[2] = "ok" THEN [r EXCEPT !.pc = "isready", !.tries = 0]
                                           ELSE Raise(r, o[2]))
  /\ Unseen

\* Variant: the count starts again.
TryForever(r) ==
  IF r.tries + 1 >= MaxTries THEN [r EXCEPT !.tries = 0] ELSE [r EXCEPT !.tries = @ + 1]

\* One call of RetryWithBackoff: when the server says no, try again unless
\* this was the last try.
TryAgain(r) ==
  IF r.tries + 1 >= MaxTries THEN Raise(r, "other") ELSE [r EXCEPT !.tries = @ + 1]

IsReady(s) ==
  /\ c[s].pc = "isready"
  /\ LET r == c[s]
         a == App(s)
     IN \/ txn[a].deployed /\ Become(s, [r EXCEPT !.pc = "startserving", !.tries = 0])
        \/ Become(s, TryAgain(r))
        \/ \E e \in Errors : Become(s, Raise(r, e))
  /\ UNCHANGED txn /\ Unseen

\* StartServing ends the transaction on the server.  An empty answer is an old
\* server's, one to wait for follows otherwise.
StartServing(s) ==
  /\ c[s].pc = "startserving"
  /\ LET a == App(s)
         r == c[s]
     IN \E o \in Outcomes(txn[a].deployed) :
          /\ Execute(o[1], a, NoTxn)
          /\ live' = IF o[1] THEN [live EXCEPT ![a] = Touched(s, a)] ELSE live
          /\ \/ o[2] = "ok" /\ Become(s, [r EXCEPT !.pc = "isserving"])
             \/ /\ o[2] = "ok"
                /\ Become(s, [r EXCEPT !.pc = "pagespeed", !.inTransaction = FALSE])
             \/ o[2] # "ok" /\ Become(s, Raise(r, o[2]))
  /\ UNCHANGED <<config, lost, twice>>

IsServing(s) ==
  /\ c[s].pc = "isserving"
  /\ LET r == c[s]
     IN \/ Become(s, [r EXCEPT !.pc = "pagespeed", !.inTransaction = FALSE, !.tries = 0])
        \/ Become(s, TryAgain(r))
        \/ \E e \in Errors : Become(s, Raise(r, e))
  /\ UNCHANGED txn /\ Unseen

\* The last step of Update: an HTTPError is only printed.
UpdatePagespeed(s) ==
  /\ c[s].pc = "pagespeed"
  /\ \/ Become(s, NextApp(c[s]))
     \/ \E e \in {"other", "interrupt"} : Become(s, Raise(c[s], e))
  /\ UNCHANGED txn /\ Unseen

\* Rollback, in an except clause of DoUpload or as the action.  An error of
\* its own takes the place of the one that is being raised.
Rollback(s) ==
  /\ c[s].pc = "rollback"
  /\ LET a == App(s)
         r == [c[s] EXCEPT !.inTransaction = FALSE, !.files = {}]
     IN \E o \in Outcomes(txn[a] # NoTxn) :
          /\ Execute(o[1], a, NoTxn)
          /\ Become(s, IF o[2] # "ok" THEN [c[s] EXCEPT !.pc = "raised", !.exc = o[2]]
                       ELSE IF r.action = "rollback"
                            THEN NextApp(r)
                            ELSE [r EXCEPT !.pc = "raised"])
          /\ lost' = IF ~o[1] THEN [lost EXCEPT ![s] = @ \cup {a}] ELSE lost
  /\ UNCHANGED <<live, config, twice>>

\* Run reports HTTPErrors and YAML errors, main reports Ctrl-C, and both
\* return to the deployer's loop; any other exception ends the loop.
Raised(s) ==
  /\ c[s].pc = "raised"
  /\ Become(s, IF c[s].exc = "other" THEN Ended(c[s]) ELSE NextApp(c[s]))
  /\ UNCHANGED txn /\ Unseen

Finish(s) ==
  /\ c[s].pc = "idle" /\ c[s].apps = <<>>
  /\ Become(s, Ended(c[s]))
  /\ UNCHANGED txn /\ Unseen

\* The terminal is closed: nothing is rolled back.
Kill(s) ==
  /\ c[s].pc \notin {"idle", "end"}
  /\ Become(s, Ended(c[s]))
  /\ lost' = [lost EXCEPT ![s] = @ \cup {App(s)}]
  /\ UNCHANGED <<txn, live, config, twice>>

Steps(s) ==
  \/ Start(s) \/ GetResourceLimits(s) \/ Create(s) \/ CloneFiles(s) \/ Begun(s)
  \/ UploadFile(s) \/ AddToBatch(s) \/ Flush(s) \/ SendSingleFile(s)
  \/ PrecompileBatch(s) \/ Deploy(s) \/ IsReady(s) \/ StartServing(s) \/ IsServing(s)
  \/ UpdatePagespeed(s) \/ Rollback(s) \/ Raised(s) \/ Finish(s)

Done == (\A s \in Sessions : c[s].pc = "end") /\ UNCHANGED vars

Next == (\E s \in Sessions : Steps(s) \/ Kill(s)) \/ Done

Spec == Init /\ [][Next]_vars

\* Every request ends (the server answers, or the socket fails), every file is
\* read, and each session is a process of its own that goes on.
FairSpec == Spec /\ \A s \in Sessions : WF_vars(Steps(s))

-----------------------------------------------------------------------------
(* Properties.                                                              *)

\* A version that goes live holds every file of the upload, in each form it
\* is served in, whatever mixture of clones, batches and single files brought
\* them there, unless two sessions' requests went into one transaction.
ServedIsComplete ==
  \A a \in AppIds : live[a] # NoTxn /\ ~live[a].mixed => Needed \subseteq live[a].has

Working(s, a) ==
  c[s].pc \notin {"idle", "end"} /\ App(s) = a

\* A session leaves a transaction open behind it, which blocks every later
\* update of the app, only when it could not know of it or could not close it:
\* the answer to create was lost, rollback failed, or the session was killed.
OrphanOnlyIfLost ==
  \A s \in Sessions, a \in AppIds :
    txn[a].by = s /\ ~Working(s, a) => a \in lost[s]

\* An update closes a transaction, be it by start serving or by a rollback,
\* only after the server told it that it had opened one: an update refused
\* because somebody else's is running does not roll that one back.
NoForeignRollback ==
  [][\A a \in AppIds :
       txn[a] # NoTxn /\ txn'[a] = NoTxn =>
         \E s \in Sessions :
           /\ c[s].pc \in {"startserving", "rollback"} /\ c'[s] # c[s] /\ App(s) = a
           /\ c[s].action = "rollback" \/ c[s].told]_vars

\* No file is sent twice in one upload, also when batching is given up half
\* way.
SentOnce == ~twice

\* Every session comes to its end, whatever the server answers and however
\* its steps mix with another session's, unless the server has it precompile
\* for ever: that loop is the only one without a bound.
EverySessionEnds ==
  \A s \in Sessions :
    ([]<>(c[s].pc # "precompile")) => <>(c[s].pc = "end")
=============================================================================
