# A formal model of snova-gae

snova-gae is the Google App Engine side of the Snova proxy. A client posts an
*event* (an HTTP request to fetch, a tunnel operation, an app id to share) to
`/invoke`; the server decodes it, serves it and answers with another event. The
repository holds two servers, one in Go (`src/go/src`) and one in Java
(`src/java/src`), and what gets the Go server to App Engine: `deployer.py` and
the SDK's `appcfg` with its RPC classes and YAML library (`src/go/appcfg`),
which is most of the repository's code. This directory specifies these parts in
TLA+, checks them with TLC and proves most of what TLC checks, for any values of
the constants, with TLAPS.

## Inventory

| Part | State | Operations | What makes it correct | Here |
|---|---|---|---|---|
| Tunnel, `service/tunnel.go` | the map user -> session id -> connection, a mutex, sockets | connect, write, read, close, status | a request uses its own user's connection, the map holds live ones, none leaks or is closed twice, every request is answered | `Tunnel` |
| Share centre, `service/master.go` | list of shared app ids, datastore | share, unshare, retrieve, load at start-up | list and datastore agree, only the owner removes an app id, none changes hands | `SharedAppIds` |
| Fetch, `service/fetch.go` | retry budget, request, content buffer, all local to a request | one HTTP fetch with retries | a retry asks for what the client asked, content is not posted twice, every fetch is answered | `Fetch` |
| Dispatch, config, `service/dispatch.go`, `config.go` | configuration, constant after start-up | choose a handler, wrap and send the answer | each event reaches its handler, answers are compressed as configured | entry actions of the three modules, `HandleEvent` in `Fetch` |
| HTTP entry, `entry/entry.go` | `serverInited` per instance | lazy start-up, decode, pages | start-up happens once and completes before requests are served | start-up in `SharedAppIds` |
| Deployment, `deployer.py`, `appcfg.py` | a session's batches, its transaction; the server's open transaction and live version | update, rollback | a live version is complete, a transaction is not left open or closed by another, files are sent once | `AppUpload` |
| RPC, `appengine_rpc*.py` | cookies or credentials, counters of tries | `Send` with retries and authentication | the answer is the last request's, retries are bounded, the user is asked on demand | `RpcServer` implements `RpcCall` |
| Request logs, `appcfg.py` | the output, a sentinel, an offset | ask for pages, reverse them into the output | each record once, whole, in order, none missing | `AppLogs` |
| YAML reading, `yaml/scanner.py`, `parser.py` | indents, possible keys, tokens, a stack of states | text to tokens to events | events obey their grammar for any text, nothing is left open, the parser reads on | `YamlScanner`, `YamlParser` implements `YamlEvents` |
| YAML writing, `yaml/serializer.py`, `emitter.py`, read back by `composer.py` | queue, states, indents, column | events to text | what is dumped is read back the same | `YamlScalars`, `YamlEmitter`, `YamlRoundTrip` |
| Configuration objects, `api/yaml_*.py`, `validation.py` | stack of the builder, objects and lists being filled | events to validated objects | the object is what the text says, nothing right is refused | `YamlObjects` |
| Event codec, `event/*.go`; SE1, `util/*.go` | type registry, filled once | encode and decode events | an answer decodes to what was sent | planned |
| Java server, `src/java/src` | the event's headers during a fetch | the same protocol without tunnel and share centre | as for Fetch | planned |
| constructor, representer; other appcfg operations | nodes under construction; none | data from nodes and back; a call each | shared and recursive nodes stay shared | planned in part |
| Configuration classes, Java deployer, `fancy_urllib`, Snappy | - | tables, a script, third-party code | - | not modelled |

How the parts interact. In the server an HTTP request is one goroutine:
`HTTPEventDispatch` starts the instance if need be, decodes the event and calls
`HandleEvent`, which calls one handler and sends its answer. Handlers of
different kinds share no state but the configuration. Handlers of one kind share
what the table lists: the tunnel's map under a mutex, the share centre's list
without one, and the datastore, which all instances share. Requests interleave
wherever a handler waits: for the mutex or a socket in the tunnel, for a
datastore call or a URL fetch in the share centre.

The deployer runs `appcfg` once for each app id, in one thread. It reads
`app.yaml` (scanner, parser, listener, builder, validators), and makes each
request through one RPC object. What it shares with others is the server's
transaction: two people may deploy one app. The hard behaviour is in what
happens when a call fails, its answer is lost, the user presses Ctrl-C, or a
server changes under a run. The YAML library has no concurrency; it is hard
because scanner, parser and emitter are coroutine-like machines that look ahead
of each other. `PROJECT.json` lists every hazard with its line.

## Modules

### Tunnel

Every tunnel request is a worker with a program counter. `userMaps` and `connOf`
are the two levels of `tunnel_conn_map` (an inner map is created on first use and
never removed), `mutex` is `tunnel_conn_map_mutex`, `socket` says what each
connection's socket is connected for and to, or that it is shut; `held`,
`created` and `reply` are a worker's locals.

| Action | Code |
|---|---|
| `Receive` | `handleRecvEvent` chooses the entry point by event type |
| `LookupForConnect` | `getTunnelConn` and the choice in `getCreateTunnelConn`: use the connection, close the one to another address, or dial |
| `LookupForIO` | `getTunnelConn` as called by `TunnelWrite` and `TunnelRead` |
| `CloseLock`, `CloseNothing`, `CloseSocket`, `RemoveAndUnlock` | `closeTunnelConn`: the mutex is held across the three of them, also while the socket is closed |
| `DialOk`, `DialFail`, `SaveTunnelConn` | the second half of `getCreateTunnelConn`: the dial runs without the mutex |
| `IOOk`, `IOFail` | write of initial data, write of a chunk, read |
| `Reply` | the answer, and the end of the goroutine |

A single access to the map under the mutex is one action, as nobody can see
inside it. Bytes, deadlines and the content of answers are left out: a read or a
write succeeds or fails, at any time. `overlapped` and `dialRaced` are history
variables. They record which sessions ever had two requests, or two dialling
connects, in flight, as some guarantees of the code hold only without; the
properties name the exception instead of leaving it out of the model.

### SharedAppIds

Each instance has its list (`list`, a bag, as a raced start-up can load an app id
twice) and all share `store`, the datastore's app id -> e-mail. App Engine ran
the goroutines of a Go instance on one thread, so a worker gives way only at a
call out of the instance and the code between two calls is one action. Calls:
the start-up query and its rows (`Query`, `LoadRow`, `LoadDone`, `LoadFail`), the
fetch of a site (`ShareVerified`, `Answered`, `SiteInvalid`), and the datastore
(`WriteOk`, `WriteFail`; after an error a write may or may not have been
applied). `Receive` is the lazy start-up: two first requests may both load, and
one that meets a half-loaded list starts to serve from it. `Stop` is the
platform stopping an instance with the requests it serves. A write under way
then is either applied before or not at all; one applied later is not modelled.
Mails are left out: no state depends on them.

`torn` is history: the app ids that a failed call, two overlapping writes, a
second instance with a list of its own, or a raced start-up have touched. What
the code promises, it promises for the others, and a restart with no other
instance in use clears the set, because the list is then read from the datastore
alone. When an app id enters `torn` and when it leaves is part of the claim.

### Fetch

One HTTP request event through `Fetch` and the rest of `HandleEvent`. `range` is
the Range header of the `http.Request` built last, `left` is `retryCount`,
`content` tells whether `ev.Content` still has bytes. The recursion after
`RESPONSE_TOO_LARGE` is `CallTooLarge`, `Wake` and `Fetch` again. The transport's
answer is one of: a status (302 or another), an error, too large. That the
transport reads the content of a POST and of no GET is modelled from its use,
as the SDK is not in the repository. Range headers are well-formed: one that is not makes
`ParseRangeHeaderValue` panic (see the hazards). `HandleEvent` chooses the compress type.

### AppUpload

Each session is a terminal with the deployer, one action or a list of app ids,
and a record `c[s]` of what `AppVersionUpload` and its `UploadBatcher`s keep.
`txn` and `live` are the admin server's, which is external: it opens one
transaction per app, refuses a second, and executes what is sent to the open
one. `Outcomes` says what can come of each request: executed or not, answered,
or ended by an HTTP error, another error or Ctrl-C, in any combination that a
lost answer or a repeated request allows.

| Action | Code |
|---|---|
| `Start`, `Finish`, `Raised` | the loop of `deployer.py`, `AppCfgApp.Run` and what it catches |
| `GetResourceLimits`, `Create`, `CloneFiles`, `Begun` | `GetResourceLimits`, `Begin` with `CloneFiles`, the list of files missing |
| `UploadFile`, `AddToBatch`, `Flush`, `SendSingleFile` | `UploadFile`, `UploadBatcher.AddToBatch`, `Flush`, the fallback to single files after a 404 |
| `PrecompileBatch`, `Deploy`, `IsReady`, `StartServing`, `IsServing`, `UpdatePagespeed` | `DoUpload` after the upload, `Commit`, `RetryWithBackoff` |
| `Rollback` | `AppVersionUpload.Rollback`, from a failed update or as an action of its own |
| `Kill` | the terminal is closed |

`sent` and `told` of a session, `lost`, `twice` and `mixed` are history: what
was uploaded, whether the server confirmed the transaction, which sessions lost
track of one, whether something was sent twice, whether two sessions' requests
met in one transaction (the admin server knows a transaction by app and version,
so a late request goes into whichever is open).

### RpcServer and RpcCall

`RpcServer` is `Send` of both classes: with cookies (`SendRequest`, `Login`,
`GetAuthCookie`, `DevAppServerAuthenticate`) and with OAuth2 (`RequestHttplib2`,
`Authenticate`). `Judge` is the ladder of status codes that follows a request.
The admin server may answer anything at any time, so cookies and tokens may
expire between two requests. `RpcCall` is what callers may rely on: a call that
makes requests, repeats one only after a failure of the server or a demand to
authenticate, at most `RpcTries` times, and returns what the last one was
answered. The model begins with the object made: where the host is localhost, the
constructor of the class with cookies logs in at once, before any `Send`. `RpcServer` is shown to implement it with the calls open while `pc` is
inside `Send`.

### AppLogs

The server's log is a sequence of records with a text, a number of application
log lines and a day. The temporary file is a sequence of characters, one for each
part of a record and one for the line break; a line of the output is a part of a
record. Every line that is read and every block and line that is copied is a step
of its own, so that records are logged, a day passes or Ctrl-C comes between any
two. (The lines that stand for one line of the temporary file are one write.)

| Action | Code |
|---|---|
| `Begin` | `RequestLogs` and `LogsRequester.__init__`: the dates, and `FindSentinel` |
| `Answer` | `RequestLogLines` up to its loop: a page, and the offset of the next |
| `SkipLine`, `KeepLine` | the loop: a line without a date or of a later day is passed over, others go to the temporary file |
| `StopAtSentinel`, `StopAtDate`, `NextPage` | what ends the loop, and `DownloadLogs`: the next request, or the output is opened (`Open`) |
| `Interrupt`, `Fails` | Ctrl-C while pages are fetched; any other exception |
| `CopyBlock`, `CopyLine` | `CopyReversedLines`: a block and the spillover, and its lines from the last one |
| `Copied`, `InterruptCopy` | the end of the copy, or Ctrl-C in it |
| `Logged`, `Midnight` | the world |

`at` is the record of the next line and `asked` is history: what the run was asked
for and what log there was. `doubled` and `torn` record the runs after which the
code cannot keep its promise (see Observed differences).

### YamlEvents, YamlScanner, YamlParser

`YamlEvents` is the grammar that heads `emitter.py`, as a stack of what is open
and what each open thing expects; everything that reads events relies on it.
`YamlScanner` has an operator per fetcher, from scanner record to scanner
record: `SaveKey`, `DropFar` and `FetchValue` for the simple keys, `Unwind` and
`AddIndent` for the indentation. A text is what `fetch_more_tokens` dispatches on
with a place; the characters of a lexeme are left out, but `Scan` gives every end
a scan may come to (same line, a later line, a comment or newline behind a block
scalar). `YamlParser` is a table of rows, one for each branch of each
`parse_...` method: on which token, whether it takes it, which event it makes,
where it returns to. `open` is what the events so far have opened; an event that
the grammar does not allow where it comes makes it wrong for good (`Opened`), so
`ImplementsYamlEvents` is about each event's type and not the nesting alone. `Follow` applies a row, `Directive`, `Property`, `Content` and
`Unexpected` are the branches that carry data, `Read` is `fetch_more_tokens`.
`Ended` covers errors: a `ScannerError` or `ParserError` ends the stream.

### YamlScalars, YamlEmitter, YamlRoundTrip

`YamlScalars` is `analyze_scalar` and what `scan_plain` would read, on texts of
characters that stand for the classes the code tells apart. `YamlEmitter` is the
emitter as a record: its queue with `NeedMoreEvents`, one operator for each
`expect_...` method, the choice of style (`Style`), tags and anchors, and the
writers, which put a lexeme with its column in the text. A scalar is written
character by character as far as the column goes: the writers fold it at a space
(a double-quoted one also at an escape) once the line is full (`FoldedChar`,
`WriteDoubleQuoted`), and say in which column it goes on (`Wrap`, `on`). Whether an
event may be a simple key depends on the length of anchor, tag and text together
(`KeyLength`), the tag's on the handles that the document declares (`PrepareTag`);
`Directive` writes those and the version. Block scalars are a lexeme whose own lines
are not looked into, and escapes are characters of width two. `YamlRoundTrip` composes
the serializer's events, the emitter, the scanner, the parser and the composer's
rules for anchors: `Send` is the next event, `EmitNext` the emitter's loop, `Load`
the loader's. The loader follows the emitter closely so that the state stays
small; it sees the text that a load after the dump would.

### YamlObjects

`yaml_listener` hands each event to `yaml_builder`, whose stack is `builder.stack`;
`yaml_object` makes objects and lists, which are on `builder.heap` as the code
assigns them before they are filled. `Scalar`, `MappingStart`, `MappingEnd`,
`SequenceStart`, `SequenceEnd` and `DocumentStart` are the handlers, `Validate` and
`CheckInitialized` the validators. The handlers' assertions are in the model
(`Asserted`): that none fails on a text that is right is part of
`RefusedOnlyIfWrong`. `Schema` gives the classes: which attributes, how validated.

Beside the builder the model keeps what the text says, for the properties to
compare with. A tree would ask for recursion to read it; so `text` numbers the
nodes as they begin, and a node says which collection it is in (`up`), as what
(`as`: a root, a key, a value, an item), at which place or for which key (`at`) and
which rule the schema has for it. `path` is the collections that are open.
`BuiltAsWritten` then speaks of each node and the cell of the heap it is in,
`RefusedOnlyIfWrong` of the nodes that are not `Right`.

### Proof modules

Each extends the module it is about and holds nothing but theorems, their lemmas
and the invariants they rest on, which "Proofs" explains.

| Module | Theorems about |
|---|---|
| `TunnelProofs` | `Tunnel`: all of its safety properties |
| `SharedAppIdsProofs` | `SharedAppIds`: all of its safety properties |
| `FetchProofs` | `Fetch`: its invariants |
| `AppUploadProofs` | `AppUpload`: types, who has a transaction open, what an upload sends |
| `RpcServerProofs` | `RpcServer`: types, prompts, and that it implements `RpcCall` |
| `AppLogsProofs` | `AppLogs`: types, and both of its properties |
| `YamlParserProofs` | `YamlParser`: that it implements `YamlEvents`; and `YamlScanner` under it: simple keys, and the end of a stream |
| `YamlObjectsProofs` | `YamlObjects`: the text is a tree, and both of its properties |

## Runs

| Run | Instance | Shows |
|---|---|---|
| `users` | 2 users with the same session id, 2 addresses, 2 requests in flight, 1 connection at a time | `SessionIsolation`, `SaveFindsUserMap`, every request is answered |
| `race` | 1 session, 2 addresses, 3 requests in flight, 3 connections | no dead connection in the map, no double close, no data to another address, no leak or silent switch without a race of two dials, no newer connection closed in place of one that failed and is open, answers that are true |
| `share_one` | 1 instance, 1 app id, 3 e-mails, 2 requests | list and datastore agree, only owners delete, no takeover, every request ends, the loop of `RetrieveAppIds` too |
| `share_two` | 2 instances, the same | list and datastore agree where instances have lists of their own |
| `fetch` | budget of 3, 2 ranges | the client's range in each attempt, content at most once, budget per call, every fetch is answered |
| `filter` | the same | a violation, see Findings |
| `deploy` | 2 sessions: update of two apps against a rollback, or update against update; 3 files; a new server with a Go app and an old one with a Python app | `ServedIsComplete`, `OrphanOnlyIfLost`, `NoForeignRollback`, `SentOnce`, every session ends |
| `rpc` | both classes, 3 tries, 3 logins, 2 calls | `ImplementsRpcCall`, `PromptsOnDemand`, every call ends |
| `logs` | 3 runs, 3 records of 1 or 2 lines, pages of 2, blocks of 2 characters, 2 days | `OnceInOrder`, `NothingMissing` |
| `load` | any text, 2 columns, 1 flow level | `KeysAhead`, `StreamEndsBalanced`, `ImplementsYamlEvents`, `ReadsOn` |
| `roundtrip` | any events, 9 scalars, depth 2, documents with and without directives | `RoundTrip` |
| `objects` | any 9 events on a schema of two classes | `BuiltAsWritten`, `RefusedOnlyIfWrong` |

### Bounds

Server. Two users are enough for isolation, as it relates a request to one other
user. `users` has one connection at a time, because its liveness is checked
without symmetry; that two open ones stay apart is a theorem for any set of
connections. Three requests on one session are the fewest where a third one runs
between the two halves of another's close and dial while a second one is on the
way. The identity of a connection is used again once its socket is shut and
nothing refers to it. A leaked socket keeps its identity, so after a few leaks
every dial of the instance fails; what comes after that is covered by the
proofs. In the share centre two requests and a restart meet at each call. The
default of `RetryFetchCount` is 2; 3 adds an attempt that is neither the first
nor the last.

Deployment. Two sessions are enough: a transaction has one owner and is
disturbed by one other. Three files are one application file that fits a batch,
one that fills it, and one static and error file that exceeds it, so that each
branch of `AddToBatch` and `Flush` is met; `MaxFilesToClone` = 1 makes several
clone requests, `MaxTries` = 2 a poll that is repeated and one that gives up.
`RpcTries` and `AuthTries` are the values appcfg passes; a second call starts
with what the first left. For logs a block shorter than a line, pages
shorter than the log and a third run (an append to an append) are what
distinguishes the cases; `FindBlock` lets the sentinel be in reach or not. With
`MaxSubs` 1 a record has two or three characters, so that blocks end at every
place of a record; the proofs are for any sizes.

YAML. `MaxCol` = 1 gives two indentation columns, `MaxFlow` one flow collection;
`Far` is how many cells a simple key may lie back (1024 characters in the code),
short enough to expire in the run. These cap what is read, and the text goes on
for ever within them. In `roundtrip`, `MaxDepth` 2 nests each collection in each
other, `MaxSpecial` allows one special thing at a time between the serializer and the
loader: directives, a name (an anchor, a tag, or both on one node), or a text that
is not a word. `Width` 6 (80) and `KeyLimit` 10 (128) are in characters: texts
have up to five, anchors and tags the widths of `NameWidth`. So a short text at
the start of a line is not folded and one behind a tag or a nested key is, and a
key may be too long by itself, with its anchor or with a tag, which a handle makes
shorter. `Directives` has none, or a version and a handle, for each document anew.
`EmptyRoots` = FALSE and `OpenPlainRoots` = FALSE leave out one case each, see
below.
In `objects`,
`MaxEvents` = 9 is a document of an object with a list of one object or a nested
one with its attributes; `Texts` holds a text that is `None` when written plain.

No run but `logs`, `objects` and `rpc` bounds the number of steps. Deadlock is
checked in all of them; where a system comes to an end, a step says so.

### Fairness

`FairSpec` of `Tunnel` is weak fairness of what a worker can do alone
(code runs, and dials, reads and writes end: the code sets deadlines or the
platform does) and strong fairness of getting the mutex, as Go's mutex is
not starved for good. `SharedAppIds` and `Fetch` have weak fairness of a
worker's steps, since the platform bounds every call. New requests are never
required. `AppUpload` has weak fairness of each session's steps and `RpcServer` of
`Send`'s: the client's sockets time out, a file is read, the user answers. Closing
a terminal is not required. `YamlParser` has weak fairness of `Parse`: the parser
is called as long as there are tokens; that there is more text is not required.

Three liveness properties have assumptions, and each tells where the
code by itself would not end:

- `EveryRequestEnds` assumes that in the end nobody shares and no list names two
  owners of an app id. With two owners, which a raced start-up can leave,
  `RetrieveAppIds` looks at one item and is refused the removal of the other;
  only chance ends its loop.
- `EveryFetchAnswered` assumes that too large answers end. The Range that
  `Fetch` sets after one is set on a request it then drops, so the site is asked
  for the same again, until the platform ends the request.
- `EverySessionEnds` assumes of each session that it does not stay in the
  precompilation for ever. `PrecompileBatch` goes on until the server's list of
  files left is empty, and takes any list it returns; this is the only loop of a
  session that the code does not bound, and without the assumption TLC shows a
  server that returns the same list again and again.

### Refinements

`ImplementsRpcCall` is `RpcServer` under `open <- pc \notin {"idle", "end"}`,
`requests <- tries`; both implementations of `Send`, "totally separate" in the
words of the code, keep one promise. `ImplementsYamlEvents` is `YamlParser` with the
stack `open` that its events build: whatever the text, each event is one that the
grammar allows where it comes. `YamlObjects` takes its events from the same
grammar, and `YamlRoundTrip` shows that the emitter's text of such a stream is
read as the same stream.

Every property has a mutant in `PROJECT.json`: a definition marked "Variant" in
its module takes the place of the one that models the code, and TLC finds the
property violated.

## Findings

`isContentTypeInCompressFilter` (`service/config.go:86-93`) returns true at its
end as well, so every HTTP response with a content type is sent uncompressed,
although `snova.conf` configures Snappy and lists under `Filter` the few types to
leave alone. The run `filter` shows an error response sent that way. The Java
method of the same name returns false there.

### Observed differences

Modelling met these as well. They are in the models as the code has them; each
is either an exception that a property names or is outside of what a run checks.

- `HttpRpcServerHttpLib2` makes `rpc_tries - 1` retries, its documentation
  (`appengine_rpc_httplib2.py`) says `rpc_tries`; the other class makes as many as
  documented. `RpcCall` allows both.
- `scanner.py:298` holds that a key which is required is always allowed. A quoted
  scalar over two lines and another scalar right behind it, on the column of the
  indentation, meet the assertion. The model takes the branch (`failed` is
  `"scanner assert"`).
- `check_empty_document` (`emitter.py:419`), which would write a document marker,
  asks for an event without a tag, but the serializer gives each node its tag. So
  a document whose root is an empty plain scalar is written as nothing, and is no
  document when read back: `EmptyRoots` = FALSE keeps such documents out of
  `roundtrip`. An empty string is written quoted and `None` as `null`; only a node
  composed from an empty document and serialized again gets there.
- A plain scalar that is all of a document has no end of its own. With
  `explicit_end` unset, a next document with directives begins with `%YAML 1.1` (or
  `%TAG`) on the line below, which `scan_plain` reads as more of the scalar: the two
  documents come back as one. `OpenPlainRoots` = FALSE keeps directives from coming
  right behind such a root; with TRUE, TLC finds `RoundTrip` violated.
- `serializer.py` resets `last_alias_id`, a name nothing else uses, where
  `last_anchor_id` is meant: anchors of later documents are numbered on, which
  does no harm.
- A list for an attribute with a converting `Type` is converted when it begins,
  while it is empty: `threadsafe: [true]` is False. `Repeated` with a validator as
  its constructor discards what the validator converts. A document that is a
  scalar or a list is returned unchecked. The exceptions of `BuiltAsWritten` name
  these.
- "Append mode disabled" in `request_logs` disables only the search for where to go
  on; the file is still appended to, so records may be twice in it (`doubled`). An
  append that was interrupted has the newest records and a gap behind them that no
  later append fills (`torn`). A record with the same text as the sentinel ends the
  download early. A run over midnight whose first page begins with the new day
  gets nothing, and without `--append` empties the output.
- `RetryWithBackoff` ends a poll with an exception that leads to a `Rollback` of a
  transaction that was already deployed; `main` catches Ctrl-C, so the deployer goes
  on with the next app id.

## Proofs

The theorems hold for every value of the constants under the modules' named
assumptions, which TLC evaluates in the runs:

| Assumption | Says |
|---|---|
| `TunnelAssumption` | `None` is no connection, worker or address |
| `SharedAppIdsAssumption` | the administrator has an e-mail address, `None` is apart from the other constants |
| `FetchAssumption` | the retry budget is a natural number, there are two compress types, the values for no range and for a narrowed one are not the client's |
| `UploadAssumption` | paths are a finite set of numbers (a directory is finite and read in order) with sizes, at least one file is cloned and one poll made at a time, no session is called `None` |
| `RpcAssumption` | limits of tries are positive |
| `SizesAssumption`, `BoundsAssumption` | pages and blocks are not empty, the bounds of `AppLogs` are numbers and there is a day |
| `ScannerAssumption` | columns, nesting and the reach of a simple key are bounded by numbers |
| `SchemaAssumption` | every attribute has one of the rules, the root has a class, and no class is called as one of the tokens the sequencer uses beside classes |

Other sets need not be finite: the proofs are for any number of users, workers,
instances, sessions, and for texts and nestings of any length.

No property is inductive as it stands. Each theorem about states has the form
`Init => Inv`, `Inv /\ [Next]_vars => Inv'`, one step for each action, and
`Inv => Property`; action properties follow from `Inv` and a step. The invariants
are these.

**`TunnelProofs`.**

1. `TypeInv`: `TypeOK`, and that a worker that is not idle has a request.
2. `SafetyInv`. `Critical` says that only the holder of the mutex is inside
   `closeTunnelConn` and that the entry it found stays put until it removes it;
   `Unsaved`, that a freshly dialled connection is known to its dialler alone until
   it is saved; `MappedOwn`, that an open mapped connection was dialled for that
   session; `InnerMapMade`, that a connect past its lookup has made the user's
   inner map. Most steps are `Quiet` or `Take` a mapped connection, which two
   lemmas treat once. From it follow `MappedOpen`, `ClosedOnce`, `Isolated`,
   `ReachesAddress` and `SaveNeverPanics`.
3. `LeakInv` adds `DialsUnmapped` (a connect that dials sees no entry, unless
   dials raced) and `RaceRecorded`: `NoLeak` and the action properties `NoSwitch` and
   `ClosedAsFailed`. The last one follows as an open connection of a session is in the
   map, and the one that is closed is what the map has.
4. `AnswerInv`: two requests of a session in flight are recorded in `overlapped`
   (`Recorded`), and a request of a session that is not there knows what the map
   has for it, at each place of the handler (`Knows`): `TrueAnswers`.

**`SharedAppIdsProofs`.** `ShareInv` says that an app id that is not torn is written
by one worker at a time on the only instance in use (`AloneWriting`), that whoever
starts an instance is alone on it unless all is torn (`AloneStarting`), and what
list and datastore have at each place between the two writes of an operation:
before a put the list has the item already and the datastore has not, before a
delete it is the other way round, and while the rows are loaded the list has
those that are no longer to come (`Faithful`). The theorems are
`ListMatches` and, from the same invariant, that the delete under way is for
the owner or of an item of the administrator: `OwnerDeletes`, `NoTakeovers`.

**`FetchProofs`.** The conjunction of `TypeOK`, `RangeIsClients`, `ContentSentOnce`
and `BudgetPerCall` is inductive. `FetchBegins` covers a call of `Fetch`, first or
recursive, and `SendingContent` what the transport does to the content.

**`AppUploadProofs`.** `OpenInv`: from the answer to `create` up to the end of the
waiting, a session knows that it has a transaction (`Knows`), and an open
transaction is held by the run that opened it or its session has lost track of
it (`Owned`). `OrphansAreLost` and `NobodyElsesRollback`.

In the same module: an upload, a file in one of its kinds, is in one place only: its path is still to be read, a call waits with it, it is in a batch, or
it was sent (`Apart`, in `OnceInv`). Lemmas about agendas and batches say what
each of `UploadFile`, `AddToBatch`, `Flush` and the fallback to single files moves
from where to where (`Moves`), so that a step of a session is one such move:
`EachSentOnce`. `CompleteInv` is the other half: once the last path is read, a
flush follows for whatever is or will be in a batch (`Flushed`), and what the
server does not hold yet of a version is pending in the session that uploads it
(`Covered`). When nothing is pending, at `deploy`, the server holds all:
`NothingLeftBehind`, unless two sessions' requests met in the transaction.

**`RpcServerProofs`.** `RpcInv` says for each class which counters and which last
answer go with each `pc`. `AskedOnDemand`; and `SendKeepsPromise`, the refinement:
every step of `Send` is a step of `RpcCall` or leaves it as it is.

**`AppLogsProofs`.** `OnceInOrder` speaks of neighbours in the output; the invariant
says what a file is made of. Every line of the output is in a whole record
(`FileWhole`), so is every character of the temporary file, with line breaks
around it (`TextWhole`), and a record's first line is above (`Ascending`) or below
(`Descending`) whatever comes before. Lemmas say what a record behind a file, or the
last one taken off, makes of these (`TextGrows`, `FileGrows`, `TextShrinks`), that a
line break ends a record (`LastRecord`), and where the last line of a spillover
starts (`LastLineIs`). `CopyOK` is the heart of the reverse copy: the spillover is
the piece of the temporary file behind the blocks that are still to be read, and
what is left (`Left`, blocks and spillover together) ends with a record above all
that the output has; a block leaves `Left` as it is for any block size
(`BlockRead`), a line moves one record (`RecordMoves`). For an append, the sentinel
is the text of the output's last record, and the place in the log stays at or
above that record until it is found (`SentinelOK`). So `OldestFirst`.

The second half, `More`, is about gaps. While pages are read every record above the
place in the log is found, or is newer than all found and was not asked for
(`FoundOK`); there is a day to skip to only as long as nothing was found
(`UntilOK`), and days go up in the log. Between the oldest record of the output and
its last there is no gap (`FileGapOK`), nor between it and those still to be copied
(`LeftGapOK`), unless an append was torn or records have the same text. Each way to
stop then keeps the promise in its own way (`AllAtSentinel`, `AllAtDate`,
`AllThatWasRead`): `AllFetched`.

**`YamlParserProofs`.** `GrammarInv` relates the parser's position and its stack of
states to what its events have opened: each position stands for a frame on top,
each state on the stack for the frames below (`Laid`, a layout from the bottom up
in place of a recursion), and `marks` counts those of them that have a mark. Each
row of the tables is of one of eight kinds (`Fits`: it moves, descends to a node,
leaves one out, closes, begins or ends a pair, ...), which the lemmas
`...RowsFit` find by looking at every row, and one lemma for each kind shows that
such a row makes an event the grammar allows: `EventsObeyGrammar`.

In the same module `ScanInv` is about the scanner and counts brackets. A *walk* along a sequence sums
the weights of its elements; the tokens weigh what they change in the nesting of
`[` and `{`, the states on the parser's stack weigh one if they are inside of
brackets. `Nested` says that the scanner's `flow` is the parser's depth plus the
walk along the tokens in between, that a position which takes a token without
looking has it there (`Sure`, `Expects`), and that STREAM-END is the last token
and is taken last. With it go the facts about one scanner (`Reading`, `AtEnd`):
keys are at places of tokens in the queue and outer ones before inner ones, the
indentation starts at -1 with naturals above it. Each fetcher has a lemma, the
one for `fetch_value` being the hard one: it puts KEY and BLOCK-MAPPING-START in
front of a token, which moves no key because its own was the innermost. Each row
is `Even`, `Opens` or `Closes`. `KeysStayAhead` and `StreamsEndBalanced` follow: within
a stream `flow` may be negative (a `]` too many, which the parser then refuses), at
its end it is zero, and the parser's own assertion at STREAM-END cannot fail.

**`YamlObjectsProofs`.** `TextOK` is about the text alone: `NodeOK` for each node,
`PlaceOK` for each open collection, and what the grammar says is open (`Inside`)
goes with `path`: `TextIsTree`. `IInv` adds the builder: `Going` and `Faulty`, and
`KeyOpen`, that a key which is a collection waits while it is open. While nothing was raised
and the text has none of the exceptions (`Usual`), there is a *cell* for each
collection that has one (`Celled`), no two in the same, and the heap there holds
the attributes or items so far (`MapHeld`, `SeqHeld`). The stack has a frame for each
place of the path, and one more where a key waits for its value (`PosOK`,
`FramesOK`); the results are the roots that have ended (`ResultsOK`). The lemmas
named `...Put` follow one kind of node into one kind of place: either it is raised
and the text is wrong, or the cells grow by one.

What makes the two properties hard is time. A text can be wrong long before the
builder notices, and a check may look at what is not finished. `Wrong` says that
a node is wrong whatever comes, so that what is raised is raised rightly
(`Refused`), and stays wrong (`WrongStays`): `OnlyIfWrong`. The other way round,
`FaultsOK` says that if a node that has ended is wrong and nothing was raised, then
an open mapping is doomed (`Doomed`): it will be refused when it ends, because a
list in it has an item that does not fit, or sooner, because a key that is no
scalar waits for its value. At the end nothing is open, so nothing is wrong, and
the cells hold all of the text: `AsWritten`. `MCYamlObjects` checks both properties
on texts of nine events; the proof is for texts of any length and every schema.

Only model-checked:

- All liveness (`EveryRequestEnds` and the like): the prover has neither fairness nor
  `ENABLED`.
- `RoundTrip`: what the emitter writes is a fold over its queue and the characters of
  each text, which asks for induction over data.

## Plan

1. `RoundTrip` as a theorem, for which each turn of the emitter's loops has to be a
   step first.
2. `Codec`: an event's layers (encrypt, compress, payload), the registry, and what
   each layer leaves in the buffer; every event the server sends decodes at its
   peer. `AdminResponseEvent`, which is not registered, and short reads are the
   hazards.
3. `TunnelSession`, an abstract tunnel that serves one request of a session at a
   time, and `Tunnel` shown to implement it while requests do not overlap.
4. `JavaFetch` and the Java server's request path: unbounded recursion, Range
   headers that pile up on the event, a response without an answer.
5. The constructor and representer as a graph of nodes built in two steps;
   `vacuum_indexes`, the loop of appcfg that asks for one index after the other.

## Not modelled

- Bytes: payloads, MIME bodies, contents of files, characters of tokens, encodings.
  The models keep what decides control: whether a call failed, where a lexeme
  ends, which class a character is of.
- Text for people: messages, logging, prompts, usage, the admin and index pages.
- Time: deadlines and timeouts are a failure at any moment; back-off has no length.
- The configuration classes (`appinfo.py` and the other `*info.py`) are tables for the
  validators in `YamlObjects`; their merging of included files is not.
- `fancy_urllib` (certificates, proxies), the Java deployer (its SDK is not in the
  repository), Snappy: third-party code without a state of the system's own.
- The Java event classes: they come from a jar.
- A datastore write or a request that is applied after its instance has stopped.
