------------------------------- MODULE Fetch -------------------------------
(***************************************************************************)
(* An HTTP request event served by a worker node: Fetch (service/fetch.go) *)
(* and what HandleEvent (service/dispatch.go) does with its response.      *)
(* Fetch tries the request RetryFetchCount times; when an answer is too    *)
(* large it sleeps and calls itself, which builds the request and the      *)
(* retry budget anew from the client's event.  The content of that event   *)
(* is a buffer that the first attempt to read it leaves empty.  Requests   *)
(* share nothing but the configuration, so the module serves one at a      *)
(* time.  What the URL fetch service answers is nondeterministic.  A       *)
(* definition marked "Variant" is a fault put in place of the one it       *)
(* precedes to see that the properties notice it.                          *)
(***************************************************************************)
EXTENDS Integers

CONSTANTS
  RetryFetchCount,  \* Cfg.RetryFetchCount
  CompressType,     \* Cfg.CompressType
  Ranges,           \* Range headers that clients send
  Narrowed,         \* the Range header that Fetch sets itself
  Types,            \* content types of responses
  Filtered,         \* those that contain an entry of Cfg.CompressFilter
  Plain,            \* text/plain, the content type of error responses
  None

ASSUME FetchAssumption ==
  /\ RetryFetchCount \in Nat
  /\ CompressType \in {"none", "snappy"}
  /\ Narrowed \notin Ranges /\ None \notin Ranges \cup Types \cup {Narrowed}
  /\ Filtered \subseteq Types /\ Plain \in Types

\* "sina.com" stands for a host that matches the blacklist, "bad" for a URL
\* that http.NewRequest rejects.
Event ==
  [method : {"GET", "POST"}, content : BOOLEAN, range : Ranges \cup {None},
   url : {"good", "bad", "blacklisted"}]

NoEvent == [method |-> "GET", content |-> FALSE, range |-> None, url |-> "bad"]

\* Status 200 stands for every answer of a site but the redirect.
Response ==
  [status : {0, 200, 302, 400, 408}, type : Types \cup {None},
   xrange : Ranges \cup {Narrowed, None}]

NoResponse == [status |-> 0, type |-> None, xrange |-> None]

VARIABLES
  isMaster,  \* Cfg.IsMaster
  pc,        \* where the request is
  ev,        \* the client's event
  content,   \* whether ev.Content still holds bytes
  range,     \* the Range header of the request Fetch built last
  left,      \* retryCount
  res,       \* the response
  sentAs,    \* the compress type the response is sent with
  failed,    \* history: attempts that failed since Fetch was last called
  bodies     \* history: attempts that sent bytes of the content

vars == <<isMaster, pc, ev, content, range, left, res, sentAs, failed, bodies>>

Pcs == {"idle", "call", "sleep", "respond", "send"}

TypeOK ==
  /\ isMaster \in BOOLEAN
  /\ pc \in Pcs
  /\ ev \in Event
  /\ content \in BOOLEAN
  /\ range \in Ranges \cup {Narrowed, None}
  /\ left \in 0..RetryFetchCount
  /\ res \in Response
  /\ sentAs \in {"none", "snappy"}
  /\ failed \in 0..RetryFetchCount + 1
  /\ bodies \in 0..2

\* The histories count to one more than the code should ever reach.
Count(n, limit) == IF n > limit THEN n ELSE n + 1

Init ==
  /\ isMaster \in BOOLEAN
  /\ pc = "idle"
  /\ ev = NoEvent
  /\ content = FALSE
  /\ range = None
  /\ left = 0
  /\ res = NoResponse
  /\ sentAs = "none"
  /\ failed = 0
  /\ bodies = 0

-----------------------------------------------------------------------------
(* Responses.                                                              *)

Error(status, xrange) ==
  [status |-> status, type |-> Plain, xrange |-> xrange]

Respond(r) == res' = r /\ pc' = "respond"

\* After the last attempt.
Exhausted(r) == Respond(Error(408, r))

-----------------------------------------------------------------------------
(* Fetch, up to its first call of the URL fetch service.                   *)

\* Variant: a Range that an earlier call set is kept.
KeepRange(e) == IF range = Narrowed THEN Narrowed ELSE e.range
BuildHTTPRequest(e) == e.range

Refused(e) == isMaster \/ e.url # "good"

Fetch(e) ==
  /\ failed' = 0
  /\ \/ /\ Refused(e)
        /\ Respond(Error(IF ~isMaster /\ e.url = "bad" THEN 400 ELSE 0, None))
        /\ UNCHANGED <<range, left>>
     \/ /\ ~Refused(e)
        /\ range' = BuildHTTPRequest(e)
        /\ left' = RetryFetchCount
        /\ IF RetryFetchCount = 0
           THEN Exhausted(BuildHTTPRequest(e))
           ELSE pc' = "call" /\ UNCHANGED res

Receive(e) ==
  /\ pc = "idle"
  /\ ev' = e
  /\ content' = e.content
  /\ bodies' = 0
  /\ Fetch(e)
  /\ UNCHANGED <<isMaster, sentAs>>

Wake ==
  /\ pc = "sleep"
  /\ Fetch(ev)
  /\ UNCHANGED <<isMaster, ev, content, sentAs, bodies>>

-----------------------------------------------------------------------------
(* The URL fetch service.                                                  *)

\* Variant: the content is kept for the next attempt.
KeepContent == content
RestOfContent == content /\ ev.method # "POST"

\* The transport reads the content of a method that may carry one.
SendContent ==
  /\ content' = RestOfContent
  /\ bodies' = IF content /\ ev.method = "POST" THEN Count(bodies, 1) ELSE bodies

Redirect(t) ==
  [status |-> 302, type |-> t, xrange |-> range]

CallOk ==
  /\ pc = "call"
  /\ SendContent
  /\ \E t \in Types \cup {None} :
       \/ Respond([status |-> 200, type |-> t, xrange |-> None])
       \/ Respond(Redirect(t))
  /\ UNCHANGED <<isMaster, ev, range, left, sentAs, failed>>

\* Variants: an attempt is not counted down, or twice.
KeepBudget == left
SpendTwice == left - 2
Spend == left - 1

\* Variant: any failure starts Fetch over.
FailRestarts ==
  /\ pc = "call"
  /\ SendContent
  /\ pc' = "sleep"
  /\ UNCHANGED <<isMaster, ev, range, left, res, sentAs, failed>>

CallFail ==
  /\ pc = "call"
  /\ SendContent
  /\ left' = Spend
  /\ failed' = Count(failed, RetryFetchCount)
  /\ IF Spend > 0 THEN UNCHANGED <<pc, res>> ELSE Exhausted(range)
  /\ UNCHANGED <<isMaster, ev, range, sentAs>>

\* A narrower Range is set on the request, and the request is dropped.
CallTooLarge ==
  /\ pc = "call"
  /\ SendContent
  /\ left' = Spend
  /\ range' = IF ev.method = "GET" THEN Narrowed ELSE range
  /\ pc' = "sleep"
  /\ UNCHANGED <<isMaster, ev, res, sentAs, failed>>

-----------------------------------------------------------------------------
(* The rest of HandleEvent.                                                *)

\* The loop over the filter returns true, and so does its end.
IsContentTypeInCompressFilter(t) == TRUE

HandleEvent ==
  /\ pc = "respond"
  /\ sentAs' = IF res.type # None /\ IsContentTypeInCompressFilter(res.type)
               THEN "none" ELSE CompressType
  /\ pc' = "send"
  /\ UNCHANGED <<isMaster, ev, content, range, left, res, failed, bodies>>

Send ==
  /\ pc = "send"
  /\ pc' = "idle"
  /\ UNCHANGED <<isMaster, ev, content, range, left, res, sentAs, failed,
                 bodies>>

-----------------------------------------------------------------------------
Next ==
  \/ \E e \in Event : Receive(e)
  \/ Wake
  \/ CallOk \/ CallFail \/ CallTooLarge
  \/ HandleEvent \/ Send

Spec == Init /\ [][Next]_vars

\* The service answers within the 10 s deadline of the transport; code runs.
FairSpec ==
  Spec /\ WF_vars(Wake) /\ WF_vars(CallOk \/ CallFail \/ CallTooLarge)
       /\ WF_vars(HandleEvent) /\ WF_vars(Send)

-----------------------------------------------------------------------------
(* A site is asked for exactly the range the client asked for, in every    *)
(* attempt and after any number of too large answers, and the X-Range of a *)
(* response repeats it.  The limit that Fetch sets after a too large       *)
(* answer therefore never goes out.                                        *)
RangeIsClients ==
  /\ pc = "call" => range = ev.range
  /\ pc \in {"respond", "send"} => res.xrange \in {ev.range, None}
  /\ pc \in {"respond", "send"} /\ res.status = 302 => res.xrange = ev.range

(* The bytes of a request are sent at most once, whatever is retried: no   *)
(* retry posts them a second time.  (A retry sends an empty body instead.) *)
ContentSentOnce ==
  bodies <= 1 /\ (bodies = 1 => ev.method = "POST" /\ ~content)

(* Status 408 means that a whole budget of attempts failed since Fetch was *)
(* last called, and until then there is an attempt left: a too large       *)
(* answer grants a new budget, it never borrows from the old one.          *)
BudgetPerCall ==
  /\ pc = "call" => left + failed = RetryFetchCount /\ left > 0
  /\ pc \in {"respond", "send"} /\ res.status = 408 => failed = RetryFetchCount

(* snova.conf lists under [Compress] Filter the content types to leave     *)
(* alone; a response of any other type is compressed as configured.        *)
OthersCompressed ==
  pc = "send" /\ res.type \notin Filtered => sentAs = CompressType

(* Every request is answered unless sites go on answering too large: then  *)
(* the same request is tried again until the platform ends it.             *)
EveryFetchAnswered ==
  <>[][~CallTooLarge]_vars => (pc = "call" ~> pc = "send")
=============================================================================
