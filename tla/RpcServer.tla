----------------------------- MODULE RpcServer -----------------------------
(***************************************************************************)
(* Send of the two RPC server classes that appcfg chooses from: the one    *)
(* with cookies (AbstractRpcServer and HttpRpcServer, appengine_rpc.py)    *)
(* and the one with OAuth2 (HttpRpcServerHttpLib2 and HttpRpcServerOauth2, *)
(* appengine_rpc_httplib2.py), "a totally separate implementation".  One   *)
(* object serves all requests of an appcfg run, one after the other.  The  *)
(* admin server, the login service and the user at the prompt are          *)
(* external: each may answer what the code distinguishes, and a cookie or  *)
(* a token may cease to be accepted at any time.  The model begins when    *)
(* the object is there: that its constructor logs in at once where the     *)
(* host is localhost comes before any Send and is left out.  A definition  *)
(* marked "Variant" is a fault put in place of the one it precedes to see  *)
(* that the properties notice it.                                          *)
(***************************************************************************)
EXTENDS Naturals

CONSTANTS
  RpcTries,   \* rpc_tries
  AuthTries,  \* auth_tries
  MaxSends    \* bound: requests of one appcfg run

ASSUME RpcAssumption == {RpcTries, AuthTries, MaxSends} \subseteq Nat \ {0}

VARIABLES
  impl,      \* the class, chosen by the option --oauth2
  refresh,   \* whether --oauth2_refresh_token was given
  pc,
  tries,     \* requests of this Send
  authTried, \* cookies: _Authenticate was called in this Send
  authTries, \* cookies: logins in this _Authenticate; OAuth2: calls of NeedAuth
  access,    \* cookies: the server knows the cookie; OAuth2: the request is authorized
  cred,      \* OAuth2: the credentials
  last,      \* the server's last answer
  result,    \* of this Send
  prompts,   \* history: times the user was asked in this Send
  sends

vars == <<impl, refresh, pc, tries, authTried, authTries, access, cred, last,
          result, prompts, sends>>

Pcs == {"idle", "request", "login", "cookie", "auth", "end"}
Answers == {"200", "4xx", "5xx", "401", "302login", "302dev", "302other", "net"}

TypeOK ==
  /\ impl \in {"cookies", "oauth2"} /\ refresh \in BOOLEAN
  /\ pc \in Pcs
  /\ tries \in 0..RpcTries + 1
  /\ authTried \in BOOLEAN
  /\ authTries \in 0..AuthTries + 1
  /\ access \in BOOLEAN
  /\ cred \in {"none", "valid", "invalid"}
  /\ last \in Answers \cup {"none"}
  /\ result \in {"none", "ok", "error"}
  /\ prompts \in 0..AuthTries + 1
  /\ sends \in 0..MaxSends

\* Cookies and credentials may have been saved by an earlier run.
Init ==
  /\ impl \in {"cookies", "oauth2"} /\ refresh \in BOOLEAN
  /\ pc = "idle" /\ tries = 0 /\ authTried = FALSE /\ authTries = 0
  /\ access \in (IF impl = "cookies" THEN BOOLEAN ELSE {FALSE})
  /\ cred \in (IF impl = "cookies" THEN {"none"}
               ELSE IF refresh THEN {"valid"} ELSE {"none", "valid", "invalid"})
  /\ last = "none" /\ result = "none" /\ prompts = 0 /\ sends = 0

Return(r) == pc' = "end" /\ result' = r

Continue(next) == pc' = next /\ result' = "none"

\* The history of prompts counts to one more than there should ever be.
Prompt == prompts' = IF prompts > AuthTries THEN prompts ELSE prompts + 1

\* Both versions of Send up to their loop.
Send ==
  /\ pc \in {"idle", "end"} /\ sends < MaxSends
  /\ sends' = sends + 1
  /\ tries' = 0 /\ authTried' = FALSE /\ authTries' = 0 /\ last' = "none" /\ prompts' = 0
  /\ Continue(IF impl = "cookies" THEN "request" ELSE "auth")
  /\ UNCHANGED <<impl, refresh, access, cred>>

\* What the server may answer: it serves a request only when it accepts the
\* cookie or token, and may have ceased to accept it.
AnswersNow ==
  IF access THEN Answers ELSE Answers \ {"200", "4xx"}

AccessAfter(answer) ==
  access /\ answer \notin {"401", "302login", "302dev", "302other"}

-----------------------------------------------------------------------------
(* appengine_rpc.py                                                         *)

\* Variant: a failed login is tried again for each 401.
AuthAgain == authTried' = FALSE

AuthOnce == authTried' = TRUE

\* Variant: a request that got no answer is repeated as after a 5xx.
Net == Continue("request") /\ UNCHANGED authTried

\* A socket error is not an HTTPError.
NoAnswer == Return("error") /\ UNCHANGED authTried

\* The except clause of Send.  Authentication is tried once per Send, and the
\* retries are used up before it is considered.
Judge(answer, n) ==
  \/ /\ answer = "net" /\ NoAnswer
  \/ /\ answer # "net" /\ n > RpcTries
     /\ Return("error") /\ UNCHANGED authTried
  \/ /\ answer \in {"401", "302login", "302dev"} /\ n <= RpcTries
     /\ \/ authTried /\ Return("error") /\ UNCHANGED authTried
        \/ /\ ~authTried /\ AuthOnce
           /\ Continue("login")
  \/ /\ answer = "5xx" /\ n <= RpcTries
     /\ Continue("request") /\ UNCHANGED authTried
  \/ /\ answer \in {"302other", "4xx"} /\ n <= RpcTries
     /\ Return("error") /\ UNCHANGED authTried

SendRequest ==
  /\ impl = "cookies" /\ pc = "request"
  /\ tries' = tries + 1
  /\ \E answer \in AnswersNow :
       /\ last' = answer
       /\ access' = AccessAfter(answer)
       /\ \/ answer = "200" /\ Return("ok") /\ UNCHANGED authTried
          \/ answer # "200" /\ Judge(answer, tries + 1)
  /\ authTries' = 0
  /\ UNCHANGED <<impl, refresh, cred, prompts, sends>>

\* The loop of _Authenticate after BadAuthentication.  When it ends without a
\* login nothing is raised: Send asks the server once more.
LoginRejected ==
  /\ authTries' = authTries + 1
  /\ Continue(IF authTries + 1 < AuthTries THEN "login" ELSE "request")

\* One round of _Authenticate: the user is asked, the login service accepts,
\* rejects the password, refuses for another reason, or fails.
Login ==
  /\ pc = "login" /\ last # "302dev"
  /\ Prompt
  /\ \/ Continue("cookie") /\ UNCHANGED authTries
     \/ LoginRejected
     \/ Continue("request") /\ UNCHANGED authTries
     \/ Return("error") /\ UNCHANGED authTries
  /\ UNCHANGED <<impl, refresh, tries, authTried, access, cred, last, sends>>

\* Variant: without a cookie the user is asked again.
LoginAgain == Continue("login")

CookieRefused == Return("error")

\* _GetAuthCookie exchanges the token for a cookie.
GetAuthCookie ==
  /\ pc = "cookie"
  /\ \/ Continue("request") /\ access' = TRUE
     \/ CookieRefused /\ UNCHANGED access
  /\ UNCHANGED <<impl, refresh, tries, authTried, authTries, cred, last, prompts, sends>>

\* _DevAppServerAuthenticate makes a cookie of the email the user gives.
DevAppServerAuthenticate ==
  /\ pc = "login" /\ last = "302dev"
  /\ Prompt
  /\ Continue("request") /\ access' = TRUE
  /\ UNCHANGED <<impl, refresh, tries, authTried, authTries, cred, last, sends>>

-----------------------------------------------------------------------------
(* appengine_rpc_httplib2.py                                                *)

\* _Authenticate before each request.  The user is asked only after the server
\* has demanded authentication; an expired access token is used only then too.
Authenticate ==
  /\ pc = "auth"
  /\ LET needsAuth == authTries > 0
         ask == needsAuth /\ cred # "valid"
         Go(c) == /\ cred' = c
                  /\ \E expired \in BOOLEAN :
                       access' = (c = "valid" /\ (~expired \/ needsAuth))
                  /\ Continue("request")
     IN \/ ~ask /\ Go(cred) /\ UNCHANGED prompts
        \/ /\ ask /\ refresh
           /\ Return("error") /\ UNCHANGED <<cred, access, prompts>>
        \/ /\ ask /\ ~refresh /\ Prompt
           /\ \/ Go("valid")
              \/ Return("error") /\ UNCHANGED <<cred, access>>
  /\ UNCHANGED <<impl, refresh, tries, authTried, authTries, last, sends>>

\* NeedAuth raises when the server has demanded authentication too often.
MayAuth == authTries + 1 <= AuthTries

\* The condition of the loop; after it the last answer is raised.
NextTry == IF tries + 1 < RpcTries THEN Continue("auth") ELSE Return("error")

\* A token that cannot be refreshed counts as a 401; oauth2client marks the
\* credentials invalid then.
RequestHttplib2 ==
  /\ impl = "oauth2" /\ pc = "request"
  /\ tries' = tries + 1
  /\ \E answer \in AnswersNow :
       /\ last' = answer
       /\ cred' \in (IF answer = "401" /\ cred = "valid" THEN {"valid", "invalid"} ELSE {cred})
       /\ \/ answer = "200" /\ Return("ok") /\ UNCHANGED authTries
          \/ /\ answer \in {"401", "302login"} /\ MayAuth
             /\ authTries' = authTries + 1 /\ NextTry
          \/ /\ answer \in {"401", "302login"} /\ ~MayAuth
             /\ Return("error") /\ authTries' = authTries + 1
          \/ answer = "5xx" /\ NextTry /\ UNCHANGED authTries
          \/ /\ answer \in {"302dev", "302other", "4xx", "net"}
             /\ Return("error") /\ UNCHANGED authTries
  /\ UNCHANGED <<impl, refresh, authTried, access, prompts, sends>>

Steps ==
  \/ SendRequest \/ Login \/ GetAuthCookie \/ DevAppServerAuthenticate
  \/ Authenticate \/ RequestHttplib2

\* The run of appcfg is over.
Done == pc = "end" /\ UNCHANGED vars

Next == Send \/ Steps \/ Done

Spec == Init /\ [][Next]_vars

\* The servers answer or the sockets fail, and the user answers the prompts.
FairSpec == Spec /\ WF_vars(Steps)

-----------------------------------------------------------------------------
(* Properties.                                                              *)

\* Both classes keep what Send promises: the result is the one of the last
\* request, only failures of the server and demands for authentication are
\* repeated, and at most RpcTries times.
Promise ==
  INSTANCE RpcCall WITH open <- pc \notin {"idle", "end"}, requests <- tries
ImplementsRpcCall == Promise!Spec

\* The user is asked for a password, or led through the OAuth2 flow, only right
\* after the server demanded authentication, and at most AuthTries times a call.
PromptsOnDemand ==
  [][prompts' > prompts =>
       last \in {"401", "302login", "302dev"} /\ prompts < AuthTries]_vars

\* Send always returns or raises.
EverySendEnds == pc \notin {"idle", "end"} ~> pc = "end"

=============================================================================
