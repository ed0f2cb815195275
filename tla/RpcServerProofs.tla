-------------------------- MODULE RpcServerProofs --------------------------
(***************************************************************************)
(* Proofs about RpcServer for any numbers of tries, logins and calls.      *)
(* RpcInv says, for each class, what the counters and the last answer are  *)
(* at each place in Send; from it follow the types, that the user is asked *)
(* on demand only, and that both classes implement RpcCall.                *)
(***************************************************************************)
EXTENDS RpcServer, TLAPS

Demands == {"401", "302login", "302dev"}

\* The open call: it has no result yet, and what has been repeated may be.
OpenCall ==
  /\ pc \notin {"idle", "end"} => result = "none"
  /\ pc \notin {"idle", "end"} => last \in Demands \cup {"none", "5xx"}
  /\ pc \notin {"idle", "end"} => tries <= RpcTries
  /\ last # "none" => tries > 0

\* The class with cookies: it logs in once in a call, and what it asked for then
\* it has counted.
Cookies ==
  impl = "cookies" =>
    /\ pc # "auth"
    /\ pc \in {"login", "cookie"} => authTried /\ last \in Demands
    /\ pc = "login" => prompts = authTries /\ authTries < AuthTries
    /\ ~authTried => prompts = 0

\* The class with OAuth2: it asks at most once for each demand, and never for
\* credentials that are valid.
OAuth2 ==
  impl = "oauth2" =>
    /\ pc \notin {"login", "cookie"}
    /\ pc \in {"auth", "request"} => tries < RpcTries /\ authTries <= AuthTries
    /\ authTries > 0 => tries > 0
    /\ prompts <= authTries
    /\ pc = "auth" /\ authTries > 0 /\ cred # "valid" => last \in Demands /\ prompts < authTries
    /\ pc = "request" /\ authTries > 0 => cred = "valid"

RpcInv == TypeOK /\ OpenCall /\ Cookies /\ OAuth2

(* The limits of tries are numbers.                                          *)
LEMMA Numbers == RpcTries \in Nat /\ RpcTries > 0 /\ AuthTries \in Nat /\ AuthTries > 0 /\ MaxSends \in Nat
  BY RpcAssumption

USE Numbers DEF Pcs, Answers, Demands

\* The types, numbers and others apart.
Counters ==
  /\ tries \in 0..RpcTries + 1 /\ authTries \in 0..AuthTries + 1
  /\ prompts \in 0..AuthTries + 1 /\ sends \in 0..MaxSends
Choices ==
  /\ impl \in {"cookies", "oauth2"} /\ refresh \in BOOLEAN /\ pc \in Pcs
  /\ authTried \in BOOLEAN /\ access \in BOOLEAN
  /\ cred \in {"none", "valid", "invalid"}
  /\ last \in Answers \cup {"none"} /\ result \in {"none", "ok", "error"}

(* The type invariant, numbers apart from choices.                           *)
LEMMA TypeParts == TypeOK <=> Counters /\ Choices
  BY DEF TypeOK, Counters, Choices

(* At first no call is open.                                                 *)
LEMMA RpcInit == Init => RpcInv
<1> SUFFICES ASSUME Init
             PROVE  RpcInv
  OBVIOUS
<1>1. access \in BOOLEAN /\ cred \in {"none", "valid", "invalid"}
  BY DEF Init
<1>2. Counters
  BY DEF Init, Counters
<1>3. Choices
  BY <1>1 DEF Init, Choices
<1>4. OpenCall /\ Cookies /\ OAuth2
  BY DEF Init, OpenCall, Cookies, OAuth2
<1> QED
  BY <1>2, <1>3, <1>4, TypeParts DEF RpcInv

(* Every step of Send keeps the invariant.                                   *)
LEMMA RpcNext == RpcInv /\ [Next]_vars => RpcInv'
<1> SUFFICES ASSUME Counters, Choices, OpenCall, Cookies, OAuth2, [Next]_vars
             PROVE  (Counters /\ Choices /\ OpenCall /\ Cookies /\ OAuth2)'
  BY DEF RpcInv, TypeOK, Counters, Choices
<1> USE DEF Counters, Choices, OpenCall, Cookies, OAuth2
<1>1. CASE Send
  <2>1. Counters'
    BY <1>1 DEF Send, Continue
  <2>2. Choices'
    BY <1>1 DEF Send, Continue
  <2>3. (OpenCall /\ Cookies /\ OAuth2)'
    BY <1>1 DEF Send, Continue
  <2> QED
    BY <2>1, <2>2, <2>3
<1>2. CASE SendRequest
  <2>1. Counters'
    BY <1>2 DEF SendRequest, AnswersNow, AccessAfter, Judge, NoAnswer, AuthOnce, Return, Continue
  <2>2. Choices'
    BY <1>2 DEF SendRequest, AnswersNow, AccessAfter, Judge, NoAnswer, AuthOnce, Return, Continue
  <2>3. OpenCall'
    BY <1>2 DEF SendRequest, AnswersNow, AccessAfter, Judge, NoAnswer, AuthOnce, Return, Continue
  <2>4. Cookies'
    BY <1>2 DEF SendRequest, AnswersNow, AccessAfter, Judge, NoAnswer, AuthOnce, Return, Continue
  <2>5. OAuth2'
    BY <1>2 DEF SendRequest, AnswersNow, AccessAfter, Judge, NoAnswer, AuthOnce, Return, Continue
  <2> QED
    BY <2>1, <2>2, <2>3, <2>4, <2>5
<1>3. CASE Login
  BY <1>3 DEF Login, LoginRejected, Prompt, Return, Continue
<1>4. CASE GetAuthCookie
  BY <1>4 DEF GetAuthCookie, CookieRefused, Return, Continue
<1>5. CASE DevAppServerAuthenticate
  BY <1>5 DEF DevAppServerAuthenticate, Prompt, Continue
<1>6. CASE Authenticate
  <2>1. Counters'
    BY <1>6 DEF Authenticate, Prompt, Return, Continue
  <2>2. Choices'
    BY <1>6 DEF Authenticate, Prompt, Return, Continue
  <2>3. OpenCall'
    BY <1>6 DEF Authenticate, Prompt, Return, Continue
  <2>4. Cookies'
    BY <1>6 DEF Authenticate, Prompt, Return, Continue
  <2>5. OAuth2'
    BY <1>6 DEF Authenticate, Prompt, Return, Continue
  <2> QED
    BY <2>1, <2>2, <2>3, <2>4, <2>5
<1>7. CASE RequestHttplib2
  BY <1>7 DEF RequestHttplib2, AnswersNow, MayAuth, NextTry, Return, Continue
<1>8. CASE UNCHANGED vars
  BY <1>8 DEF vars
<1> QED
  BY <1>1, <1>2, <1>3, <1>4, <1>5, <1>6, <1>7, <1>8 DEF Next, Steps, Done

\* The types of the variables: no counter exceeds what was configured.
THEOREM TypeCorrect == Spec => []TypeOK
<1>1. Spec => []RpcInv
  BY RpcInit, RpcNext, PTL DEF Spec
<1> QED
  BY <1>1, PTL DEF RpcInv

\* The user is asked for a password, or led through the OAuth2 flow, only right
\* after the server demanded authentication, and at most AuthTries times a call.
THEOREM AskedOnDemand == Spec => PromptsOnDemand
<1>1. Spec => []RpcInv
  BY RpcInit, RpcNext, PTL DEF Spec
<1>2. RpcInv /\ [Next]_vars =>
        [prompts' > prompts => last \in Demands /\ prompts < AuthTries]_vars
  <2> SUFFICES ASSUME RpcInv, Next, prompts' > prompts
               PROVE  last \in Demands /\ prompts < AuthTries
    OBVIOUS
  <2>1. prompts \in Nat /\ authTries \in Nat
    BY DEF RpcInv, TypeOK
  <2>2. CASE Login
    BY <2>2, <2>1 DEF Login, RpcInv, TypeOK, Cookies, OAuth2
  <2>3. CASE DevAppServerAuthenticate
    BY <2>3, <2>1 DEF DevAppServerAuthenticate, RpcInv, TypeOK, Cookies, OAuth2
  <2>4. CASE Authenticate
    BY <2>4, <2>1 DEF Authenticate, RpcInv, TypeOK, Cookies, OAuth2
  <2>5. CASE Send \/ SendRequest \/ GetAuthCookie \/ RequestHttplib2 \/ Done
    BY <2>5, <2>1 DEF Send, SendRequest, GetAuthCookie, RequestHttplib2, Done, vars
  <2> QED
    BY <2>2, <2>3, <2>4, <2>5 DEF Next, Steps
<1> QED
  BY <1>1, <1>2, PTL DEF Spec, PromptsOnDemand, Demands

\* What Send does between two requests ends the call with an error, or is no
\* step of RpcCall.
LEMMA Between ==
  ASSUME RpcInv, UNCHANGED <<tries, last>>,
         pc \notin {"idle", "end"}, last # "none",
         \/ pc' = "end" /\ result' = "error"
         \/ pc' \notin {"idle", "end"} /\ result' = "none"
  PROVE  Promise!GiveUp \/ UNCHANGED Promise!vars
<1>1. tries > 0 /\ result = "none"
  BY DEF RpcInv, OpenCall
<1>2. CASE pc' = "end" /\ result' = "error"
  BY <1>1, <1>2 DEF Promise!GiveUp
<1>3. CASE pc' \notin {"idle", "end"} /\ result' = "none"
  BY <1>1, <1>3 DEF Promise!vars
<1> QED
  BY <1>2, <1>3

\* Both classes implement RpcCall: a call starts, each request is one of its tries
\* or gives up, and what happens between two requests is no step of it.
THEOREM SendKeepsPromise == Spec => ImplementsRpcCall
<1>1. Spec => []RpcInv
  BY RpcInit, RpcNext, PTL DEF Spec
<1>2. Init => Promise!Init
  BY DEF Init, Promise!Init
<1>3. RpcInv /\ [Next]_vars => [Promise!Next]_(Promise!vars)
  <2> SUFFICES ASSUME RpcInv, [Next]_vars
               PROVE  Promise!Next \/ UNCHANGED Promise!vars
    OBVIOUS
  <2> USE DEF RpcInv, Promise!Next, Promise!vars, Continue, Return
  <2>1. CASE Send
    BY <2>1 DEF Send, Promise!Call
  <2>2. CASE SendRequest
    BY <2>2 DEF SendRequest, AnswersNow, Judge, NoAnswer, AuthOnce, OpenCall, TypeOK,
                Promise!Try, Promise!Repeatable, Promise!Answers
  <2>3. CASE Login
    <3>1. last # "none"
      BY <2>3 DEF Login, Cookies, OAuth2, TypeOK
    <3> QED
      BY <2>3, <3>1, Between DEF Login, LoginRejected
  <2>4. CASE GetAuthCookie
    <3>1. last # "none"
      BY <2>4 DEF GetAuthCookie, Cookies, OAuth2, TypeOK
    <3> QED
      BY <2>4, <3>1, Between DEF GetAuthCookie, CookieRefused
  <2>5. CASE DevAppServerAuthenticate
    BY <2>5 DEF DevAppServerAuthenticate, OpenCall
  <2>6. CASE Authenticate
    <3>1. CASE Continue("request")
      BY <2>6, <3>1 DEF Authenticate, OpenCall
    <3>2. CASE ~Continue("request")
      <4>1. pc' = "end" /\ result' = "error" /\ authTries > 0 /\ cred # "valid"
        BY <2>6, <3>2 DEF Authenticate
      <4>2. last # "none"
        BY <2>6, <4>1 DEF Authenticate, Cookies, OAuth2, TypeOK
      <4> QED
        BY <2>6, <4>1, <4>2, Between DEF Authenticate
    <3> QED
      BY <3>1, <3>2
  <2>7. CASE RequestHttplib2
    BY <2>7 DEF RequestHttplib2, AnswersNow, MayAuth, NextTry, OpenCall, OAuth2, TypeOK,
                Promise!Try, Promise!Repeatable, Promise!Answers
  <2>8. CASE UNCHANGED vars
    BY <2>8 DEF vars
  <2> QED
    BY <2>1, <2>2, <2>3, <2>4, <2>5, <2>6, <2>7, <2>8 DEF Next, Steps, Done
<1> QED
  BY <1>1, <1>2, <1>3, PTL DEF Spec, ImplementsRpcCall, Promise!Spec

=============================================================================
