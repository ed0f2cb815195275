---------------------------- MODULE FetchProofs ----------------------------
(***************************************************************************)
(* Proofs about Fetch for any retry budget, any ranges and content types.  *)
(* Inv joins the four invariants: each of them is kept by every step once  *)
(* the type of the variables is known.                                     *)
(***************************************************************************)
EXTENDS Fetch, TLAPS

Inv == TypeOK /\ RangeIsClients /\ ContentSentOnce /\ BudgetPerCall

USE FetchAssumption DEF Pcs, Event, Response

(* The request event's fields are what the client may send.                  *)
LEMMA EventType ==
  \A e \in Event : /\ e.method \in {"GET", "POST"}
                   /\ e.content \in BOOLEAN
                   /\ e.range \in Ranges \cup {None}
                   /\ e.url \in {"good", "bad", "blacklisted"}
  OBVIOUS

(* At first nothing was fetched.                                             *)
LEMMA InvInit == Init => Inv
<1> SUFFICES ASSUME Init
             PROVE  Inv
  OBVIOUS
<1>1. NoEvent \in Event
  BY DEF NoEvent
<1>2. NoResponse \in Response
  BY DEF NoResponse
<1>3. TypeOK
  <2>1. ev \in Event /\ res \in Response
    BY <1>1, <1>2 DEF Init
  <2>2. /\ isMaster \in BOOLEAN /\ pc \in Pcs /\ sentAs \in {"none", "snappy"}
        /\ range \in Ranges \cup {Narrowed, None}
    BY DEF Init
  <2>3. /\ left \in 0..RetryFetchCount
        /\ failed \in 0..RetryFetchCount + 1 /\ bodies \in 0..2
    BY DEF Init
  <2>4. content \in BOOLEAN
    BY DEF Init
  <2> QED
    BY <2>1, <2>2, <2>3, <2>4 DEF TypeOK
<1>4. RangeIsClients /\ ContentSentOnce /\ BudgetPerCall
  BY DEF Init, RangeIsClients, ContentSentOnce, BudgetPerCall
<1> QED
  BY <1>3, <1>4 DEF Inv

\* What the transport does with the content of the event.
LEMMA SendingContent ==
  ASSUME TypeOK, ContentSentOnce, SendContent, UNCHANGED ev
  PROVE  /\ content' \in BOOLEAN
         /\ bodies' \in 0..2
         /\ ContentSentOnce'
<1>1. content' \in BOOLEAN
  BY DEF TypeOK, SendContent, RestOfContent
<1>2. CASE content /\ ev.method = "POST"
  <2>1. bodies = 0
    BY <1>2 DEF TypeOK, ContentSentOnce
  <2>2. bodies' = 1
    BY <1>2, <2>1 DEF SendContent, Count
  <2>3. ~content'
    BY <1>2 DEF SendContent, RestOfContent
  <2> QED
    BY <1>1, <1>2, <2>2, <2>3 DEF ContentSentOnce
<1>3. CASE ~(content /\ ev.method = "POST")
  <2>1. bodies' = bodies
    BY <1>3 DEF SendContent
  <2>2. ~content => ~content'
    BY DEF SendContent, RestOfContent
  <2> QED
    BY <1>1, <2>1, <2>2 DEF ContentSentOnce, TypeOK
<1> QED
  BY <1>2, <1>3

\* A call of Fetch begins a round of attempts, or answers at once.
LEMMA FetchBegins ==
  ASSUME TypeOK, NEW e \in Event, Fetch(e), ev' = e, bodies' \in 0..2,
         content' \in BOOLEAN, UNCHANGED <<isMaster, sentAs>>
  PROVE  TypeOK' /\ RangeIsClients' /\ BudgetPerCall'
<1>1. CASE Refused(e)
  <2>1. pc' = "respond" /\ failed' = 0
    BY <1>1 DEF Fetch, Respond
  <2>2. /\ res' \in Response
        /\ res'.status \in {0, 400} /\ res'.xrange = None
    BY <1>1 DEF Fetch, Respond, Error
  <2>3. UNCHANGED <<range, left>>
    BY <1>1 DEF Fetch
  <2> QED
    BY <2>1, <2>2, <2>3 DEF TypeOK, RangeIsClients, BudgetPerCall
<1>2. CASE ~Refused(e)
  <2>1. range' = e.range /\ left' = RetryFetchCount /\ failed' = 0
    BY <1>2 DEF Fetch, BuildHTTPRequest
  <2>2. e.range \in Ranges \cup {None}
    BY EventType
  <2>3. CASE RetryFetchCount = 0
    <3>1. pc' = "respond"
      BY <1>2, <2>3 DEF Fetch, Exhausted, Respond
    <3>2. res' = [status |-> 408, type |-> Plain, xrange |-> e.range]
      BY <1>2, <2>3 DEF Fetch, Exhausted, Respond, Error, BuildHTTPRequest
    <3>3. res' \in Response
      BY <3>2, <2>2
    <3> QED
      BY <2>1, <2>2, <2>3, <3>1, <3>2, <3>3
         DEF TypeOK, RangeIsClients, BudgetPerCall
  <2>4. CASE RetryFetchCount # 0
    <3>1. pc' = "call" /\ UNCHANGED res
      BY <1>2, <2>4 DEF Fetch
    <3> QED
      BY <2>1, <2>2, <2>4, <3>1 DEF TypeOK, RangeIsClients, BudgetPerCall
  <2> QED
    BY <2>3, <2>4
<1> QED
  BY <1>1, <1>2

(* Every step of Fetch and HandleEvent keeps the invariant.                  *)
LEMMA InvStep == Inv /\ [Next]_vars => Inv'
<1> SUFFICES ASSUME Inv, [Next]_vars
             PROVE  Inv'
  OBVIOUS
<1> USE DEF Inv
<1>1. ASSUME NEW e \in Event, Receive(e)
      PROVE  Inv'
  <2>1. bodies' = 0 /\ content' = e.content /\ ev' = e
    BY <1>1 DEF Receive
  <2>2. TypeOK' /\ RangeIsClients' /\ BudgetPerCall'
    BY <1>1, <2>1, EventType, FetchBegins DEF Receive
  <2>3. ContentSentOnce'
    BY <2>1 DEF ContentSentOnce
  <2> QED
    BY <2>2, <2>3
<1>2. ASSUME Wake
      PROVE  Inv'
  <2>1. UNCHANGED <<isMaster, ev, content, sentAs, bodies>> /\ Fetch(ev)
    BY <1>2 DEF Wake
  <2>2. TypeOK' /\ RangeIsClients' /\ BudgetPerCall'
    BY <2>1, FetchBegins DEF TypeOK
  <2>3. ContentSentOnce'
    BY <2>1 DEF ContentSentOnce
  <2> QED
    BY <2>2, <2>3
<1>3. ASSUME CallOk
      PROVE  Inv'
  <2>1. /\ pc = "call" /\ pc' = "respond" /\ SendContent
        /\ UNCHANGED <<isMaster, ev, range, left, sentAs, failed>>
    BY <1>3 DEF CallOk, Respond
  <2>2. range = ev.range /\ range \in Ranges \cup {None}
    BY <2>1, EventType DEF RangeIsClients, TypeOK
  <2>3. PICK t \in Types \cup {None} :
          \/ res' = [status |-> 200, type |-> t, xrange |-> None]
          \/ res' = [status |-> 302, type |-> t, xrange |-> range]
    BY <1>3 DEF CallOk, Respond, Redirect
  <2>4. /\ res' \in Response
        /\ res'.status # 408 /\ res'.xrange \in {range, None}
        /\ res'.status = 302 => res'.xrange = range
    BY <2>2, <2>3
  <2>5. content' \in BOOLEAN /\ bodies' \in 0..2 /\ ContentSentOnce'
    BY <2>1, SendingContent
  <2> QED
    BY <2>1, <2>2, <2>4, <2>5 DEF TypeOK, RangeIsClients, BudgetPerCall
<1>4. ASSUME CallFail
      PROVE  Inv'
  <2>1. /\ pc = "call" /\ SendContent
        /\ UNCHANGED <<isMaster, ev, range, sentAs>>
    BY <1>4 DEF CallFail
  <2>2. range = ev.range /\ range \in Ranges \cup {None}
    BY <2>1, EventType DEF RangeIsClients, TypeOK
  <2>3. left + failed = RetryFetchCount /\ left > 0 /\ failed \in Nat
    BY <2>1 DEF BudgetPerCall, TypeOK
  <2>4. left' = left - 1 /\ failed' = failed + 1
    BY <1>4, <2>3 DEF CallFail, Spend, Count, TypeOK
  <2>5. content' \in BOOLEAN /\ bodies' \in 0..2 /\ ContentSentOnce'
    BY <2>1, SendingContent
  <2>6. CASE left - 1 > 0
    <3>1. UNCHANGED <<pc, res>>
      BY <1>4, <2>6 DEF CallFail, Spend
    <3> QED
      BY <2>1, <2>2, <2>3, <2>4, <2>5, <2>6, <3>1
         DEF TypeOK, RangeIsClients, BudgetPerCall
  <2>7. CASE ~(left - 1 > 0)
    <3>1. /\ pc' = "respond"
          /\ res' = [status |-> 408, type |-> Plain, xrange |-> range]
      BY <1>4, <2>7 DEF CallFail, Spend, Exhausted, Respond, Error
    <3>2. res' \in Response
      BY <3>1, <2>2
    <3>3. failed' = RetryFetchCount /\ left' = 0
      BY <2>3, <2>4, <2>7 DEF TypeOK
    <3> QED
      BY <2>1, <2>2, <2>5, <3>1, <3>2, <3>3
         DEF TypeOK, RangeIsClients, BudgetPerCall
  <2> QED
    BY <2>6, <2>7
<1>5. ASSUME CallTooLarge
      PROVE  Inv'
  <2>1. /\ pc = "call" /\ pc' = "sleep" /\ SendContent /\ left' = left - 1
        /\ range' \in {range, Narrowed}
        /\ UNCHANGED <<isMaster, ev, res, sentAs, failed>>
    BY <1>5 DEF CallTooLarge, Spend
  <2>2. left > 0
    BY <2>1 DEF BudgetPerCall
  <2>3. content' \in BOOLEAN /\ bodies' \in 0..2 /\ ContentSentOnce'
    BY <2>1, SendingContent
  <2> QED
    BY <2>1, <2>2, <2>3 DEF TypeOK, RangeIsClients, BudgetPerCall
<1>6. ASSUME HandleEvent
      PROVE  Inv'
  <2>1. /\ pc = "respond" /\ pc' = "send" /\ sentAs' \in {"none", "snappy"}
        /\ UNCHANGED <<isMaster, ev, content, range, left, res, failed, bodies>>
    BY <1>6 DEF HandleEvent
  <2> QED
    BY <2>1 DEF TypeOK, RangeIsClients, ContentSentOnce, BudgetPerCall
<1>7. ASSUME Send
      PROVE  Inv'
  <2>1. /\ pc' = "idle"
        /\ UNCHANGED <<isMaster, ev, content, range, left, res, sentAs, failed,
                       bodies>>
    BY <1>7 DEF Send
  <2> QED
    BY <2>1 DEF TypeOK, RangeIsClients, ContentSentOnce, BudgetPerCall
<1>8. CASE UNCHANGED vars
  BY <1>8 DEF vars, TypeOK, RangeIsClients, ContentSentOnce, BudgetPerCall
<1> QED
  BY <1>1, <1>2, <1>3, <1>4, <1>5, <1>6, <1>7, <1>8 DEF Next

(* The invariant holds in every state.                                       *)
LEMMA Invariance == Spec => []Inv
  BY InvInit, InvStep, PTL DEF Spec

(* The variables keep their types, for any retry budget: the budget is     *)
(* never counted below zero, where the code's unsigned counter would wrap. *)
THEOREM TypeCorrect == Spec => []TypeOK
<1>1. Inv => TypeOK
  BY DEF Inv
<1> QED
  BY <1>1, Invariance, PTL

(* Every attempt asks for the client's own range, and X-Range repeats it,  *)
(* after any number of too large answers.                                  *)
THEOREM AsksClientsRange == Spec => []RangeIsClients
<1>1. Inv => RangeIsClients
  BY DEF Inv
<1> QED
  BY <1>1, Invariance, PTL

(* The content of a request is posted at most once, however often the      *)
(* request is retried.                                                     *)
THEOREM PostsOnce == Spec => []ContentSentOnce
<1>1. Inv => ContentSentOnce
  BY DEF Inv
<1> QED
  BY <1>1, Invariance, PTL

(* Status 408 means that the whole retry budget failed since the last too  *)
(* large answer, whatever the budget is.                                   *)
THEOREM TimeoutAfterBudget == Spec => []BudgetPerCall
<1>1. Inv => BudgetPerCall
  BY DEF Inv
<1> QED
  BY <1>1, Invariance, PTL
=============================================================================
