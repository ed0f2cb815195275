------------------------------ MODULE RpcCall ------------------------------
(***************************************************************************)
(* What Send of an RPC server object promises the callers in appcfg.py,    *)
(* whichever of the two implementations is used: the answer it returns is  *)
(* the answer to its last request, it repeats a request only when the      *)
(* server failed (5xx) or asked for authentication, and it makes at most   *)
(* RpcTries repetitions.                                                   *)
(***************************************************************************)
EXTENDS Naturals

CONSTANT RpcTries

VARIABLES open, requests, last, result

vars == <<open, requests, last, result>>

Answers == {"200", "4xx", "5xx", "401", "302login", "302dev", "302other", "net"}

Repeatable == {"none", "5xx", "401", "302login", "302dev"}

Init == open = FALSE /\ requests = 0 /\ last = "none" /\ result = "none"

Call ==
  /\ ~open /\ open' = TRUE
  /\ requests' = 0 /\ last' = "none" /\ result' = "none"

Try ==
  /\ open /\ last \in Repeatable /\ requests <= RpcTries
  /\ requests' = requests + 1
  /\ last' \in Answers
  /\ \/ last' = "200" /\ open' = FALSE /\ result' = "ok"
     \/ last' # "200" /\ open' = FALSE /\ result' = "error"
     \/ last' # "200" /\ open' = TRUE /\ result' = "none"

GiveUp ==
  /\ open /\ requests > 0
  /\ open' = FALSE /\ result' = "error"
  /\ UNCHANGED <<requests, last>>

Next == Call \/ Try \/ GiveUp

Spec == Init /\ [][Next]_vars
=============================================================================
