------------------------------ MODULE MCFetch ------------------------------
(* Bounded instances of Fetch for TLC. *)
EXTENDS Fetch, TLC
=============================================================================
