----------------------------- MODULE MCAppUpload -----------------------------
(***************************************************************************)
(* Instances of AppUpload for TLC.                                         *)
(***************************************************************************)
EXTENDS AppUpload

CONSTANTS x, y, alice, bob

\* One terminal deploys two apps while another closes the first one's
\* transaction, or both update one app, or each rolls back.
MCTerminals ==
  {[s \in Sessions |-> [action |-> IF s = alice THEN p[1] ELSE p[2],
                        apps |-> IF s = alice THEN p[3] ELSE <<x>>]] :
     p \in {<<"update", "rollback", <<x, y>>>>, <<"update", "update", <<x>>>>}}

\* A new server that runs Go apps, an old one that runs Python apps.
MCConfigs == {[old |-> FALSE, go |-> TRUE], [old |-> TRUE, go |-> FALSE]}

MCSize == [f \in Paths |-> f]
=============================================================================
