------------------------------ MODULE MCPoller ------------------------------
(* Poller for TLC.                                                         *)
EXTENDS Poller

CONSTANTS q, e, r

OneOfEachKind == (q :> "query") @@ (e :> "edit") @@ (r :> "restart")
=============================================================================
