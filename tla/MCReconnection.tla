--------------------------- MODULE MCReconnection ---------------------------
(* Reconnection for TLC.                                                   *)
EXTENDS Reconnection
=============================================================================
