--------------------------- MODULE MCLogForwarder ---------------------------
(* LogForwarder for TLC.                                                   *)
EXTENDS LogForwarder
=============================================================================
