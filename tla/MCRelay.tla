------------------------------ MODULE MCRelay ------------------------------
(* Relay for TLC.                                                          *)
EXTENDS Relay, TLC

\* A connector that keeps a complete configuration and is not stopped: what
\* these two do to the rows of a query is end the relay before or during it.
Undisturbed == configured /\ ~stopped
=============================================================================
