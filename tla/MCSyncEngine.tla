---------------------------- MODULE MCSyncEngine ----------------------------
(* SyncEngine for TLC.                                                     *)
EXTENDS SyncEngine

\* The first table takes up to two pages; of the later ones all that matters
\* is that Run gets to them: at most one page.
LaterTablesSmall == \A t \in 2..Tables : Cardinality(DOMAIN source[t]) <= BatchSize - 1
=============================================================================
