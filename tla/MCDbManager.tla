---------------------------- MODULE MCDbManager ----------------------------
(* DbManager for TLC.                                                      *)
EXTENDS DbManager, TLC

\* Goroutines of a kind differ in nothing but their name.
Symmetric == Permutations(Queriers)
=============================================================================
