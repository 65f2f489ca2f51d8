----------------------------- MODULE MCUpdater -----------------------------
(* Updater for TLC.                                                        *)
EXTENDS Updater, TLC

\* The goroutines differ in nothing but their name.
Symmetric == Permutations(Tasks)
=============================================================================
