----------------------------- MODULE Installed -----------------------------
(***************************************************************************)
(* What replacing the executable promises (selfupdate_unix.go): there is   *)
(* an executable at every moment, complete, and in a single step it        *)
(* becomes what was downloaded.  Goroutines that stage at once may spoil   *)
(* it; the next replacement that nobody disturbs repairs that.             *)
(***************************************************************************)
CONSTANT Releases

VARIABLES
    installed,     \* the release that is started
    downloads,     \* the releases at hand
    spoilt         \* the executable is a file that several goroutines staged

vars == <<installed, downloads, spoilt>>

Init == installed \in Releases /\ downloads = {} /\ spoilt = FALSE

Download == downloads' \subseteq Releases /\ UNCHANGED <<installed, spoilt>>

Replace == installed' \in downloads /\ downloads' \subseteq downloads /\ spoilt' = FALSE

Spoil == spoilt' = TRUE /\ downloads' \subseteq Releases

Next == Download \/ Replace \/ Spoil

Spec == Init /\ [][Next]_vars
=============================================================================
