------------------------------ MODULE RowStream ------------------------------
(***************************************************************************)
(* What the cloud may rely on about the frames it receives for its         *)
(* queries, whatever sessions come and go.  Each time a query is handed to *)
(* the connector starts a run of it with a stream of frames: frames are    *)
(* only ever added, batch after batch (some may be missing), and nothing   *)
(* after an error (batch 0).  Once a connection carries frames of any run, *)
(* no earlier one does.                                                    *)
(***************************************************************************)
EXTENDS Naturals, Sequences

CONSTANTS
    Runs,          \* runs of queries of the cloud
    Conns,         \* connections, in the order they are opened
    Batches        \* row batches of a query

VARIABLES
    asked,         \* the runs that have begun
    delivered      \* per run, the frames that reached the cloud

Frame == [conn : Conns, batch : 0..Batches]

Init == asked = {} /\ delivered = [r \in Runs |-> <<>>]

\* A query is handed over, for the first time or again.
Ask(r) == asked' = asked \cup {r} /\ UNCHANGED delivered

\* Frame e may follow what was delivered of its run, and of the others.
Follows(e, frames) ==
    frames # <<>> => LET last == frames[Len(frames)] IN
        last.batch # 0 /\ last.batch < e.batch

Latest(e) ==
    \A r \in Runs : \A i \in DOMAIN delivered[r] : delivered[r][i].conn <= e.conn

Deliver(r, e) ==
    /\ r \in asked /\ Follows(e, delivered[r]) /\ Latest(e)
    /\ delivered' = [delivered EXCEPT ![r] = Append(@, e)]
    /\ UNCHANGED asked

Next == \E r \in Runs : Ask(r) \/ \E e \in Frame : Deliver(r, e)

Spec == Init /\ [][Next]_<<asked, delivered>>
=============================================================================
