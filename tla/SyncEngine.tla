----------------------------- MODULE SyncEngine -----------------------------
(***************************************************************************)
(* The synchronisation of a remote data source into a local SQLite file    *)
(* (internal/sync/engine.go), started by the "sync" command line or by the *)
(* cloud's sync_to_sqlite command, each in a goroutine or process of its   *)
(* own: nothing keeps two of them apart, whatever file they write.         *)
(*                                                                         *)
(* A row is its position in its table; the table gives every row an id,    *)
(* the value of IDCol, and rows are read in the order of their ids, NULL   *)
(* (0) first.  IDCol is not a key: ARTICLES_FOURNISSEUR_PALIER is read by  *)
(* its CodeSociete.                                                        *)
(***************************************************************************)
EXTENDS Naturals, Sequences, FiniteSets, FiniteSetsExt

CONSTANTS
    Jobs,          \* calls of Run for one file
    Tables,        \* number of tables, synced in order
    MaxRows,       \* bound: rows of a table
    MaxId,         \* bound: ids of the rows, 0 for NULL
    BatchSize,     \* TOP of the SELECT (999 in the code)
    MaxCopies,     \* bound: copies of a row that are told apart
    NoJob          \* no job of Jobs

ASSUME SyncAssumption ==
    /\ Tables \in Nat \ {0}
    /\ MaxRows \in Nat /\ MaxId \in Nat
    /\ BatchSize \in Nat \ {0}
    /\ MaxCopies \in Nat \ {0}
    /\ NoJob \notin Jobs

VARIABLES
    source,        \* per table, the ids of its rows
    exists,        \* tables that the file has
    copies,        \* per table and row, how often the file has it
    job,           \* per job, where Run stands and its Result so far
    alone          \* the job begun last, if none ran at that time (history)

vars == <<source, exists, copies, job, alone>>

AllTables == 1..Tables
AllRows == 1..MaxRows
Running == {"drop", "create", "query", "insert"}
Empty == [i \in AllRows |-> 0]

NewJob == [pc |-> "drop", table |-> 1, last |-> 0, page |-> {}, n |-> 0,
           ok |-> {}, rows |-> 0]

IdLists == {ids \in UNION {[1..n -> 0..MaxId] : n \in 0..MaxRows} :
               \A i, j \in DOMAIN ids : i < j => ids[i] <= ids[j]}

\* table: the one being synced; last: lastID, 0 for nil; page: the rows of the
\* last query; n: totalRows; ok and rows: Result.Tables and Result.Rows.
TypeOK ==
    /\ source \in [AllTables -> IdLists]
    /\ exists \in SUBSET AllTables
    /\ copies \in [AllTables -> [AllRows -> 0..MaxCopies]]
    /\ \A j \in Jobs :
          /\ job[j].pc \in Running \cup {"idle", "done", "dead"}
          /\ job[j].table \in AllTables /\ job[j].last \in 0..MaxId
          /\ job[j].page \subseteq DOMAIN source[job[j].table]
          /\ Cardinality(job[j].page) <= BatchSize
          /\ job[j].ok \subseteq AllTables
          /\ job[j].rows \in 0..(Tables * MaxRows)
    /\ alone \in Jobs \cup {NoJob}

Init ==
    /\ source \in [AllTables -> IdLists]
    /\ exists = {} /\ copies = [t \in AllTables |-> Empty]
    /\ job = [j \in Jobs |-> [NewJob EXCEPT !.pc = "idle"]]
    /\ alone = NoJob

-----------------------------------------------------------------------------
Active == {j \in Jobs : job[j].pc \in Running}
At(j, pc) == job[j].pc = pc
Cap(n, max) == IF n > max THEN max ELSE n

\* Run turns to the next table, or returns.
NextTable(w) ==
    [NewJob EXCEPT !.pc = IF w.table = Tables THEN "done" ELSE "drop",
                   !.table = Cap(w.table + 1, Tables),
                   !.ok = w.ok, !.rows = w.rows]

\* syncTable has returned without an error.
Counted(w) ==
    NextTable([w EXCEPT !.ok = w.ok \cup {w.table}, !.rows = w.rows + w.n])

\* Mutant: the rows of a failed table are counted all the same.
Failed_CountsRows(w) == NextTable([w EXCEPT !.rows = Cap(w.rows + w.n, Tables * MaxRows)])

\* syncTable has returned an error: its rows stay in the file, uncounted.
Failed(w) == NextTable(w)

Begin(j) ==
    /\ At(j, "idle")
    /\ job' = [job EXCEPT ![j] = NewJob]
    /\ alone' = IF Active = {} THEN j ELSE NoJob
    /\ UNCHANGED <<source, exists, copies>>

\* Mutant: rows of an earlier sync are kept, CREATE TABLE IF NOT EXISTS.
Drop_Keeps(j) ==
    /\ At(j, "drop")
    /\ job' = [job EXCEPT ![j].pc = "create"]
    /\ exists' = exists \ {job[j].table}
    /\ UNCHANGED <<source, copies, alone>>

Drop(j) ==
    /\ At(j, "drop")
    /\ job' = [job EXCEPT ![j].pc = "create"]
    /\ exists' = exists \ {job[j].table}
    /\ copies' = [copies EXCEPT ![job[j].table] = Empty]
    /\ UNCHANGED <<source, alone>>

Create(j) ==
    /\ At(j, "create") /\ job[j].table \notin exists
    /\ job' = [job EXCEPT ![j].pc = "query"]
    /\ exists' = exists \cup {job[j].table}
    /\ UNCHANGED <<source, copies, alone>>

\* Mutant: the cursor includes the id it stands at.
Page_FromCursor(t, last) ==
    LET next == {i \in DOMAIN source[t] : last = 0 \/ source[t][i] >= last}
    IN  {i \in next : Cardinality({k \in next : k <= i}) <= BatchSize}

\* Mutant: a SELECT without TOP.
Page_NoTop(t, last) == {i \in DOMAIN source[t] : last = 0 \/ source[t][i] > last}

\* SELECT TOP BatchSize ... WHERE IDCol > last ORDER BY IDCol; no WHERE at nil.
Page(t, last) ==
    LET next == {i \in DOMAIN source[t] : last = 0 \/ source[t][i] > last}
    IN  {i \in next : Cardinality({k \in next : k <= i}) <= BatchSize}

Query(j) ==
    /\ At(j, "query")
    /\ LET w == job[j]
           page == Page(w.table, w.last)
       IN  job' = [job EXCEPT ![j] =
                     IF page = {} THEN Counted(w)
                     ELSE [w EXCEPT !.pc = "insert", !.page = page]]
    /\ UNCHANGED <<source, exists, copies, alone>>

\* insertBatch commits the page, then the cursor moves to its last row.  A
\* short page is the last one.  (n is only told apart up to MaxRows.)
Insert(j) ==
    /\ At(j, "insert") /\ job[j].table \in exists
    /\ LET w == job[j]
           n == Cap(w.n + Cardinality(w.page), MaxRows)
       IN  /\ copies' = [copies EXCEPT ![w.table] = [i \in AllRows |->
                            IF i \in w.page THEN Cap(@[i] + 1, MaxCopies) ELSE @[i]]]
           /\ job' = [job EXCEPT ![j] =
                        IF Cardinality(w.page) < BatchSize
                        THEN Counted([w EXCEPT !.n = n])
                        ELSE [w EXCEPT !.pc = "query", !.page = {}, !.n = n,
                                       !.last = source[w.table][Max(w.page)]]]
    /\ UNCHANGED <<source, exists, alone>>

\* A statement, the query or the transaction fails; CREATE always does when
\* another job has created the table, INSERT when another has dropped it.
Fail(j) ==
    /\ j \in Active
    /\ job' = [job EXCEPT ![j] = Failed(@)]
    /\ UNCHANGED <<source, exists, copies, alone>>

\* The process of the job ends: what was committed stays.
Crash(j) ==
    /\ j \in Active
    /\ job' = [job EXCEPT ![j] = [NewJob EXCEPT !.pc = "dead"]]
    /\ UNCHANGED <<source, exists, copies, alone>>

Ended == Active = {} /\ (\A j \in Jobs : ~At(j, "idle")) /\ UNCHANGED vars

JobStep(j) == Drop(j) \/ Create(j) \/ Query(j) \/ Insert(j) \/ Fail(j)

Next == (\E j \in Jobs : Begin(j) \/ JobStep(j) \/ Crash(j)) \/ Ended

Spec == Init /\ [][Next]_vars

\* A goroutine that runs makes progress: no statement and no query hangs.
FairSpec == Spec /\ \A j \in Jobs : WF_vars(JobStep(j))

-----------------------------------------------------------------------------
\* A first page of nothing but NULL ids leaves the cursor where it was.
NullPage(t) == Cardinality({i \in DOMAIN source[t] : source[t][i] = 0}) >= BatchSize

\* Whatever earlier syncs, crashed or failed, left in the file: a table that a
\* sync running alone counts as synced has every row once, except rows lost
\* between two pages, which have the id of an earlier row that is there.
SyncedTables ==
    alone # NoJob =>
        \A t \in job[alone].ok : \A i \in DOMAIN source[t] :
            \/ copies[t][i] = 1
            \/ /\ copies[t][i] = 0
               /\ \E k \in 1..(i - 1) : copies[t][k] = 1 /\ source[t][k] = source[t][i]

\* The rows that the file has in some tables, each with the number of the copy.
Held(tables) == {x \in tables \X AllRows \X (1..MaxCopies) : x[3] <= copies[x[1]][x[2]]}

\* The sync_result of a sync running alone tells the cloud how many rows the
\* file has in the tables it counts, though failed tables hold rows as well.
RowsReported ==
    alone # NoJob => job[alone].rows = Cardinality(Held(job[alone].ok))

\* A sync ends, whatever other syncs do to its tables, unless it is stuck on a
\* page of NULL ids.
SyncEnds == \A j \in Jobs : j \in Active ~> j \notin Active \/ NullPage(job[j].table)
=============================================================================
