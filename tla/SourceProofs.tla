---------------------------- MODULE SourceProofs ----------------------------
(***************************************************************************)
(* Theorems about what is read from data sources: SyncEngine, for every    *)
(* number of jobs, tables, rows and ids and every size of a page, and      *)
(* DbManager, for every number of goroutines, drivers and failures.  The   *)
(* variables of the two modules are disjoint.                              *)
(***************************************************************************)
EXTENDS SyncEngine, DbManager, FiniteSetTheorems, TLAPS

-----------------------------------------------------------------------------
(* Pages.                                                                  *)

\* A set of indices that has every later index is an interval.
LEMMA Suffix ==
    ASSUME NEW n \in Nat, NEW S \in SUBSET (1..n),
           \A i \in S, k \in 1..n : i < k => k \in S
    PROVE  \E m \in 1..(n + 1) : S = m..n
  <1>1. CASE S = {}
    <2>1. n + 1 \in 1..(n + 1) /\ (n + 1)..n = {}
      OBVIOUS
    <2> QED BY <1>1, <2>1
  <1>2. CASE S # {}
    <2>1. S \subseteq Nat
      OBVIOUS
    <2>2. \E m \in S : \A i \in S : <<i, m>> \notin OpToRel(<, Nat)
      BY <1>2, <2>1, NatLessThanWellFounded, WFMin, Zenon
    <2>3. PICK m \in S : \A i \in S : <<i, m>> \notin OpToRel(<, Nat)
      BY <2>2
    <2>4. \A i \in S : ~(i < m)
      <3>1. ASSUME NEW i \in S, i < m PROVE FALSE
        <4>1. i \in Nat /\ m \in Nat
          BY <2>1
        <4>2. <<i, m>> \in OpToRel(<, Nat)
          BY <3>1, <4>1, Zenon DEF OpToRel
        <4> QED BY <2>3, <4>2
      <3> QED BY <3>1
    <2>5. m \in 1..n /\ n \in Nat
      OBVIOUS
    <2>6. ASSUME NEW i \in S PROVE i \in m..n
      <3>1. i \in 1..n /\ ~(i < m)
        BY <2>4
      <3> QED BY <2>5, <3>1
    <2>7. ASSUME NEW i \in m..n PROVE i \in S
      <3>1. i \in 1..n /\ (i = m \/ m < i)
        BY <2>5
      <3> QED BY <3>1
    <2>8. S = m..n
      BY <2>6, <2>7
    <2>9. m \in 1..(n + 1)
      BY <2>5
    <2> QED BY <2>8, <2>9
  <1> QED BY <1>1, <1>2

\* The rows that a query with that cursor is about.
After(t, last) == {i \in DOMAIN source[t] : last = 0 \/ source[t][i] > last}

\* The rows of a table are in the order of their ids.
LEMMA Sorted ==
    ASSUME NEW ids \in IdLists
    PROVE  \E n \in 0..MaxRows :
              /\ ids \in [1..n -> 0..MaxId]
              /\ \A i, k \in 1..n : i < k => ids[i] <= ids[k]
  <1>1. PICK n \in 0..MaxRows : ids \in [1..n -> 0..MaxId]
    BY DEF IdLists
  <1>2. DOMAIN ids = 1..n
    BY <1>1
  <1>3. \A i, k \in DOMAIN ids : i < k => ids[i] <= ids[k]
    BY DEF IdLists
  <1> QED BY <1>1, <1>2, <1>3

\* What a query asks for is what follows the cursor, the rows from m to n, and a
\* page is its beginning, up to row e: all of it, unless the page is full.
Paged(t, last, n, m, e) ==
    /\ DOMAIN source[t] = 1..n
    /\ source[t] \in [1..n -> 0..MaxId]
    /\ \A i, k \in 1..n : i < k => source[t][i] <= source[t][k]
    /\ After(t, last) = m..n
    /\ Page(t, last) = m..e
    /\ m <= e + 1 /\ e <= n
    /\ IsFiniteSet(Page(t, last))
    /\ Cardinality(Page(t, last)) = e + 1 - m
    /\ e + 1 - m <= BatchSize
    /\ e + 1 - m < BatchSize => e = n

\* Every query of a table is Paged.
LEMMA Pages ==
    ASSUME NEW t \in AllTables, source[t] \in IdLists, NEW last \in Nat
    PROVE  \E n \in 0..MaxRows, m \in 1..(MaxRows + 1), e \in 0..MaxRows : Paged(t, last, n, m, e)
  <1>1. PICK n \in 0..MaxRows : /\ source[t] \in [1..n -> 0..MaxId]
                                /\ \A i, k \in 1..n : i < k => source[t][i] <= source[t][k]
    BY Sorted
  <1>2. DOMAIN source[t] = 1..n /\ MaxRows \in Nat /\ MaxId \in Nat /\ n \in Nat /\ n <= MaxRows
    BY <1>1, SyncAssumption DEF SyncAssumption
  <1>3. \A i \in 1..n : source[t][i] \in Nat
    BY <1>1, <1>2
  <1> DEFINE S == After(t, last)
  <1>4. PICK m \in 1..(n + 1) : S = m..n
    <2>1. S \in SUBSET (1..n)
      BY <1>2 DEF After
    <2>2. ASSUME NEW i \in S, NEW k \in 1..n, i < k PROVE k \in S
      <3>1. i \in 1..n /\ source[t][i] <= source[t][k] /\ (last = 0 \/ source[t][i] > last)
        BY <1>1, <1>2, <2>2 DEF After
      <3>2. last = 0 \/ source[t][k] > last
        BY <1>3, <3>1
      <3> QED BY <1>2, <3>2 DEF After
    <2> HIDE DEF S
    <2> QED BY <1>2, <2>1, <2>2, Suffix
  <1>5. BatchSize \in Nat /\ BatchSize >= 1
    BY SyncAssumption DEF SyncAssumption
  <1>6. PICK e \in 0..n : /\ m <= e + 1 /\ e + 1 - m <= BatchSize
                          /\ e + 1 - m < BatchSize => e = n
                          /\ \A i \in m..n : i <= e <=> i - m + 1 <= BatchSize
    <2>1. CASE n + 1 - m <= BatchSize
      <3>1. /\ n \in 0..n /\ m <= n + 1 /\ n + 1 - m <= BatchSize
            /\ \A i \in m..n : i <= n <=> i - m + 1 <= BatchSize
        BY <1>2, <1>5, <2>1
      <3> QED BY <3>1
    <2>2. CASE n + 1 - m > BatchSize
      <3> DEFINE e == m + BatchSize - 1
      <3>1. /\ e \in 0..n /\ m <= e + 1 /\ e + 1 - m = BatchSize
            /\ \A i \in m..n : i <= e <=> i - m + 1 <= BatchSize
        BY <1>2, <1>5, <2>2
      <3>2. ~(e + 1 - m < BatchSize) /\ e + 1 - m <= BatchSize
        BY <1>2, <1>5, <3>1
      <3> QED BY <3>1, <3>2
    <2> QED BY <1>2, <1>5, <2>1, <2>2
  <1>7. Page(t, last) = m..e
    <2>1. Page(t, last) = {i \in S : Cardinality({k \in S : k <= i}) <= BatchSize}
      BY DEF Page, After
    <2>2. ASSUME NEW i \in m..n
          PROVE  Cardinality({k \in S : k <= i}) = i - m + 1
      <3>1. {k \in m..n : k <= i} = m..i
        BY <1>2, <2>2
      <3>2. Cardinality(m..i) = i - m + 1
        <4>1. m \in Int /\ i \in Int /\ m <= i
          BY <1>2, <2>2
        <4> QED BY <4>1, FS_Interval
      <3> HIDE DEF S
      <3> QED BY <1>4, <3>1, <3>2
    <2> HIDE DEF S
    <2>3. Page(t, last) = {i \in m..n : i - m + 1 <= BatchSize}
      BY <1>4, <2>1, <2>2
    <2>4. {i \in m..n : i - m + 1 <= BatchSize} = {i \in m..n : i <= e}
      BY <1>6
    <2>5. {i \in m..n : i <= e} = m..e
      BY <1>2, <1>6
    <2> QED BY <2>3, <2>4, <2>5
  <1>8. IsFiniteSet(m..e) /\ Cardinality(m..e) = e + 1 - m
    <2>1. m \in Int /\ e \in Int /\ (m > e => e + 1 - m = 0)
      BY <1>2, <1>6
    <2> QED BY <2>1, FS_Interval
  <1>9. m \in 1..(MaxRows + 1) /\ e \in 0..MaxRows /\ e <= n
    BY <1>2, <1>4, <1>6
  <1> QED
    <2>1. After(t, last) = m..n
      BY <1>4
    <2> HIDE DEF S
    <2> QED BY <1>1, <1>2, <1>6, <1>7, <1>8, <1>9, <2>1 DEF Paged

-----------------------------------------------------------------------------
(* Types.                                                                  *)

JobType ==
    [pc : Running \cup {"idle", "done", "dead"}, table : AllTables, last : 0..MaxId,
     page : SUBSET AllRows, n : 0..MaxRows, ok : SUBSET AllTables, rows : Nat]

\* What a job has at each place, and a bound of what it has counted.
Fits(w) ==
    /\ w.page \subseteq DOMAIN source[w.table] /\ Cardinality(w.page) <= BatchSize
    /\ w.pc = "insert" => w.page = Page(w.table, w.last) /\ w.page # {}
    /\ w.pc \in {"drop", "create"} => w.last = 0 /\ w.n = 0
    /\ w.pc \in Running => w.ok \subseteq 1..(w.table - 1) /\ w.rows <= (w.table - 1) * MaxRows
    /\ w.rows <= Tables * MaxRows

TypeInv ==
    /\ source \in [AllTables -> IdLists]
    /\ exists \in SUBSET AllTables
    /\ copies \in [AllTables -> [AllRows -> 0..MaxCopies]]
    /\ job \in [Jobs -> JobType]
    /\ \A j \in Jobs : Fits(job[j])
    /\ alone \in Jobs \cup {NoJob}

\* The invariant says more than the type.
LEMMA TypeInvIsType == TypeInv => TypeOK
  <1>1. Tables \in Nat /\ MaxRows \in Nat /\ Tables * MaxRows \in Nat
    BY SyncAssumption DEF SyncAssumption
  <1>2. ASSUME TypeInv, NEW j \in Jobs
        PROVE  /\ job[j].pc \in Running \cup {"idle", "done", "dead"}
               /\ job[j].table \in AllTables /\ job[j].last \in 0..MaxId
               /\ job[j].page \subseteq DOMAIN source[job[j].table]
               /\ Cardinality(job[j].page) <= BatchSize
               /\ job[j].ok \subseteq AllTables
               /\ job[j].rows \in 0..(Tables * MaxRows)
    <2>1. job[j] \in JobType /\ Fits(job[j])
      BY <1>2 DEF TypeInv
    <2>2. job[j].rows \in Nat /\ job[j].rows <= Tables * MaxRows
      BY <2>1 DEF JobType, Fits
    <2> QED BY <1>1, <2>1, <2>2 DEF JobType, Fits
  <1> QED BY <1>2 DEF TypeInv, TypeOK

\* The types are kept by a step that replaces the record of one job.
LEMMA TypeMoved ==
    ASSUME TypeInv, NEW j \in Jobs, NEW v \in JobType, Fits(v),
           job' = [job EXCEPT ![j] = v], UNCHANGED source,
           exists' \in SUBSET AllTables,
           copies' \in [AllTables -> [AllRows -> 0..MaxCopies]],
           alone' \in Jobs \cup {NoJob}
    PROVE  TypeInv'
  <1>1. job' \in [Jobs -> JobType]
    BY DEF TypeInv
  <1>2. ASSUME NEW k \in Jobs PROVE Fits(job[k])' /\ job'[k] = IF k = j THEN v ELSE job[k]
    <2>1. job'[k] = IF k = j THEN v ELSE job[k]
      BY DEF TypeInv
    <2>2. PICK u : u = job'[k]
      OBVIOUS
    <2>3. Fits(u)
      BY <2>1, <2>2 DEF TypeInv
    <2>4. \A t, last : Page(t, last)' = Page(t, last)
      BY DEF Page
    <2>5. Fits(u)' <=> Fits(u)
      BY <2>4 DEF Fits
    <2>6. Fits(job[k])' <=> Fits(u)'
      BY <2>2, Zenon DEF Fits
    <2> QED BY <2>1, <2>3, <2>5, <2>6
  <1> QED BY <1>1, <1>2 DEF TypeInv

\* A job at rest, and one that turns to the next table, has its type.
LEMMA TypeNew ==
    ASSUME TypeInv
    PROVE  /\ \A pc \in {"drop", "idle", "dead"} :
                 [NewJob EXCEPT !.pc = pc] \in JobType /\ Fits([NewJob EXCEPT !.pc = pc])
           /\ NewJob = [NewJob EXCEPT !.pc = "drop"]
  <1>1. /\ Tables \in Nat /\ 1 \in AllTables /\ MaxRows \in Nat /\ 0 <= Tables * MaxRows
        /\ BatchSize \in Nat /\ MaxId \in Nat
    BY SyncAssumption DEF SyncAssumption, AllTables
  <1>2. Cardinality({}) = 0
    BY FS_EmptySet
  <1>3. ASSUME NEW pc \in {"drop", "idle", "dead"}
        PROVE  [NewJob EXCEPT !.pc = pc] \in JobType /\ Fits([NewJob EXCEPT !.pc = pc])
    <2>1. PICK v : v = [NewJob EXCEPT !.pc = pc]
      OBVIOUS
    <2>2. /\ v.pc = pc /\ v.table = 1 /\ v.last = 0 /\ v.page = {} /\ v.n = 0
          /\ v.ok = {} /\ v.rows = 0
      BY <2>1 DEF NewJob
    <2>3. v \in JobType
      BY <1>1, <2>1 DEF NewJob, JobType, Running
    <2>4. (1 - 1) * MaxRows = 0
      BY <1>1
    <2>5. Fits(v)
      BY <1>1, <1>2, <2>2, <2>4 DEF Fits
    <2> QED BY <2>1, <2>3, <2>5
  <1>4. NewJob = [NewJob EXCEPT !.pc = "drop"]
    BY DEF NewJob
  <1> QED BY <1>3, <1>4

\* The record v of a job that has turned from the table of w to the next one, or
\* returned, with those tables and rows in its Result.
Turned(v, w, ok, rows) ==
    /\ v \in JobType /\ Fits(v)
    /\ v.pc = (IF w.table = Tables THEN "done" ELSE "drop")
    /\ v.pc = "drop" => v.table = w.table + 1
    /\ v.last = 0 /\ v.page = {} /\ v.n = 0 /\ v.ok = ok /\ v.rows = rows

\* NextTable turns the job.
LEMMA Turns ==
    ASSUME TypeInv, NEW w \in JobType, NEW ok \in SUBSET (1..w.table), NEW rows \in Nat,
           rows <= w.table * MaxRows, NEW x, x.table = w.table, x.ok = ok, x.rows = rows
    PROVE  Turned(NextTable(x), w, ok, rows)
  <1>1. /\ Tables \in Nat /\ w.table \in 1..Tables /\ MaxRows \in Nat /\ BatchSize \in Nat
        /\ MaxId \in Nat
    BY SyncAssumption DEF SyncAssumption, AllTables, JobType
  <1>2. Cardinality({}) = 0
    BY FS_EmptySet
  <1>3. Cap(w.table + 1, Tables) = IF w.table = Tables THEN Tables ELSE w.table + 1
    BY <1>1 DEF Cap
  <1>4. PICK pc, table : /\ pc = (IF w.table = Tables THEN "done" ELSE "drop")
                         /\ table = (IF w.table = Tables THEN Tables ELSE w.table + 1)
    OBVIOUS
  <1>5. PICK v : v = [NewJob EXCEPT !.pc = pc, !.table = table, !.ok = ok, !.rows = rows]
    OBVIOUS
  <1>6. v = NextTable(x)
    BY <1>3, <1>4, <1>5 DEF NextTable
  <1>7. /\ v.pc = pc /\ v.table = table
        /\ v.last = 0 /\ v.page = {} /\ v.n = 0 /\ v.ok = ok /\ v.rows = rows
    BY <1>5 DEF NewJob
  <1>8. table \in AllTables /\ ok \in SUBSET AllTables /\ pc \in {"done", "drop"}
    BY <1>1, <1>4 DEF AllTables
  <1>9. v \in JobType
    <2>1. /\ 0 \in 0..MaxId /\ 0 \in 0..MaxRows /\ {} \in SUBSET AllRows
          /\ pc \in Running \cup {"idle", "done", "dead"}
      BY <1>1, <1>8 DEF Running
    <2> QED BY <1>5, <1>8, <2>1 DEF NewJob, JobType
  <1>10. rows <= Tables * MaxRows
    <2>1. w.table * MaxRows <= Tables * MaxRows
      BY <1>1
    <2>2. w.table * MaxRows \in Nat /\ Tables * MaxRows \in Nat
      BY <1>1
    <2> QED BY <2>1, <2>2
  <1>11. v.pc \in Running => v.table - 1 = w.table
    BY <1>1, <1>4, <1>7 DEF Running
  <1>12. Fits(v)
    BY <1>1, <1>2, <1>4, <1>7, <1>10, <1>11 DEF Fits
  <1> QED BY <1>1, <1>4, <1>6, <1>7, <1>9, <1>12 DEF Turned

\* A table that has failed, and one that was synced with n rows.
LEMMA Results ==
    ASSUME TypeInv, NEW j \in Jobs, job[j].pc \in Running
    PROVE  /\ Turned(Failed(job[j]), job[j], job[j].ok, job[j].rows)
           /\ \A n \in 0..MaxRows :
                 Turned(Counted([job[j] EXCEPT !.n = n]), job[j], job[j].ok \cup {job[j].table},
                        job[j].rows + n)
           /\ Turned(Counted(job[j]), job[j], job[j].ok \cup {job[j].table},
                     job[j].rows + job[j].n)
  <1>1. PICK w : w = job[j]
    OBVIOUS
  <1>2. w \in JobType /\ Fits(w) /\ w.pc \in Running
    BY <1>1 DEF TypeInv
  <1>3. /\ Tables \in Nat /\ w.table \in 1..Tables /\ MaxRows \in Nat
        /\ w.rows \in Nat /\ w.n \in 0..MaxRows
    BY <1>2, SyncAssumption DEF SyncAssumption, AllTables, JobType
  <1>4. w.ok \subseteq 1..(w.table - 1) /\ w.rows <= (w.table - 1) * MaxRows
    BY <1>2 DEF Fits
  <1>5. (w.table - 1) * MaxRows + MaxRows = w.table * MaxRows /\ (w.table - 1) * MaxRows \in Nat
    BY <1>3
  <1>6. w.ok \in SUBSET (1..w.table) /\ w.rows <= w.table * MaxRows
    BY <1>3, <1>4, <1>5
  <1>7. Turned(Failed(w), w, w.ok, w.rows)
    BY <1>2, <1>3, <1>6, Turns DEF Failed
  <1>8. ASSUME NEW x \in JobType, x.table = w.table, x.ok = w.ok, x.rows = w.rows
        PROVE  Turned(Counted(x), w, w.ok \cup {w.table}, w.rows + x.n)
    <2>1. PICK y : y = [x EXCEPT !.ok = x.ok \cup {x.table}, !.rows = x.rows + x.n]
      OBVIOUS
    <2>2. y.table = w.table /\ y.ok = w.ok \cup {w.table} /\ y.rows = w.rows + x.n
      BY <1>8, <2>1 DEF JobType
    <2>3. Counted(x) = NextTable(y)
      BY <2>1 DEF Counted
    <2>4. y.ok \in SUBSET (1..w.table) /\ y.rows \in Nat /\ y.rows <= w.table * MaxRows
      <3>1. x.n \in 0..MaxRows
        BY <1>8 DEF JobType
      <3> QED BY <1>3, <1>4, <1>5, <2>2, <3>1
    <2>5. Turned(NextTable(y), w, y.ok, y.rows)
      BY <1>2, <2>2, <2>4, Turns
    <2> QED BY <2>2, <2>3, <2>5
  <1>9. ASSUME NEW n \in 0..MaxRows
        PROVE  Turned(Counted([w EXCEPT !.n = n]), w, w.ok \cup {w.table}, w.rows + n)
    <2>1. PICK x : x = [w EXCEPT !.n = n]
      OBVIOUS
    <2>2. x.table = w.table /\ x.ok = w.ok /\ x.rows = w.rows /\ x.n = n /\ x \in JobType
      BY <1>2, <2>1 DEF JobType
    <2> QED BY <1>8, <2>1, <2>2
  <1>10. Turned(Counted(w), w, w.ok \cup {w.table}, w.rows + w.n)
    BY <1>2, <1>8
  <1> QED BY <1>1, <1>7, <1>9, <1>10, Zenon

\* What a job is and what its table is, in a state with types.
LEMMA Typed ==
    ASSUME TypeInv, NEW j \in Jobs
    PROVE  /\ job[j] \in JobType /\ Fits(job[j])
           /\ job[j].table \in AllTables /\ job[j].last \in Nat /\ job[j].n \in 0..MaxRows
           /\ job[j].page \in SUBSET AllRows /\ job[j].rows \in Nat
           /\ source[job[j].table] \in IdLists
           /\ Tables \in Nat /\ MaxRows \in Nat /\ MaxId \in Nat /\ MaxCopies \in Nat
           /\ MaxCopies >= 1 /\ BatchSize \in Nat /\ BatchSize >= 1
           /\ AllTables = 1..Tables /\ AllRows = 1..MaxRows
  <1>1. job[j] \in JobType /\ Fits(job[j])
    BY DEF TypeInv
  <1>2. /\ Tables \in Nat /\ MaxRows \in Nat /\ MaxId \in Nat /\ MaxCopies \in Nat
        /\ MaxCopies >= 1 /\ BatchSize \in Nat /\ BatchSize >= 1
    BY SyncAssumption DEF SyncAssumption
  <1>3. AllTables = 1..Tables /\ AllRows = 1..MaxRows
    BY DEF AllTables, AllRows
  <1>4. PICK w : w = job[j]
    OBVIOUS
  <1>5. /\ w.table \in AllTables /\ w.last \in 0..MaxId /\ w.n \in 0..MaxRows
        /\ w.page \in SUBSET AllRows /\ w.rows \in Nat
    BY <1>1, <1>4 DEF JobType
  <1>6. w.last \in Nat /\ source[w.table] \in IdLists
    BY <1>2, <1>5 DEF TypeInv
  <1> QED BY <1>1, <1>2, <1>3, <1>4, <1>5, <1>6, Zenon

\* What stays of a job that goes on with its table.
Stays(v, w) ==
    /\ v \in JobType /\ Fits(v)
    /\ v.table = w.table /\ v.ok = w.ok /\ v.rows = w.rows

\* DROP and CREATE change the place of a job alone.
LEMMA DropEffect ==
    ASSUME TypeInv, NEW j \in Jobs, Drop(j)
    PROVE  \E v : /\ job' = [job EXCEPT ![j] = v] /\ Stays(v, job[j])
                  /\ v.pc = "create" /\ v.last = 0 /\ v.n = 0
  <1>1. PICK w, v : w = job[j] /\ v = [w EXCEPT !.pc = "create"]
    OBVIOUS
  <1>2. w \in JobType /\ Fits(w) /\ w.pc = "drop"
    BY <1>1, Typed DEF Drop, At
  <1>3. /\ v.pc = "create" /\ v.table = w.table /\ v.last = w.last /\ v.page = w.page
        /\ v.n = w.n /\ v.ok = w.ok /\ v.rows = w.rows /\ v \in JobType
    BY <1>1, <1>2 DEF JobType, Running
  <1>4. Fits(v) /\ v.last = 0 /\ v.n = 0
    BY <1>2, <1>3 DEF Fits, Running
  <1>5. job' = [job EXCEPT ![j] = v]
    BY <1>1 DEF Drop
  <1> QED BY <1>1, <1>3, <1>4, <1>5 DEF Stays

\* CREATE TABLE moves the job on to its first query.
LEMMA CreateEffect ==
    ASSUME TypeInv, NEW j \in Jobs, Create(j)
    PROVE  \E v : /\ job' = [job EXCEPT ![j] = v] /\ Stays(v, job[j])
                  /\ v.pc = "query" /\ v.last = job[j].last /\ v.n = job[j].n
  <1>1. PICK w, v : w = job[j] /\ v = [w EXCEPT !.pc = "query"]
    OBVIOUS
  <1>2. w \in JobType /\ Fits(w) /\ w.pc = "create"
    BY <1>1, Typed DEF Create, At
  <1>3. /\ v.pc = "query" /\ v.table = w.table /\ v.last = w.last /\ v.page = w.page
        /\ v.n = w.n /\ v.ok = w.ok /\ v.rows = w.rows /\ v \in JobType
    BY <1>1, <1>2 DEF JobType, Running
  <1>4. Fits(v)
    BY <1>2, <1>3 DEF Fits, Running
  <1>5. job' = [job EXCEPT ![j] = v]
    BY <1>1 DEF Create
  <1> QED BY <1>1, <1>3, <1>4, <1>5 DEF Stays

\* A query without rows ends the table; with any, they are to be inserted.
LEMMA QueryEffect ==
    ASSUME TypeInv, NEW j \in Jobs, Query(j)
    PROVE  \E v : /\ job' = [job EXCEPT ![j] = v]
                  /\ \/ /\ Page(job[j].table, job[j].last) = {}
                        /\ Turned(v, job[j], job[j].ok \cup {job[j].table}, job[j].rows + job[j].n)
                     \/ /\ Page(job[j].table, job[j].last) # {}
                        /\ Stays(v, job[j])
                        /\ v.pc = "insert" /\ v.last = job[j].last /\ v.n = job[j].n
  <1>1. PICK w, page : w = job[j] /\ page = Page(w.table, w.last)
    OBVIOUS
  <1>2. w \in JobType /\ Fits(w) /\ w.pc = "query" /\ w.table \in AllTables /\ w.last \in Nat
        /\ source[w.table] \in IdLists
    BY <1>1, Typed DEF Query, At
  <1>3. w.pc \in Running
    BY <1>2 DEF Running
  <1>4. CASE page = {}
    <2>1. PICK v : v = Counted(w)
      OBVIOUS
    <2>2. job' = [job EXCEPT ![j] = v]
      BY <1>1, <1>4, <2>1 DEF Query
    <2>3. Turned(v, w, w.ok \cup {w.table}, w.rows + w.n)
      BY <1>1, <1>3, <2>1, Results
    <2> QED BY <1>1, <1>4, <2>2, <2>3
  <1>5. CASE page # {}
    <2>1. PICK v : v = [w EXCEPT !.pc = "insert", !.page = page]
      OBVIOUS
    <2>2. job' = [job EXCEPT ![j] = v]
      BY <1>1, <1>5, <2>1 DEF Query
    <2>3. /\ v.pc = "insert" /\ v.table = w.table /\ v.last = w.last /\ v.page = page
          /\ v.n = w.n /\ v.ok = w.ok /\ v.rows = w.rows
      BY <1>2, <2>1 DEF JobType
    <2>4. page \subseteq DOMAIN source[w.table] /\ Cardinality(page) <= BatchSize
          /\ page \in SUBSET AllRows
      <3>1. PICK n \in 0..MaxRows, m \in 1..(MaxRows + 1), e \in 0..MaxRows :
               /\ DOMAIN source[w.table] = 1..n /\ page = m..e /\ e <= n
               /\ Cardinality(page) = e + 1 - m /\ e + 1 - m <= BatchSize
        <4>1. PICK t, last : t = w.table /\ last = w.last
          OBVIOUS
        <4>2. t \in AllTables /\ source[t] \in IdLists /\ last \in Nat /\ page = Page(t, last)
          BY <1>1, <1>2, <4>1
        <4> QED BY <4>1, <4>2, Pages DEF Paged
      <3>2. MaxRows \in Nat
        BY SyncAssumption DEF SyncAssumption
      <3> QED BY <3>1, <3>2 DEF AllRows
    <2>5. v \in JobType
      BY <1>2, <2>1, <2>4 DEF JobType, Running
    <2>6. Fits(v)
      BY <1>1, <1>2, <1>3, <1>5, <2>3, <2>4 DEF Fits, Running
    <2> QED BY <1>1, <1>5, <2>2, <2>3, <2>5, <2>6 DEF Stays
  <1> QED BY <1>4, <1>5

\* A short page ends the table; after a full one, the cursor is at its last row.
Inserts(v, n, w) ==
    /\ n = Cap(w.n + Cardinality(w.page), MaxRows)
    /\ \/ /\ Cardinality(w.page) < BatchSize
          /\ Turned(v, w, w.ok \cup {w.table}, w.rows + n)
       \/ /\ ~(Cardinality(w.page) < BatchSize)
          /\ Stays(v, w) /\ v.pc = "query" /\ v.n = n
          /\ \E e \in w.page : (\A i \in w.page : i <= e) /\ v.last = source[w.table][e]

\* A committed page moves the job as Inserts says.
LEMMA InsertEffect ==
    ASSUME TypeInv, NEW j \in Jobs, Insert(j)
    PROVE  \E v, n : job' = [job EXCEPT ![j] = v] /\ Inserts(v, n, job[j])
  <1>1. PICK w, t, last, page, n :
           /\ w = job[j] /\ t = w.table /\ last = w.last /\ page = w.page
           /\ n = Cap(w.n + Cardinality(page), MaxRows)
    OBVIOUS
  <1>2. /\ w \in JobType /\ Fits(w) /\ w.pc = "insert" /\ t \in AllTables /\ last \in Nat
        /\ source[t] \in IdLists /\ w.n \in 0..MaxRows /\ MaxRows \in Nat /\ BatchSize \in Nat
        /\ MaxId \in Nat
    BY <1>1, Typed DEF Insert, At
  <1>3. w.pc \in Running /\ page = Page(t, last) /\ page # {}
    BY <1>1, <1>2 DEF Running, Fits
  <1>4. PICK k \in 0..MaxRows, m \in 1..(MaxRows + 1), e \in 0..MaxRows :
           /\ source[t] \in [1..k -> 0..MaxId] /\ page = m..e /\ m <= e + 1 /\ e <= k
           /\ IsFiniteSet(page) /\ Cardinality(page) = e + 1 - m
    <2>1. PICK k \in 0..MaxRows, m \in 1..(MaxRows + 1), e \in 0..MaxRows : Paged(t, last, k, m, e)
      BY <1>2, Pages
    <2> QED BY <1>3, <2>1 DEF Paged
  <1>5. Cardinality(page) \in Nat /\ e \in page /\ (\A i \in page : i <= e) /\ e \in 1..k
    BY <1>2, <1>3, <1>4
  <1>6. n \in 0..MaxRows
    BY <1>1, <1>2, <1>5 DEF Cap
  <1>7. Max(page) = e
    <2>1. \A i \in page : e >= i
      <3>1. \A i \in m..e : e >= i
        OBVIOUS
      <3>2. page = m..e
        BY <1>4
      <3> QED BY <3>1, <3>2
    <2>2. \A x \in page : (\A i \in page : x >= i) => x = e
      <3>1. ASSUME NEW x \in page, x >= e PROVE x = e
        <4>1. x \in m..e
          BY <1>4
        <4> QED BY <1>2, <3>1, <4>1
      <3> QED BY <1>5, <3>1
    <2> QED BY <1>5, <2>1, <2>2 DEF Max
  <1>8. CASE Cardinality(page) < BatchSize
    <2>1. PICK v : v = Counted([w EXCEPT !.n = n])
      OBVIOUS
    <2>2. job' = [job EXCEPT ![j] = v]
      BY <1>1, <1>8, <2>1 DEF Insert
    <2>3. Turned(v, w, w.ok \cup {w.table}, w.rows + n)
      BY <1>1, <1>3, <1>6, <2>1, Results
    <2> QED BY <1>1, <1>8, <2>2, <2>3 DEF Inserts
  <1>9. CASE ~(Cardinality(page) < BatchSize)
    <2>1. PICK l : l = source[t][e]
      OBVIOUS
    <2>2. PICK v : v = [w EXCEPT !.pc = "query", !.page = {}, !.n = n, !.last = l]
      OBVIOUS
    <2>3. job' = [job EXCEPT ![j] = v]
      BY <1>1, <1>7, <1>9, <2>1, <2>2 DEF Insert
    <2>4. /\ v.pc = "query" /\ v.table = t /\ v.last = l /\ v.page = {}
          /\ v.n = n /\ v.ok = w.ok /\ v.rows = w.rows
      BY <1>1, <1>2, <2>2 DEF JobType
    <2>5. l \in 0..MaxId
      BY <1>4, <1>5, <2>1
    <2>6. v \in JobType
      <3>1. {} \in SUBSET AllRows /\ "query" \in Running
        BY DEF Running
      <3> QED BY <1>2, <1>6, <2>2, <2>5, <3>1 DEF JobType
    <2>7. Cardinality({}) <= BatchSize
      BY <1>2, FS_EmptySet
    <2>8. Fits(v)
      BY <1>1, <1>2, <1>3, <2>4, <2>7 DEF Fits
    <2> QED BY <1>1, <1>5, <1>9, <2>1, <2>3, <2>4, <2>6, <2>8 DEF Stays, Inserts
  <1> QED BY <1>8, <1>9

-----------------------------------------------------------------------------
\* Every step keeps the types.
LEMMA TypeStep == TypeInv /\ [Next]_vars => TypeInv'
  <1> SUFFICES ASSUME TypeInv, [Next]_vars PROVE TypeInv'
    OBVIOUS
  <1>1. /\ exists \in SUBSET AllTables /\ copies \in [AllTables -> [AllRows -> 0..MaxCopies]]
        /\ alone \in Jobs \cup {NoJob}
    BY DEF TypeInv
  <1>2. ASSUME NEW j \in Jobs, Begin(j) PROVE TypeInv'
    <2>1. PICK v : v = [NewJob EXCEPT !.pc = "drop"]
      OBVIOUS
    <2>2. v \in JobType /\ Fits(v) /\ job' = [job EXCEPT ![j] = v]
      BY <1>2, <2>1, TypeNew DEF Begin
    <2>3. alone' \in Jobs \cup {NoJob}
      BY <1>2 DEF Begin
    <2> QED BY <1>1, <1>2, <2>2, <2>3, TypeMoved DEF Begin
  <1>3. ASSUME NEW j \in Jobs, Drop(j) PROVE TypeInv'
    <2>1. PICK v : v \in JobType /\ Fits(v) /\ job' = [job EXCEPT ![j] = v]
      BY <1>3, DropEffect DEF Stays
    <2>2. job[j].table \in AllTables /\ Empty \in [AllRows -> 0..MaxCopies]
      BY Typed DEF Empty
    <2>3. copies' \in [AllTables -> [AllRows -> 0..MaxCopies]] /\ exists' \in SUBSET AllTables
      BY <1>1, <1>3, <2>2 DEF Drop
    <2> QED BY <1>1, <1>3, <2>1, <2>3, TypeMoved DEF Drop
  <1>4. ASSUME NEW j \in Jobs, Create(j) PROVE TypeInv'
    <2>1. PICK v : v \in JobType /\ Fits(v) /\ job' = [job EXCEPT ![j] = v]
      BY <1>4, CreateEffect DEF Stays
    <2>2. exists' \in SUBSET AllTables
      BY <1>1, <1>4, Typed DEF Create
    <2> QED BY <1>1, <1>4, <2>1, <2>2, TypeMoved DEF Create
  <1>5. ASSUME NEW j \in Jobs, Query(j) PROVE TypeInv'
    <2>1. PICK v : v \in JobType /\ Fits(v) /\ job' = [job EXCEPT ![j] = v]
      BY <1>5, QueryEffect DEF Stays, Turned
    <2> QED BY <1>1, <1>5, <2>1, TypeMoved DEF Query
  <1>6. ASSUME NEW j \in Jobs, Insert(j) PROVE TypeInv'
    <2>1. PICK v : v \in JobType /\ Fits(v) /\ job' = [job EXCEPT ![j] = v]
      BY <1>6, InsertEffect DEF Inserts, Stays, Turned
    <2>2. PICK t, page : t = job[j].table /\ page = job[j].page
      OBVIOUS
    <2>3. copies' = [copies EXCEPT ![t] = [i \in AllRows |->
                        IF i \in page THEN Cap(copies[t][i] + 1, MaxCopies) ELSE copies[t][i]]]
      BY <1>6, <2>2 DEF Insert
    <2>4. t \in AllTables /\ MaxCopies \in Nat
      BY <2>2, Typed
    <2>5. \A i \in AllRows : copies[t][i] \in 0..MaxCopies
      BY <1>1, <2>4
    <2>6. \A i \in AllRows : Cap(copies[t][i] + 1, MaxCopies) \in 0..MaxCopies
      BY <2>4, <2>5 DEF Cap
    <2>7. copies' \in [AllTables -> [AllRows -> 0..MaxCopies]]
      BY <1>1, <2>3, <2>4, <2>5, <2>6
    <2> QED BY <1>1, <1>6, <2>1, <2>7, TypeMoved DEF Insert
  <1>7. ASSUME NEW j \in Jobs, Fail(j) PROVE TypeInv'
    <2>1. PICK v : v = Failed(job[j])
      OBVIOUS
    <2>2. job[j].pc \in Running /\ job' = [job EXCEPT ![j] = v]
      BY <1>7, <2>1 DEF Fail, Active
    <2>3. v \in JobType /\ Fits(v)
      BY <2>1, <2>2, Results DEF Turned
    <2> QED BY <1>1, <1>7, <2>2, <2>3, TypeMoved DEF Fail
  <1>8. ASSUME NEW j \in Jobs, Crash(j) PROVE TypeInv'
    <2>1. PICK v : v = [NewJob EXCEPT !.pc = "dead"]
      OBVIOUS
    <2>2. v \in JobType /\ Fits(v) /\ job' = [job EXCEPT ![j] = v]
      BY <1>8, <2>1, TypeNew DEF Crash
    <2> QED BY <1>1, <1>8, <2>2, TypeMoved DEF Crash
  <1>9. CASE UNCHANGED vars
    <2>1. \A t, last : Page(t, last)' = Page(t, last)
      BY <1>9 DEF Page, vars
    <2>2. ASSUME NEW j \in Jobs PROVE Fits(job[j])'
      <3>1. PICK u : u = job[j]
        OBVIOUS
      <3>2. Fits(u) /\ u = job'[j]
        BY <1>9, <3>1 DEF vars, TypeInv
      <3>3. Fits(u)' <=> Fits(u)
        BY <1>9, <2>1 DEF Fits, vars
      <3>4. Fits(job[j])' <=> Fits(u)'
        BY <3>2, Zenon DEF Fits
      <3> QED BY <3>2, <3>3, <3>4
    <2> QED BY <1>9, <2>2 DEF vars, TypeInv
  <1>10. CASE Ended
    BY <1>9, <1>10 DEF Ended
  <1> QED BY <1>2, <1>3, <1>4, <1>5, <1>6, <1>7, <1>8, <1>9, <1>10 DEF Next, JobStep

\* No job has begun: the types hold.
LEMMA TypeInit == Init => TypeInv
  <1> SUFFICES ASSUME Init PROVE TypeInv
    OBVIOUS
  <1>1. /\ source \in [AllTables -> IdLists]
        /\ Tables \in Nat /\ 1 \in AllTables /\ MaxRows \in Nat /\ 0 <= Tables * MaxRows
        /\ BatchSize \in Nat /\ MaxId \in Nat /\ 0 \in 0..MaxCopies
    BY SyncAssumption DEF SyncAssumption, AllTables, Init
  <1>2. copies \in [AllTables -> [AllRows -> 0..MaxCopies]]
    BY <1>1 DEF Init, Empty
  <1>3. PICK v : v = [NewJob EXCEPT !.pc = "idle"]
    OBVIOUS
  <1>4. /\ v.pc = "idle" /\ v.table = 1 /\ v.last = 0 /\ v.page = {} /\ v.n = 0
        /\ v.ok = {} /\ v.rows = 0
    BY <1>3 DEF NewJob
  <1>5. v \in JobType
    BY <1>1, <1>3 DEF NewJob, JobType, Running
  <1>6. Cardinality({}) <= BatchSize
    BY <1>1, FS_EmptySet
  <1>7. Fits(v)
    BY <1>1, <1>4, <1>6 DEF Fits, Running
  <1>8. job = [j \in Jobs |-> v]
    BY <1>3 DEF Init
  <1> QED BY <1>1, <1>2, <1>5, <1>7, <1>8 DEF Init, TypeInv

\* The variables keep their types: a page never has more rows than the SELECT asks
\* for nor rows that are not of the job's table, and a Result never counts more rows
\* than the tables synced so far can have.
THEOREM TypeCorrect == Spec => []TypeOK
  <1>1. TypeInv => TypeOK
    BY TypeInvIsType
  <1> QED BY TypeInit, TypeStep, <1>1, PTL DEF Spec

-----------------------------------------------------------------------------
(* What a job that runs alone leaves in the file.                          *)

\* Row i of table t is there once, or was lost between two pages; c is how often
\* the file has each row.
Good(c, t, i) ==
    \/ c[i] = 1
    \/ c[i] = 0 /\ \E k \in 1..(i - 1) : c[k] = 1 /\ source[t][k] = source[t][i]

Beyond(t) == AllRows \ DOMAIN source[t]

Whole(c, t) ==
    /\ \A i \in DOMAIN source[t] : Good(c, t, i)
    /\ \A i \in Beyond(t) : c[i] = 0

There(c) == {i \in AllRows : c[i] # 0}

\* Up to the cursor the table is there, and nothing of what follows; n is the
\* number of rows that were inserted.
Clean(c, t, last, n) ==
    /\ \A i \in DOMAIN source[t] : i \notin After(t, last) => Good(c, t, i)
    /\ \A i \in After(t, last) : c[i] = 0
    /\ \A i \in Beyond(t) : c[i] = 0
    /\ n = Cardinality(There(c))

\* A full page of NULL ids, which leaves the cursor at NULL, is read forever.
Stuck(t, last) ==
    /\ last = 0
    /\ Cardinality(Page(t, last)) = BatchSize
    /\ \A i \in Page(t, last) : source[t][i] = 0

Counts == [AllRows -> 0..MaxCopies]

\* Before the first page.
LEMMA CleanEmpty ==
    ASSUME NEW t \in AllTables, source[t] \in IdLists
    PROVE  Clean(Empty, t, 0, 0)
  <1>1. PICK n \in 0..MaxRows : source[t] \in [1..n -> 0..MaxId]
    BY Sorted
  <1>2. DOMAIN source[t] \subseteq AllRows
    <2>1. MaxRows \in Nat
      BY SyncAssumption DEF SyncAssumption
    <2> QED BY <1>1, <2>1 DEF AllRows
  <1>3. \A i \in AllRows : Empty[i] = 0
    BY DEF Empty
  <1>4. There(Empty) = {}
    BY <1>3 DEF There
  <1>5. \A i \in DOMAIN source[t] : i \in After(t, 0)
    BY DEF After
  <1>6. \A i \in After(t, 0) : i \in AllRows
    BY <1>2 DEF After
  <1> QED BY <1>3, <1>4, <1>5, <1>6, FS_EmptySet DEF Clean, Beyond

\* When nothing is left to read, the table is there.
LEMMA CleanEnd ==
    ASSUME NEW t, NEW c, NEW last, NEW n, Clean(c, t, last, n), After(t, last) = {}
    PROVE  Whole(c, t)
  BY DEF Clean, Whole

\* A page that is inserted for the first time: every row of it is there once, the
\* others as before, and so many rows more.
LEMMA Inserted ==
    ASSUME NEW t \in AllTables, source[t] \in IdLists, NEW last \in Nat, NEW n \in 0..MaxRows,
           NEW c \in Counts, NEW d \in Counts, Clean(c, t, last, n),
           \A i \in AllRows : d[i] = IF i \in Page(t, last) THEN Cap(c[i] + 1, MaxCopies) ELSE c[i]
    PROVE  /\ \A i \in Page(t, last) : i \in AllRows /\ d[i] = 1
           /\ \A i \in AllRows : i \notin Page(t, last) => d[i] = c[i]
           /\ Cap(n + Cardinality(Page(t, last)), MaxRows) = Cardinality(There(d))
  <1>1. PICK k \in 0..MaxRows, m \in 1..(MaxRows + 1), e \in 0..MaxRows : Paged(t, last, k, m, e)
    BY Pages
  <1>2. MaxRows \in Nat /\ MaxCopies \in Nat /\ MaxCopies >= 1
    BY SyncAssumption DEF SyncAssumption
  <1> DEFINE page == Page(t, last)
  <1>3. /\ page \subseteq AllRows /\ page \subseteq After(t, last)
        /\ IsFiniteSet(page) /\ Cardinality(page) \in Nat
    <2>1. m..e \subseteq m..k /\ m..e \subseteq 1..MaxRows
      BY <1>1, <1>2 DEF Paged
    <2>2. page = m..e /\ After(t, last) = m..k /\ IsFiniteSet(page)
      BY <1>1 DEF Paged
    <2>3. Cardinality(page) \in Nat
      BY <2>2, FS_CardinalityType
    <2> HIDE DEF page
    <2> QED BY <2>1, <2>2, <2>3 DEF AllRows
  <1>4. \A i \in page : c[i] = 0
    BY <1>3 DEF Clean
  <1>5. \A i \in page : d[i] = 1
    <2>1. Cap(0 + 1, MaxCopies) = 1
      BY <1>2 DEF Cap
    <2> QED BY <1>3, <1>4, <2>1
  <1>6. There(d) = There(c) \cup page /\ There(c) \cap page = {}
    <2> HIDE DEF page
    <2>1. \A i \in AllRows : d[i] # 0 <=> c[i] # 0 \/ i \in page
      BY <1>5 DEF page
    <2> QED BY <1>3, <1>4, <2>1 DEF There
  <1>7. IsFiniteSet(AllRows) /\ Cardinality(AllRows) = MaxRows
    <2>1. /\ IsFiniteSet(1..MaxRows)
          /\ Cardinality(1..MaxRows) = IF 1 > MaxRows THEN 0 ELSE MaxRows - 1 + 1
      BY <1>2, FS_Interval
    <2> QED BY <1>2, <2>1 DEF AllRows
  <1>8. /\ IsFiniteSet(There(c)) /\ Cardinality(There(c)) \in Nat
        /\ IsFiniteSet(There(d)) /\ Cardinality(There(d)) <= MaxRows
    <2>1. There(c) \in SUBSET AllRows /\ There(d) \in SUBSET AllRows
      BY DEF There
    <2> QED BY <1>7, <2>1, FS_Subset, FS_CardinalityType
  <1>9. Cardinality(There(d)) = Cardinality(There(c)) + Cardinality(page)
    <2> HIDE DEF page
    <2>1. Cardinality(There(c) \cup page)
            = Cardinality(There(c)) + Cardinality(page) - Cardinality(There(c) \cap page)
      BY <1>3, <1>8, FS_Union
    <2>2. Cardinality(There(c) \cap page) = 0
      BY <1>6, FS_EmptySet
    <2> QED BY <1>3, <1>6, <1>8, <2>1, <2>2
  <1>10. n = Cardinality(There(c))
    BY DEF Clean
  <1> HIDE DEF page
  <1>11. Cap(n + Cardinality(page), MaxRows) = Cardinality(There(d))
    BY <1>2, <1>3, <1>8, <1>9, <1>10 DEF Cap
  <1> QED BY <1>3, <1>5, <1>11 DEF page

\* A row that was there, or that was lost, is so still.
LEMMA GoodStays ==
    ASSUME NEW t, NEW c, NEW d, NEW i, DOMAIN source[t] \subseteq AllRows, i \in DOMAIN source[t],
           \A k \in AllRows : k <= i /\ source[t][k] = source[t][i] => d[k] = c[k],
           i \in Nat, Good(c, t, i)
    PROVE  Good(d, t, i)
  <1>1. MaxRows \in Nat /\ i \in 1..MaxRows
    BY SyncAssumption DEF SyncAssumption, AllRows
  <1>2. d[i] = c[i]
    BY <1>1 DEF AllRows
  <1>3. CASE c[i] = 1
    BY <1>2, <1>3 DEF Good
  <1>4. ASSUME c[i] = 0, NEW k \in 1..(i - 1), c[k] = 1, source[t][k] = source[t][i]
        PROVE  Good(d, t, i)
    <2>1. k \in AllRows /\ k <= i
      BY <1>1, <1>4 DEF AllRows
    <2>2. d[k] = 1
      BY <1>4, <2>1
    <2> QED BY <1>2, <1>4, <2>2 DEF Good
  <1> QED BY <1>3, <1>4 DEF Good

\* After a short page the table is there; after a full one it is up to the new
\* cursor, unless the page had nothing but NULL ids.
LEMMA InsertedPage ==
    ASSUME NEW t \in AllTables, source[t] \in IdLists, NEW last \in Nat, NEW n \in 0..MaxRows,
           NEW c \in Counts, NEW d \in Counts, Clean(c, t, last, n),
           \A i \in AllRows : d[i] = IF i \in Page(t, last) THEN Cap(c[i] + 1, MaxCopies) ELSE c[i]
    PROVE  /\ Cardinality(Page(t, last)) < BatchSize => Whole(d, t)
           /\ \A e \in Page(t, last) :
                 ~(Cardinality(Page(t, last)) < BatchSize) /\ (\A i \in Page(t, last) : i <= e) =>
                     \/ Clean(d, t, source[t][e],
                              Cap(n + Cardinality(Page(t, last)), MaxRows))
                     \/ Stuck(t, source[t][e])
  <1>1. PICK k \in 0..MaxRows, m \in 1..(MaxRows + 1), f \in 0..MaxRows : Paged(t, last, k, m, f)
    BY Pages
  <1>2. MaxRows \in Nat /\ MaxId \in Nat /\ BatchSize \in Nat
    BY SyncAssumption DEF SyncAssumption
  <1> DEFINE page == Page(t, last)
  <1>3. /\ \A i \in page : i \in AllRows /\ d[i] = 1
        /\ \A i \in AllRows : i \notin page => d[i] = c[i]
        /\ Cap(n + Cardinality(page), MaxRows) = Cardinality(There(d))
    BY Inserted
  <1>4. /\ DOMAIN source[t] = 1..k /\ \A i \in 1..k : source[t][i] \in Nat
        /\ \A i, j \in 1..k : i < j => source[t][i] <= source[t][j]
        /\ After(t, last) = m..k /\ page = m..f /\ m <= f + 1 /\ f <= k
        /\ Cardinality(page) = f + 1 - m /\ (f + 1 - m < BatchSize => f = k)
        /\ f + 1 - m <= BatchSize
    BY <1>1, <1>2 DEF Paged
  <1>5. DOMAIN source[t] \subseteq AllRows
    BY <1>2, <1>4 DEF AllRows
  <1>6. \A i \in AllRows : i \notin 1..k => d[i] = 0
    <2>1. ASSUME NEW i \in AllRows, i \notin 1..k PROVE d[i] = 0
      <3>1. i \in Beyond(t)
        BY <1>4, <2>1 DEF Beyond
      <3>2. i \notin page
        <4>1. m..f \subseteq 1..k
          BY <1>2, <1>4
        <4> QED BY <1>4, <2>1, <4>1
      <3> QED BY <1>3, <3>1, <3>2 DEF Clean
    <2> QED BY <2>1
  <1>7. \A i \in 1..k : i \in After(t, last) <=> last = 0 \/ source[t][i] > last
    BY <1>4 DEF After
  <1>8. ASSUME NEW i \in 1..k, i \notin After(t, last) PROVE Good(d, t, i)
    <2>1. Good(c, t, i) /\ last # 0 /\ ~(source[t][i] > last)
      BY <1>4, <1>7, <1>8 DEF Clean
    <2>2. ASSUME NEW x \in AllRows, x <= i, source[t][x] = source[t][i] PROVE d[x] = c[x]
      <3>1. x \in 1..k
        BY <1>2, <1>8, <2>2 DEF AllRows
      <3>2. x \notin m..k
        BY <1>4, <1>7, <2>1, <2>2, <3>1
      <3>3. x \notin page
        BY <1>2, <1>4, <3>2
      <3> QED BY <1>3, <3>3
    <2>3. i \in Nat /\ i \in DOMAIN source[t]
      BY <1>4, <1>8
    <2> QED BY <1>5, <2>1, <2>2, <2>3, GoodStays
  <1>9. \A i \in page : Good(d, t, i)
    BY <1>3 DEF Good
  <1>10. ASSUME Cardinality(page) < BatchSize PROVE Whole(d, t)
    <2>1. page = After(t, last)
      BY <1>4, <1>10
    <2>2. \A i \in DOMAIN source[t] : Good(d, t, i)
      BY <1>4, <1>8, <1>9, <2>1
    <2> QED BY <1>4, <1>6, <2>2 DEF Whole, Beyond
  <1>11. ASSUME NEW e \in page, ~(Cardinality(page) < BatchSize), \A i \in page : i <= e,
                source[t][e] # 0
         PROVE  Clean(d, t, source[t][e], Cap(n + Cardinality(page), MaxRows))
    <2>1. e = f /\ e \in 1..k
      <3>1. e \in m..f
        BY <1>4, <1>11
      <3>2. f \in page /\ e \in 1..k /\ e <= f
        BY <1>2, <1>4, <3>1
      <3>3. f <= e
        BY <1>11, <3>2
      <3> QED BY <1>2, <3>2, <3>3
    <2>2. PICK l : l = source[t][e]
      OBVIOUS
    <2>3. l \in Nat /\ l # 0
      BY <1>4, <1>11, <2>1, <2>2
    <2>4. \A i \in 1..k : i \in After(t, l) <=> source[t][i] > l
      BY <1>4, <2>3 DEF After
    <2>5. ASSUME NEW i \in DOMAIN source[t], i \notin After(t, l) PROVE Good(d, t, i)
      <3>1. i \in 1..k /\ source[t][i] <= l
        BY <1>4, <2>3, <2>4, <2>5
      <3>2. CASE i \notin After(t, last)
        BY <1>8, <3>1, <3>2
      <3>3. CASE i \in page
        BY <1>9, <3>3
      <3>4. CASE i \in After(t, last) /\ i \notin page
        <4>1. i \in Nat /\ e < i /\ e \in 1..(i - 1)
          BY <1>2, <1>4, <2>1, <3>1, <3>4
        <4>2. source[t][e] = source[t][i]
          BY <1>4, <2>1, <2>2, <3>1, <4>1
        <4>3. c[i] = 0 /\ d[i] = c[i] /\ d[e] = 1
          BY <1>3, <1>5, <1>11, <2>5, <3>4 DEF Clean
        <4> QED BY <4>1, <4>2, <4>3 DEF Good
      <3> QED BY <3>2, <3>3, <3>4
    <2>6. ASSUME NEW i \in After(t, l) PROVE d[i] = 0
      <3>1. i \in 1..k /\ source[t][i] > l
        <4>1. i \in DOMAIN source[t]
          BY <2>6 DEF After
        <4> QED BY <1>4, <2>4, <2>6, <4>1
      <3>2. i \notin page
        <4>1. ASSUME i <= e PROVE FALSE
          <5>1. source[t][i] <= source[t][e]
            BY <1>4, <2>1, <3>1, <4>1
          <5> QED BY <1>4, <2>2, <2>3, <3>1, <5>1
        <4> QED BY <1>11, <4>1
      <3>3. i \in After(t, last)
        <4>1. source[t][i] > source[t][e] /\ e \in After(t, last)
          BY <1>2, <1>4, <2>1, <2>2, <3>1
        <4>2. last = 0 \/ source[t][e] > last
          BY <1>7, <2>1, <4>1
        <4>3. last = 0 \/ source[t][i] > last
          BY <1>4, <2>1, <3>1, <4>1, <4>2
        <4> QED BY <1>7, <3>1, <4>3
      <3>4. i \in AllRows
        BY <1>4, <1>5, <3>1
      <3> QED BY <1>3, <3>2, <3>3, <3>4 DEF Clean
    <2>7. \A i \in Beyond(t) : d[i] = 0
      BY <1>4, <1>6 DEF Beyond
    <2> HIDE DEF page
    <2> QED BY <1>3, <2>2, <2>5, <2>6, <2>7 DEF Clean
  <1>12. ASSUME NEW e \in page, ~(Cardinality(page) < BatchSize), \A i \in page : i <= e,
                source[t][e] = 0
         PROVE  Stuck(t, source[t][e])
    <2>1. e = f /\ e \in 1..k /\ e \in After(t, last)
      BY <1>2, <1>4, <1>12
    <2>2. last = 0
      <3>1. last = 0 \/ source[t][e] > last
        BY <1>7, <2>1
      <3> QED BY <1>12, <3>1
    <2>3. Cardinality(page) = BatchSize
      BY <1>2, <1>4, <1>12
    <2>4. ASSUME NEW i \in page PROVE source[t][i] = 0
      <3>1. i \in 1..k /\ i <= e
        BY <1>2, <1>4, <2>4, <2>1
      <3>2. source[t][i] <= 0
        <4>1. i = e \/ i < e
          BY <2>1, <3>1
        <4> QED BY <1>4, <1>12, <2>1, <3>1, <4>1
      <3> QED BY <1>4, <3>1, <3>2
    <2> QED BY <1>12, <2>2, <2>3, <2>4 DEF Stuck
  <1> QED BY <1>10, <1>11, <1>12

-----------------------------------------------------------------------------
(* What a job counts.                                                      *)

HeldIn(cs, tables) == {x \in tables \X AllRows \X (1..MaxCopies) : x[3] <= cs[x[1]][x[2]]}

\* The copies in some tables are finitely many.
LEMMA HeldFinite ==
    ASSUME NEW cs, NEW T \in SUBSET AllTables
    PROVE  IsFiniteSet(HeldIn(cs, T))
  <1>1. Tables \in Nat /\ MaxRows \in Nat /\ MaxCopies \in Nat
    BY SyncAssumption DEF SyncAssumption
  <1>2. IsFiniteSet(1..Tables) /\ IsFiniteSet(1..MaxRows) /\ IsFiniteSet(1..MaxCopies)
    BY <1>1, FS_Interval
  <1>3. IsFiniteSet(T)
    BY <1>2, FS_Subset DEF AllTables
  <1> DEFINE S == T \X AllRows \X (1..MaxCopies)
             P == AllRows \X (1..MaxCopies)
             f == [x \in S |-> <<x[1], <<x[2], x[3]>>>>]
  <1>4. IsFiniteSet(P)
    BY <1>2, FS_Product DEF AllRows
  <1>5. IsFiniteSet(T \X P)
    <2> HIDE DEF P
    <2> QED BY <1>3, <1>4, FS_Product
  <1>6. f \in Injection(S, T \X P)
    <2>1. f \in [S -> T \X P]
      OBVIOUS
    <2>2. \A x, y \in S : f[x] = f[y] => x = y
      OBVIOUS
    <2> QED BY <2>1, <2>2 DEF Injection, IsInjective
  <1>7. IsFiniteSet(S)
    <2> HIDE DEF S, P, f
    <2> QED BY <1>5, <1>6, FS_Injection
  <1>8. HeldIn(cs, T) \in SUBSET S
    BY DEF HeldIn
  <1> HIDE DEF S
  <1> QED BY <1>7, <1>8, FS_Subset

\* The rows of a table that holds none twice, as it was before it was counted.
LEMMA HeldOne ==
    ASSUME NEW cs, NEW t \in AllTables, \A i \in AllRows : cs[t][i] \in {0, 1}
    PROVE  Cardinality(HeldIn(cs, {t})) = Cardinality(There(cs[t]))
  <1>1. MaxCopies \in Nat /\ MaxCopies >= 1 /\ MaxRows \in Nat
    BY SyncAssumption DEF SyncAssumption
  <1> DEFINE S == There(cs[t])
             H == HeldIn(cs, {t})
             f == [i \in S |-> <<t, i, 1>>]
  <1>2. IsFiniteSet(S)
    <2>1. IsFiniteSet(1..MaxRows) /\ S \in SUBSET (1..MaxRows)
      BY <1>1, FS_Interval DEF There, AllRows
    <2> HIDE DEF S
    <2> QED BY <2>1, FS_Subset
  <1>3. ASSUME NEW i \in S PROVE <<t, i, 1>> \in H
    <2>1. i \in AllRows /\ cs[t][i] = 1 /\ 1 \in 1..MaxCopies
      BY <1>1 DEF There
    <2>2. PICK x : x = <<t, i, 1>>
      OBVIOUS
    <2>3. x[1] = t /\ x[2] = i /\ x[3] = 1 /\ x \in {t} \X AllRows \X (1..MaxCopies)
      BY <2>1, <2>2
    <2>4. x[3] <= cs[x[1]][x[2]]
      BY <2>1, <2>3
    <2> QED BY <2>2, <2>3, <2>4 DEF HeldIn
  <1>4. ASSUME NEW x \in H PROVE \E i \in S : f[i] = x
    <2>1. x \in {t} \X AllRows \X (1..MaxCopies) /\ x[3] <= cs[x[1]][x[2]]
      BY DEF HeldIn
    <2>2. PICK i \in AllRows, n \in 1..MaxCopies : x = <<t, i, n>>
      BY <2>1
    <2>3. n <= cs[t][i]
      BY <2>1, <2>2
    <2>4. cs[t][i] = 1 /\ n = 1
      BY <1>1, <2>3
    <2>5. i \in S
      BY <2>4 DEF There
    <2> QED BY <2>2, <2>4, <2>5
  <1>5. f \in Bijection(S, H)
    <2>1. f \in [S -> H]
      BY <1>3
    <2>2. \A i, k \in S : f[i] = f[k] => i = k
      OBVIOUS
    <2> HIDE DEF S, H, f
    <2> QED BY <1>4, <2>1, <2>2 DEF Bijection, Injection, Surjection, IsInjective
  <1>6. ExistsBijection(S, H)
    BY <1>5 DEF ExistsBijection
  <1> HIDE DEF S, H, f
  <1>7. Cardinality(H) = Cardinality(S)
    BY <1>2, <1>6, FS_Bijection
  <1> QED BY <1>7 DEF S, H

\* A further table, with every row once at most, adds its rows to the count.
LEMMA HeldAdd ==
    ASSUME NEW cs, NEW T \in SUBSET AllTables, NEW t \in AllTables, t \notin T,
           \A i \in AllRows : cs[t][i] \in {0, 1}
    PROVE  Cardinality(HeldIn(cs, T \cup {t})) =
               Cardinality(HeldIn(cs, T)) + Cardinality(There(cs[t]))
  <1>1. HeldIn(cs, T \cup {t}) = HeldIn(cs, T) \cup HeldIn(cs, {t})
    BY DEF HeldIn
  <1>2. HeldIn(cs, T) \cap HeldIn(cs, {t}) = {}
    <2>1. ASSUME NEW x \in HeldIn(cs, T), x \in HeldIn(cs, {t}) PROVE FALSE
      <3>1. x \in T \X AllRows \X (1..MaxCopies) /\ x \in {t} \X AllRows \X (1..MaxCopies)
        BY <2>1 DEF HeldIn
      <3>2. x[1] \in T /\ x[1] = t
        BY <3>1
      <3> QED BY <3>2
    <2> QED BY <2>1
  <1>3. IsFiniteSet(HeldIn(cs, T)) /\ IsFiniteSet(HeldIn(cs, {t}))
    BY HeldFinite
  <1>4. PICK A, B : A = HeldIn(cs, T) /\ B = HeldIn(cs, {t})
    OBVIOUS
  <1>5. Cardinality(A \cup B) = Cardinality(A) + Cardinality(B) - Cardinality(A \cap B)
    BY <1>3, <1>4, FS_Union
  <1>6. Cardinality(A \cap B) = 0 /\ Cardinality(A) \in Nat /\ Cardinality(B) \in Nat
    BY <1>2, <1>3, <1>4, FS_EmptySet, FS_CardinalityType
  <1>7. Cardinality(A \cup B) = Cardinality(A) + Cardinality(B)
    BY <1>5, <1>6
  <1> QED BY <1>1, <1>4, <1>7, HeldOne

-----------------------------------------------------------------------------
(* The invariant behind SyncedTables and RowsReported.                     *)

\* With the rows cs in the file, what a job with record v that runs alone has
\* done: the tables it counts are there and counted, and so is what it has read
\* of its table, unless it is stuck.
Leaves(v, cs) ==
    /\ \A t \in v.ok : Whole(cs[t], t)
    /\ v.rows = Cardinality(HeldIn(cs, v.ok))
    /\ v.pc \in {"create", "query", "insert"} =>
          Clean(cs[v.table], v.table, v.last, v.n) \/ Stuck(v.table, v.last)

Lone == alone # NoJob => Active \subseteq {alone} /\ Leaves(job[alone], copies)

\* Sources stay, and so does what is said about them.
LEMMA SameSource ==
    ASSUME UNCHANGED source
    PROVE  \A v, cs : Leaves(v, cs)' <=> Leaves(v, cs)
  <1>1. \A t, last : Page(t, last)' = Page(t, last) /\ After(t, last)' = After(t, last)
    BY DEF Page, After
  <1>2. \A t, last : Stuck(t, last)' <=> Stuck(t, last)
    BY <1>1 DEF Stuck
  <1>3. \A c, t, i : Good(c, t, i)' <=> Good(c, t, i)
    BY DEF Good
  <1>4. \A c, t : Whole(c, t)' <=> Whole(c, t)
    BY <1>3 DEF Whole, Beyond
  <1>5. \A c, t, last, n : Clean(c, t, last, n)' <=> Clean(c, t, last, n)
    BY <1>1, <1>3 DEF Clean, Beyond
  <1> QED BY <1>2, <1>4, <1>5 DEF Leaves

\* A step of a job, when one runs alone, is of that job.
LEMMA LoneMoved ==
    ASSUME TypeInv, Lone, NEW j \in Active, NEW v \in JobType, NEW cs,
           job' = [job EXCEPT ![j] = v], copies' = cs, UNCHANGED <<source, alone>>,
           alone # NoJob => alone = j /\ Leaves(v, cs)
    PROVE  Lone'
  <1> SUFFICES ASSUME alone # NoJob
               PROVE  Active' \subseteq {j} /\ Leaves(job[alone], copies)'
    BY DEF Lone
  <1>1. j \in Jobs /\ alone = j /\ Active \subseteq {j} /\ Leaves(v, cs)
    BY DEF Lone, Active
  <1>2. job'[j] = v /\ \A k \in Jobs : k # j => job'[k] = job[k]
    BY <1>1 DEF TypeInv
  <1>3. Active' \subseteq {j}
    BY <1>1, <1>2 DEF Active
  <1>4. Leaves(v, cs)'
    BY <1>1, SameSource
  <1>5. Leaves(job[alone], copies)'
    BY <1>1, <1>2, <1>4, Zenon DEF Leaves
  <1> QED BY <1>3, <1>5

\* When only the table of the job changes, what it counts does not.
LEMMA Counting ==
    ASSUME TypeInv, NEW j \in Jobs, job[j].pc \in Running, Leaves(job[j], copies),
           NEW cs \in [AllTables -> Counts],
           \A t \in AllTables : t # job[j].table => cs[t] = copies[t]
    PROVE  /\ job[j].table \notin job[j].ok /\ job[j].ok \in SUBSET AllTables
           /\ \A t \in job[j].ok : Whole(cs[t], t)
           /\ job[j].rows = Cardinality(HeldIn(cs, job[j].ok))
  <1>1. PICK w : w = job[j]
    OBVIOUS
  <1>2. w \in JobType /\ w.ok \subseteq 1..(w.table - 1) /\ w.table \in 1..Tables /\ Tables \in Nat
    BY <1>1, Typed DEF Fits
  <1>3. w.table \notin w.ok /\ w.ok \in SUBSET AllTables
    BY <1>2 DEF AllTables
  <1>4. \A t \in w.ok : t \in AllTables /\ cs[t] = copies[t]
    BY <1>1, <1>3
  <1>5. HeldIn(cs, w.ok) = HeldIn(copies, w.ok)
    <2>1. ASSUME NEW x \in w.ok \X AllRows \X (1..MaxCopies)
          PROVE  cs[x[1]][x[2]] = copies[x[1]][x[2]]
      BY <1>4
    <2> QED BY <2>1 DEF HeldIn
  <1>6. \A t \in w.ok : Whole(cs[t], t)
    BY <1>1, <1>4 DEF Leaves
  <1>7. w.rows = Cardinality(HeldIn(cs, w.ok))
    BY <1>1, <1>5 DEF Leaves
  <1> QED BY <1>1, <1>3, <1>6, <1>7

\* A table that failed is not counted, and one that is there is, with its rows.
LEMMA CountFailed ==
    ASSUME TypeInv, NEW j \in Jobs, job[j].pc \in Running, Leaves(job[j], copies),
           NEW v, Turned(v, job[j], job[j].ok, job[j].rows)
    PROVE  Leaves(v, copies)
  <1>1. v.ok = job[j].ok /\ v.rows = job[j].rows /\ v.pc \notin {"create", "query", "insert"}
    BY DEF Turned
  <1> QED BY <1>1 DEF Leaves

\* A table that is synced is counted, with the rows that are there.
LEMMA CountSynced ==
    ASSUME TypeInv, NEW j \in Jobs, job[j].pc \in Running, Leaves(job[j], copies),
           NEW cs \in [AllTables -> Counts],
           \A t \in AllTables : t # job[j].table => cs[t] = copies[t],
           Whole(cs[job[j].table], job[j].table),
           NEW n, n = Cardinality(There(cs[job[j].table])),
           NEW v, Turned(v, job[j], job[j].ok \cup {job[j].table}, job[j].rows + n)
    PROVE  Leaves(v, cs)
  <1>1. PICK w, t : w = job[j] /\ t = w.table
    OBVIOUS
  <1>2. /\ t \notin w.ok /\ w.ok \in SUBSET AllTables
        /\ \A s \in w.ok : Whole(cs[s], s)
        /\ w.rows = Cardinality(HeldIn(cs, w.ok))
    BY <1>1, Counting
  <1>3. t \in AllTables /\ Whole(cs[t], t) /\ n = Cardinality(There(cs[t]))
    BY <1>1, Typed
  <1>4. \A i \in AllRows : cs[t][i] \in {0, 1}
    BY <1>3 DEF Whole, Beyond, Good
  <1>5. Cardinality(HeldIn(cs, w.ok \cup {t})) = w.rows + n
    BY <1>2, <1>3, <1>4, HeldAdd
  <1>6. v.ok = w.ok \cup {t} /\ v.rows = w.rows + n /\ v.pc \notin {"create", "query", "insert"}
    BY <1>1 DEF Turned
  <1>7. \A s \in v.ok : Whole(cs[s], s)
    BY <1>2, <1>3, <1>6
  <1> QED BY <1>5, <1>6, <1>7 DEF Leaves

\* A job that begins when no other is active has counted nothing.
LEMMA LoneBegin ==
    ASSUME TypeInv, Lone, NEW j \in Jobs, Begin(j)
    PROVE  Lone'
  <1> SUFFICES ASSUME alone' # NoJob
               PROVE  Active' \subseteq {alone'} /\ Leaves(job[alone], copies)'
    BY DEF Lone
  <1>1. alone' = j /\ Active = {}
    BY DEF Begin
  <1>2. PICK v : v = NewJob
    OBVIOUS
  <1>3. job'[j] = v /\ \A k \in Jobs : k # j => job'[k] = job[k]
    BY <1>2 DEF Begin, TypeInv
  <1>4. Active' \subseteq {j}
    BY <1>1, <1>3 DEF Active
  <1>5. v.ok = {} /\ v.rows = 0 /\ v.pc = "drop"
    BY <1>2 DEF NewJob
  <1>6. Leaves(v, copies)
    <2>1. HeldIn(copies, {}) = {}
      BY DEF HeldIn
    <2> QED BY <1>5, <2>1, FS_EmptySet DEF Leaves
  <1>7. PICK cs : cs = copies
    OBVIOUS
  <1>8. Leaves(v, cs)'
    BY <1>6, <1>7, SameSource DEF Begin
  <1>9. copies' = cs
    BY <1>7 DEF Begin
  <1>10. Leaves(job[alone], copies)'
    BY <1>1, <1>3, <1>8, <1>9, Zenon DEF Leaves
  <1> QED BY <1>1, <1>4, <1>10

\* DROP TABLE leaves the table of the lone job clean before its first row.
LEMMA LoneDrop ==
    ASSUME TypeInv, Lone, NEW j \in Jobs, Drop(j)
    PROVE  Lone'
  <1>1. PICK w, t, cs : w = job[j] /\ t = w.table /\ cs = [copies EXCEPT ![t] = Empty]
    OBVIOUS
  <1>2. PICK v : /\ job' = [job EXCEPT ![j] = v] /\ Stays(v, w)
                 /\ v.pc = "create" /\ v.last = 0 /\ v.n = 0
    BY <1>1, DropEffect
  <1>3. job[j].pc \in Running /\ j \in Active
    BY DEF Drop, At, Running, Active
  <1>4. t \in AllTables /\ source[t] \in IdLists /\ MaxCopies \in Nat
    BY <1>1, Typed
  <1>5. cs \in [AllTables -> Counts] /\ cs[t] = Empty
        /\ \A s \in AllTables : s # t => cs[s] = copies[s]
    <2>1. Empty \in Counts
      BY <1>4 DEF Empty, Counts
    <2>2. copies \in [AllTables -> Counts]
      BY DEF TypeInv, Counts
    <2> QED BY <1>1, <1>4, <2>1, <2>2
  <1>6. ASSUME alone # NoJob PROVE alone = j /\ Leaves(v, cs)
    <2>1. alone = j /\ Leaves(w, copies)
      BY <1>1, <1>3, <1>6 DEF Lone
    <2>2. (\A s \in w.ok : Whole(cs[s], s)) /\ w.rows = Cardinality(HeldIn(cs, w.ok))
      BY <1>1, <1>3, <1>5, <2>1, Counting
    <2>3. Clean(cs[t], t, 0, 0)
      BY <1>4, <1>5, CleanEmpty
    <2> QED BY <1>1, <1>2, <2>1, <2>2, <2>3 DEF Leaves, Stays
  <1>7. copies' = cs /\ UNCHANGED <<source, alone>>
    BY <1>1 DEF Drop
  <1> QED BY <1>2, <1>3, <1>6, <1>7, LoneMoved DEF Stays

\* CREATE TABLE does not touch rows.
LEMMA LoneCreate ==
    ASSUME TypeInv, Lone, NEW j \in Jobs, Create(j)
    PROVE  Lone'
  <1>1. PICK w, cs : w = job[j] /\ cs = copies
    OBVIOUS
  <1>2. PICK v : /\ job' = [job EXCEPT ![j] = v] /\ Stays(v, w)
                 /\ v.pc = "query" /\ v.last = w.last /\ v.n = w.n
    BY <1>1, CreateEffect
  <1>3. w.pc = "create" /\ j \in Active
    BY <1>1 DEF Create, At, Running, Active
  <1>4. ASSUME alone # NoJob PROVE alone = j /\ Leaves(v, cs)
    <2>1. alone = j /\ Leaves(w, cs)
      BY <1>1, <1>3, <1>4 DEF Lone
    <2> QED BY <1>2, <1>3, <2>1 DEF Leaves, Stays
  <1>5. copies' = cs /\ UNCHANGED <<source, alone>>
    BY <1>1 DEF Create
  <1> QED BY <1>2, <1>3, <1>4, <1>5, LoneMoved DEF Stays

\* An empty page ends a table with every row counted; another changes no row.
LEMMA LoneQuery ==
    ASSUME TypeInv, Lone, NEW j \in Jobs, Query(j)
    PROVE  Lone'
  <1>1. PICK w, t, last, cs : w = job[j] /\ t = w.table /\ last = w.last /\ cs = copies
    OBVIOUS
  <1>2. PICK v : /\ job' = [job EXCEPT ![j] = v]
                 /\ \/ Page(t, last) = {} /\ Turned(v, w, w.ok \cup {t}, w.rows + w.n)
                    \/ Stays(v, w) /\ v.pc = "insert" /\ v.last = last /\ v.n = w.n
    BY <1>1, QueryEffect
  <1>3. w.pc = "query" /\ w.pc \in Running /\ j \in Active
    BY <1>1 DEF Query, At, Running, Active
  <1>4. /\ t \in AllTables /\ source[t] \in IdLists /\ last \in Nat
        /\ BatchSize \in Nat /\ BatchSize >= 1
        /\ w.n \in 0..MaxRows
    BY <1>1, Typed
  <1>5. ASSUME alone # NoJob PROVE alone = j /\ Leaves(v, cs)
    <2>1. alone = j /\ Leaves(w, copies)
      BY <1>1, <1>3, <1>5 DEF Lone
    <2>2. Clean(cs[t], t, last, w.n) \/ Stuck(t, last)
      BY <1>1, <1>3, <2>1 DEF Leaves
    <2>3. CASE Stays(v, w) /\ v.pc = "insert" /\ v.last = last /\ v.n = w.n
      BY <1>1, <2>1, <2>2, <2>3 DEF Leaves, Stays
    <2>4. CASE Page(t, last) = {} /\ Turned(v, w, w.ok \cup {t}, w.rows + w.n)
      <3>1. ~Stuck(t, last)
        BY <1>4, <2>4, FS_EmptySet DEF Stuck
      <3>2. After(t, last) = {}
        <4>1. PICK n \in 0..MaxRows, m \in 1..(MaxRows + 1), e \in 0..MaxRows :
                 Paged(t, last, n, m, e)
          BY <1>4, Pages
        <4>2. After(t, last) = m..n /\ e + 1 - m = 0 /\ (e + 1 - m < BatchSize => e = n)
          BY <2>4, <4>1, FS_EmptySet DEF Paged
        <4>3. MaxRows \in Nat
          BY SyncAssumption DEF SyncAssumption
        <4> QED BY <1>4, <4>2, <4>3
      <3>3. Whole(cs[t], t) /\ w.n = Cardinality(There(cs[t]))
        BY <2>2, <3>1, <3>2, CleanEnd DEF Clean
      <3>4. cs \in [AllTables -> Counts]
        BY <1>1 DEF TypeInv, Counts
      <3>5. Leaves(v, cs)
        BY <1>1, <1>3, <2>1, <2>4, <3>3, <3>4, CountSynced
      <3> QED BY <2>1, <3>5
    <2> QED BY <1>2, <2>3, <2>4
  <1>6. copies' = cs /\ UNCHANGED <<source, alone>>
    BY <1>1 DEF Query
  <1>7. v \in JobType
    BY <1>2 DEF Stays, Turned
  <1> QED BY <1>2, <1>3, <1>5, <1>6, <1>7, LoneMoved

\* A page that is inserted keeps the table clean up to the new cursor, or the
\* cursor has not moved from NULL and the job is stuck.
LEMMA LoneInsert ==
    ASSUME TypeInv, Lone, NEW j \in Jobs, Insert(j)
    PROVE  Lone'
  <1>1. PICK w, t, last, page, cs :
           /\ w = job[j] /\ t = w.table /\ last = w.last /\ page = w.page
           /\ cs = copies'
    OBVIOUS
  <1>2. PICK v, n :
           /\ n = Cap(w.n + Cardinality(page), MaxRows)
           /\ job' = [job EXCEPT ![j] = v]
           /\ \/ /\ Cardinality(page) < BatchSize
                 /\ Turned(v, w, w.ok \cup {t}, w.rows + n)
              \/ /\ ~(Cardinality(page) < BatchSize)
                 /\ Stays(v, w) /\ v.pc = "query" /\ v.n = n
                 /\ \E e \in page : (\A i \in page : i <= e) /\ v.last = source[t][e]
    <2>1. PICK v, n : job' = [job EXCEPT ![j] = v] /\ Inserts(v, n, w)
      BY <1>1, InsertEffect
    <2> QED BY <1>1, <2>1 DEF Inserts
  <1>3. w.pc = "insert" /\ w.pc \in Running /\ j \in Active
    BY <1>1 DEF Insert, At, Running, Active
  <1>4. /\ w \in JobType /\ Fits(w) /\ t \in AllTables /\ source[t] \in IdLists /\ last \in Nat
        /\ BatchSize \in Nat /\ BatchSize >= 1 /\ w.n \in 0..MaxRows
        /\ MaxCopies \in Nat
    BY <1>1, Typed
  <1>5. page = Page(t, last)
    BY <1>1, <1>3, <1>4 DEF Fits
  <1>6. /\ cs \in [AllTables -> Counts]
        /\ \A s \in AllTables : s # t => cs[s] = copies[s]
        /\ \A i \in AllRows : cs[t][i] = IF i \in page THEN Cap(copies[t][i] + 1, MaxCopies)
                                         ELSE copies[t][i]
    <2>1. cs = [copies EXCEPT ![t] = [i \in AllRows |->
                   IF i \in page THEN Cap(copies[t][i] + 1, MaxCopies) ELSE copies[t][i]]]
      BY <1>1 DEF Insert
    <2>2. copies \in [AllTables -> Counts]
      BY DEF TypeInv, Counts
    <2>3. cs \in [AllTables -> Counts]
      BY <1>1, TypeStep DEF TypeInv, Counts, Next, JobStep
    <2> QED BY <1>4, <2>1, <2>2, <2>3
  <1>7. PICK c, d : c = copies[t] /\ d = cs[t]
    OBVIOUS
  <1>8. c \in Counts /\ d \in Counts
    BY <1>4, <1>6, <1>7 DEF TypeInv, Counts
  <1>9. \A i \in AllRows : d[i] = IF i \in Page(t, last) THEN Cap(c[i] + 1, MaxCopies) ELSE c[i]
    BY <1>5, <1>6, <1>7
  <1>10. ASSUME alone # NoJob PROVE alone = j /\ Leaves(v, cs)
    <2>1. alone = j /\ Leaves(w, copies)
      BY <1>1, <1>3, <1>10 DEF Lone
    <2>2. Clean(c, t, last, w.n) \/ Stuck(t, last)
      BY <1>1, <1>3, <1>7, <2>1 DEF Leaves
    <2>3. (\A s \in w.ok : Whole(cs[s], s)) /\ w.rows = Cardinality(HeldIn(cs, w.ok))
      BY <1>1, <1>3, <1>6, <2>1, Counting
    <2>4. CASE Stuck(t, last)
      <3>1. ~(Cardinality(page) < BatchSize)
        BY <1>4, <1>5, <2>4 DEF Stuck
      <3>2. Stays(v, w) /\ v.last = 0
        BY <1>2, <1>5, <2>4, <3>1 DEF Stuck
      <3>3. Stuck(v.table, v.last)
        BY <1>1, <2>4, <3>2 DEF Stuck, Stays
      <3> QED BY <2>1, <2>3, <3>2, <3>3 DEF Leaves, Stays
    <2>5. CASE Clean(c, t, last, w.n) /\ Cardinality(page) < BatchSize
      <3>1. Turned(v, w, w.ok \cup {t}, w.rows + n)
        BY <1>2, <2>5
      <3>2. Whole(d, t) /\ n = Cardinality(There(d))
        BY <1>2, <1>4, <1>5, <1>8, <1>9, <2>5, Inserted, InsertedPage
      <3>3. Leaves(v, cs)
        BY <1>1, <1>3, <1>6, <1>7, <2>1, <3>1, <3>2, CountSynced
      <3> QED BY <2>1, <3>3
    <2>6. CASE Clean(c, t, last, w.n) /\ ~(Cardinality(page) < BatchSize)
      <3>1. PICK e \in page : /\ \A i \in page : i <= e
                              /\ Stays(v, w) /\ v.pc = "query" /\ v.n = n /\ v.last = source[t][e]
        BY <1>2, <2>6
      <3>2. Clean(d, t, v.last, v.n) \/ Stuck(t, v.last)
        BY <1>2, <1>4, <1>5, <1>8, <1>9, <2>6, <3>1, InsertedPage
      <3> QED BY <1>1, <1>7, <2>1, <2>3, <3>1, <3>2 DEF Leaves, Stays
    <2> QED BY <2>2, <2>4, <2>5, <2>6
  <1>11. copies' = cs /\ UNCHANGED <<source, alone>>
    BY <1>1 DEF Insert
  <1>12. v \in JobType
    BY <1>2 DEF Stays, Turned
  <1> QED BY <1>2, <1>3, <1>10, <1>11, <1>12, LoneMoved

\* A failure leaves the table uncounted, and a crash leaves no Result.
LEMMA LoneEnds ==
    ASSUME TypeInv, Lone, NEW j \in Jobs, Fail(j) \/ Crash(j)
    PROVE  Lone'
  <1>1. PICK w, cs : w = job[j] /\ cs = copies
    OBVIOUS
  <1>2. j \in Active /\ w.pc \in Running
    BY <1>1 DEF Fail, Crash, Active
  <1>3. copies' = cs /\ UNCHANGED <<source, alone>>
    BY <1>1 DEF Fail, Crash
  <1>4. CASE Fail(j)
    <2>1. PICK v : v = Failed(w)
      OBVIOUS
    <2>2. job' = [job EXCEPT ![j] = v] /\ Turned(v, w, w.ok, w.rows)
      BY <1>1, <1>2, <1>4, <2>1, Results DEF Fail
    <2>3. ASSUME alone # NoJob PROVE alone = j /\ Leaves(v, cs)
      <3>1. alone = j /\ Leaves(w, copies)
        BY <1>1, <1>2, <2>3 DEF Lone
      <3> QED BY <1>1, <1>2, <2>2, <3>1, CountFailed
    <2>4. v \in JobType
      BY <2>2 DEF Turned
    <2> QED BY <1>2, <1>3, <2>2, <2>3, <2>4, LoneMoved
  <1>5. CASE Crash(j)
    <2>1. PICK v : v = [NewJob EXCEPT !.pc = "dead"]
      OBVIOUS
    <2>2. job' = [job EXCEPT ![j] = v] /\ v \in JobType
      BY <1>5, <2>1, TypeNew DEF Crash
    <2>3. v.ok = {} /\ v.rows = 0 /\ v.pc = "dead"
      BY <2>1 DEF NewJob
    <2>4. Leaves(v, cs)
      <3>1. HeldIn(cs, {}) = {}
        BY DEF HeldIn
      <3> QED BY <2>3, <3>1, FS_EmptySet DEF Leaves
    <2>5. alone # NoJob => alone = j
      BY <1>2 DEF Lone
    <2> QED BY <1>2, <1>3, <2>2, <2>4, <2>5, LoneMoved
  <1> QED BY <1>4, <1>5

\* Every step keeps what the lone job leaves.
LEMMA LoneStep == TypeInv /\ Lone /\ [Next]_vars => Lone'
  <1> SUFFICES ASSUME TypeInv, Lone, [Next]_vars PROVE Lone'
    OBVIOUS
  <1>1. CASE UNCHANGED vars
    <2>1. PICK v, cs : v = job[alone] /\ cs = copies
      OBVIOUS
    <2>2. v = job'[alone'] /\ cs = copies' /\ UNCHANGED source
      BY <1>1, <2>1 DEF vars
    <2>3. Leaves(v, cs)' <=> Leaves(v, cs)
      BY <2>2, SameSource
    <2>4. Leaves(job[alone], copies)' <=> Leaves(v, cs)'
      BY <2>2, Zenon DEF Leaves
    <2>5. Active' = Active
      BY <1>1 DEF Active, vars
    <2> QED BY <1>1, <2>1, <2>3, <2>4, <2>5 DEF Lone, vars
  <1>2. CASE Ended
    BY <1>1, <1>2 DEF Ended
  <1> QED BY <1>1, <1>2, LoneBegin, LoneDrop, LoneCreate, LoneQuery, LoneInsert, LoneEnds
          DEF Next, JobStep

\* No job has begun: none is alone.
LEMMA LoneInit == Init => Lone
  BY DEF Init, Lone

\* What a sync that runs alone counts as synced is in the file, each row once.
THEOREM Synced == Spec => []SyncedTables
  <1>1. TypeInv /\ Lone => SyncedTables
    BY DEF Lone, Leaves, Whole, Good, SyncedTables
  <1> QED BY TypeInit, TypeStep, LoneInit, LoneStep, <1>1, PTL DEF Spec

\* The Result of a sync that runs alone has the number of rows in its tables.
THEOREM Reported == Spec => []RowsReported
  <1>1. TypeInv /\ Lone => RowsReported
    BY DEF Lone, Leaves, RowsReported, Held, HeldIn
  <1> QED BY TypeInit, TypeStep, LoneInit, LoneStep, <1>1, PTL DEF Spec

-----------------------------------------------------------------------------
(* The map of drivers.                                                     *)

\* A Reconnect that has closed the cached driver only ever finds a later one.
Connecting == {"lookup", "config", "connect"}

Marked ==
    \A c \in Testers :
        /\ caller[c].mark <= connected
        /\ caller[c].pc \in Connecting /\ cached # 0 => caller[c].mark < cached

ConnInv == DbTypeOK /\ CachedIsOpen /\ Marked /\ TestedAnew

CallerType == [pc : {"idle", "lookup", "config", "connect", "use", "forget", "tested"},
               ds : DBTypes \cup {"none"},
               driver : 0..MaxDrivers, mark : 0..MaxDrivers]

\* What a step of goroutine c makes of its record.
Moved(c, v) ==
    /\ v \in CallerType
    /\ caller' = [caller EXCEPT ![c] = v]

\* An empty map satisfies the invariant.
LEMMA ConnInit == DbInit => ConnInv
  BY DbAssumption DEF DbInit, ConnInv, DbTypeOK, CachedIsOpen, Marked, TestedAnew, Stands,
                      Unused, Callers

\* The records the steps write, field by field.
LEMMA Records ==
  ASSUME DbTypeOK, NEW c \in Callers
  PROVE  /\ caller[c] \in CallerType
         /\ BeginQuery(c) => Moved(c, [pc |-> "lookup", ds |-> caller[c].ds,
                                       driver |-> caller[c].driver, mark |-> caller[c].mark])
         /\ BeginReconnect(c) => Moved(c, [pc |-> "lookup", ds |-> caller[c].ds,
                                       driver |-> caller[c].driver, mark |-> connected])
         /\ Lookup(c) /\ cached = 0 =>
                Moved(c, [pc |-> "config", ds |-> caller[c].ds,
                          driver |-> caller[c].driver, mark |-> caller[c].mark])
         /\ FindDataSource(c) /\ dbType # "none" =>
                Moved(c, [pc |-> "connect", ds |-> dbType,
                          driver |-> caller[c].driver, mark |-> caller[c].mark])
         /\ QueryFails(c) => Moved(c, [pc |-> "forget", ds |-> caller[c].ds,
                          driver |-> caller[c].driver, mark |-> caller[c].mark])
         /\ Over(c) => Moved(c, Unused)
         /\ \A d \in 1..MaxDrivers :
                Got(c, d) => Moved(c, [pc |-> IF c \in Testers THEN "tested" ELSE "use",
                                       ds |-> "none", driver |-> d, mark |-> caller[c].mark])
  <1> USE DbAssumption DEF DbTypeOK, CallerType, Moved
  <1>1. caller[c] \in CallerType /\ caller \in [Callers -> CallerType]
    OBVIOUS
  <1>2. connected \in 0..MaxDrivers
    OBVIOUS
  <1>3. BeginQuery(c) => Moved(c, [pc |-> "lookup", ds |-> caller[c].ds,
                                   driver |-> caller[c].driver, mark |-> caller[c].mark])
    BY <1>1 DEF BeginQuery
  <1>4. BeginReconnect(c) => Moved(c, [pc |-> "lookup", ds |-> caller[c].ds,
                                       driver |-> caller[c].driver, mark |-> connected])
    BY <1>1 DEF BeginReconnect
  <1>5. Lookup(c) /\ cached = 0 =>
                Moved(c, [pc |-> "config", ds |-> caller[c].ds,
                          driver |-> caller[c].driver, mark |-> caller[c].mark])
    BY <1>1 DEF Lookup
  <1>6. FindDataSource(c) /\ dbType # "none" =>
                Moved(c, [pc |-> "connect", ds |-> dbType,
                          driver |-> caller[c].driver, mark |-> caller[c].mark])
    BY <1>1 DEF FindDataSource
  <1>7. QueryFails(c) => Moved(c, [pc |-> "forget", ds |-> caller[c].ds,
                          driver |-> caller[c].driver, mark |-> caller[c].mark])
    BY <1>1 DEF QueryFails
  <1>8. Over(c) => Moved(c, Unused)
    BY <1>1 DEF Over, Unused
  <1>9. ASSUME NEW d \in 1..MaxDrivers, Got(c, d)
        PROVE  Moved(c, [pc |-> IF c \in Testers THEN "tested" ELSE "use",
                         ds |-> "none", driver |-> d, mark |-> caller[c].mark])
    <2> DEFINE pc == IF c \in Testers THEN "tested" ELSE "use"
               v == [pc |-> pc, ds |-> "none", driver |-> d, mark |-> caller[c].mark]
    <2>1. pc \in {"tested", "use"}
      OBVIOUS
    <2>2. caller' = [caller EXCEPT ![c] = v]
      BY <1>9 DEF Got
    <2>3. v \in CallerType
      <3> HIDE DEF pc
      <3> QED BY <2>1, <1>1
    <2> QED BY <2>2, <2>3
  <1> QED BY <1>1, <1>3, <1>4, <1>5, <1>6, <1>7, <1>8, <1>9

\* What each of the invariants about the map needs of a step of a goroutine.
LEMMA ConnMoved ==
  ASSUME ConnInv, NEW c \in Callers, NEW v, Moved(c, v),
         connected' \in 0..MaxDrivers, connected <= connected',
         cached' \in 0..connected', open' \subseteq 1..connected',
         UNCHANGED dbType, process' \in {"up", "stopping", "dead"},
         failures' \in 0..MaxFailures, aborted' \in 0..connected',
         cached' \in {0, cached} \/ cached' > connected,
         cached' # 0 => cached' \in open',
         c \in Testers => /\ v.mark <= connected'
                          /\ v.pc \in Connecting /\ cached' # 0 => v.mark < cached'
                          /\ v.pc = "tested" => v.driver > v.mark,
         process = "dead" => process' = "dead"
  PROVE  ConnInv'
  <1> USE DbAssumption
  <1>1. caller \in [Callers -> CallerType] /\ connected \in Nat /\ cached \in Nat
    BY DEF ConnInv, DbTypeOK, CallerType
  <1>2. caller' \in [Callers -> CallerType] /\ caller'[c] = v
        /\ \A d \in Callers \ {c} : caller'[d] = caller[d]
    BY <1>1 DEF Moved
  <1>3. DbTypeOK'
    BY <1>2 DEF ConnInv, DbTypeOK, CallerType
  <1>4. CachedIsOpen'
    BY DEF CachedIsOpen
  <1>5. \A d \in Testers : d \in Callers /\ caller[d].mark \in Nat
    BY <1>1 DEF Callers, CallerType
  <1>6. Marked'
    BY <1>1, <1>2, <1>5 DEF ConnInv, Marked
  <1>7. TestedAnew'
    BY <1>1, <1>2, <1>5 DEF ConnInv, TestedAnew, Stands, Alive
  <1> QED BY <1>3, <1>4, <1>6, <1>7 DEF ConnInv

\* Every step keeps the invariant.
LEMMA ConnStep == ConnInv /\ [DbNext]_dbVars => ConnInv'
  <1> SUFFICES ASSUME ConnInv, [DbNext]_dbVars PROVE ConnInv'
    OBVIOUS
  <1> USE DbAssumption
  <1>0. /\ connected \in 0..MaxDrivers /\ cached \in 0..connected /\ open \subseteq 1..connected
        /\ process \in {"up", "stopping", "dead"} /\ failures \in 0..MaxFailures
        /\ aborted \in 0..connected
        /\ cached # 0 => cached \in open
    BY DEF ConnInv, DbTypeOK, CachedIsOpen
  <1>1. ASSUME NEW c \in Callers,
               \/ BeginQuery(c) \/ Lookup(c) \/ FindDataSource(c)
               \/ (ConnectFails(c) /\ UNCHANGED <<connected, open, aborted>>)
               \/ QueryOk(c) \/ QueryFails(c) \/ QueryPanics(c)
               \/ TestEnds(c) \/ (ConnectOk(c) /\ cached # 0)
        PROVE  ConnInv'
    <2>1. /\ UNCHANGED <<dbType, cached, connected, open, aborted>>
          /\ process' \in {"up", "stopping", "dead"} /\ failures' \in 0..MaxFailures
          /\ process = "dead" => process' = "dead"
      BY <1>0, <1>1 DEF BeginQuery, Lookup, FindDataSource, ConnectFails,
                        QueryOk, QueryFails, QueryPanics, TestEnds, ConnectOk, Stands, Alive
    <2>2. PICK v : /\ Moved(c, v)
                   /\ c \in Testers => /\ v.mark \in {0, caller[c].mark}
                                       /\ v.pc \in Connecting /\ cached # 0 =>
                                             /\ v.mark = caller[c].mark
                                             /\ caller[c].pc \in Connecting
                                       /\ v.pc = "tested" => v.driver > v.mark
      <3> USE DEF Connecting
      <3>0. /\ caller[c] \in CallerType
            /\ BeginQuery(c) => c \notin Testers
            /\ Lookup(c) => caller[c].pc = "lookup"
            /\ FindDataSource(c) => caller[c].pc = "config"
        BY Records DEF BeginQuery, Lookup, FindDataSource, Stands, ConnInv
      <3>1. CASE BeginQuery(c)
        BY <3>0, <3>1, Records DEF ConnInv
      <3>2. CASE Lookup(c) /\ cached = 0
        <4> DEFINE u == [pc |-> "config", ds |-> caller[c].ds,
                         driver |-> caller[c].driver, mark |-> caller[c].mark]
        <4>1. Moved(c, u)
          BY <3>2, Records DEF ConnInv
        <4>2. u.pc = "config" /\ u.mark = caller[c].mark
          OBVIOUS
        <4> HIDE DEF u
        <4> QED BY <3>0, <3>2, <4>1, <4>2
      <3>3. CASE (Lookup(c) \/ ConnectOk(c)) /\ cached # 0
        <4> DEFINE u == [pc |-> IF c \in Testers THEN "tested" ELSE "use", ds |-> "none",
                         driver |-> cached, mark |-> caller[c].mark]
        <4>1. Got(c, cached) /\ cached \in 1..MaxDrivers /\ caller[c].pc \in Connecting
          BY <1>0, <3>3 DEF Lookup, ConnectOk, Stands
        <4>2. c \in Testers => caller[c].mark < cached
          BY <4>1, <3>3 DEF ConnInv, Marked
        <4>3. Moved(c, u)
          BY <4>1, Records DEF ConnInv
        <4>4. u.pc \notin Connecting /\ u.mark = caller[c].mark /\ u.driver = cached
          OBVIOUS
        <4> HIDE DEF u
        <4> QED BY <4>1, <4>2, <4>3, <4>4
      <3>4. CASE FindDataSource(c) /\ dbType # "none"
        <4> DEFINE u == [pc |-> "connect", ds |-> dbType,
                         driver |-> caller[c].driver, mark |-> caller[c].mark]
        <4>1. Moved(c, u)
          BY <3>4, Records DEF ConnInv
        <4>2. u.pc = "connect" /\ u.mark = caller[c].mark
          OBVIOUS
        <4> HIDE DEF u
        <4> QED BY <3>0, <3>4, <4>1, <4>2
      <3>5. CASE QueryFails(c)
        <4> DEFINE u == [pc |-> "forget", ds |-> caller[c].ds,
                         driver |-> caller[c].driver, mark |-> caller[c].mark]
        <4>1. Moved(c, u)
          BY <3>5, Records DEF ConnInv
        <4>2. u.pc = "forget" /\ u.mark = caller[c].mark
          OBVIOUS
        <4> HIDE DEF u
        <4> QED BY <4>1, <4>2
      <3>6. CASE Over(c)
        <4>1. Moved(c, Unused) /\ Unused.pc = "idle" /\ Unused.mark = 0
          BY <3>6, Records DEF Unused, ConnInv
        <4> QED BY <4>1
      <3> QED BY <1>1, <3>1, <3>2, <3>3, <3>4, <3>5, <3>6
              DEF FindDataSource, ConnectFails, QueryOk, QueryPanics, TestEnds
    <2>3. c \in Testers => /\ v.mark <= connected
                           /\ v.pc \in Connecting /\ cached # 0 => v.mark < cached
      BY <1>0, <2>2 DEF ConnInv, Marked
    <2> QED BY <1>0, <2>1, <2>2, <2>3, ConnMoved
  <1>2. ASSUME NEW c \in Callers, BeginReconnect(c) PROVE ConnInv'
    <2> DEFINE v == [pc |-> "lookup", ds |-> caller[c].ds,
                     driver |-> caller[c].driver, mark |-> connected]
    <2>1. Moved(c, v)
      BY <1>2, Records DEF ConnInv
    <2> HIDE DEF v
    <2>2. /\ cached' = 0 /\ open' \subseteq open
          /\ UNCHANGED <<dbType, connected, process, failures, aborted>>
      BY <1>2 DEF BeginReconnect
    <2>3. v.pc = "lookup" /\ v.mark = connected
      BY DEF v
    <2> QED BY <1>0, <2>1, <2>2, <2>3, ConnMoved
  <1>3. ASSUME NEW c \in Callers, ConnectOk(c), cached = 0 PROVE ConnInv'
    <2> DEFINE v == [pc |-> IF c \in Testers THEN "tested" ELSE "use", ds |-> "none",
                     driver |-> connected + 1, mark |-> caller[c].mark]
    <2>1. /\ connected + 1 \in 1..MaxDrivers /\ connected' = connected + 1
          /\ cached' = connected' /\ open' = open \cup {connected'}
          /\ Got(c, connected + 1) /\ UNCHANGED <<dbType, process, failures, aborted>>
      BY <1>0, <1>3 DEF ConnectOk, NewDriver
    <2>2. Moved(c, v)
      BY <2>1, Records DEF ConnInv
    <2>3. v.mark = caller[c].mark /\ v.driver = connected + 1
          /\ v.pc \notin Connecting
      BY DEF Connecting
    <2>4. c \in Testers => caller[c].mark \in Nat /\ caller[c].mark <= connected
      <3>1. caller[c] \in CallerType
        BY Records DEF ConnInv
      <3> QED BY <3>1 DEF ConnInv, Marked, CallerType
    <2> HIDE DEF v
    <2>5. /\ connected' \in 0..MaxDrivers /\ connected <= connected'
          /\ cached' \in 0..connected' /\ cached' > connected /\ cached' \in open'
          /\ open' \subseteq 1..connected'
      BY <1>0, <2>1
    <2>6. c \in Testers => /\ v.mark <= connected'
                           /\ v.pc \notin Connecting
                           /\ v.driver > v.mark
      BY <1>0, <2>1, <2>3, <2>4
    <2>7. /\ process' \in {"up", "stopping", "dead"} /\ failures' \in 0..MaxFailures
          /\ UNCHANGED dbType /\ (process = "dead" => process' = "dead")
          /\ aborted' \in 0..connected'
      BY <1>0, <2>1
    <2> QED BY <2>2, <2>5, <2>6, <2>7, ConnMoved
  <1>4. ASSUME NEW c \in Callers, Forget(c) PROVE ConnInv'
    <2>1. Moved(c, Unused)
      BY <1>4, Records DEF ConnInv, Forget
    <2>2. Unused.mark = 0 /\ Unused.pc = "idle"
      BY DEF Unused
    <2>3. cached' = 0 /\ UNCHANGED <<dbType, connected, open, process, failures, aborted>>
      BY <1>4 DEF Forget
    <2> QED BY <1>0, <2>1, <2>2, <2>3, ConnMoved DEF Connecting
  <1>5. CASE Configure
    BY <1>5 DEF Configure, ConnInv, DbTypeOK, CachedIsOpen, Marked, TestedAnew, Stands, Alive
  <1>6. CASE Stop
    BY <1>0, <1>6 DEF Stop, ConnInv, DbTypeOK, CachedIsOpen, Marked, TestedAnew, Stands, Alive
  <1>7. CASE Exit
    BY <1>7 DEF Exit, ConnInv, DbTypeOK, CachedIsOpen, Marked, TestedAnew, Stands, Alive
  <1>8. CASE UNCHANGED dbVars
    BY <1>8 DEF dbVars, ConnInv, DbTypeOK, CachedIsOpen, Marked, TestedAnew, Stands, Alive
  <1>9. ASSUME NEW c \in Callers, ConnectFails(c) \/ ConnectPanics(c), LeftOpen
        PROVE  ConnInv'
    <2>1. Moved(c, Unused)
      BY <1>9, Records DEF ConnInv, ConnectFails, ConnectPanics
    <2>2. Unused.mark = 0 /\ Unused.pc = "idle"
      BY DEF Unused
    <2>3. /\ connected' \in 0..MaxDrivers /\ connected <= connected'
          /\ open' \subseteq 1..connected' /\ cached \in 0..connected'
          /\ aborted' \in 0..connected' /\ open \subseteq open'
      BY <1>0, <1>9 DEF LeftOpen
    <2>4. /\ UNCHANGED <<dbType, cached, failures>>
          /\ process' \in {"up", "stopping", "dead"}
          /\ process = "dead" => process' = "dead"
      BY <1>0, <1>9 DEF ConnectFails, ConnectPanics, Stands, Alive
    <2>5. cached' # 0 => cached' \in open'
      BY <1>0, <2>3, <2>4
    <2>6. failures' \in 0..MaxFailures
      BY <1>0, <2>4
    <2> QED BY <2>1, <2>2, <2>3, <2>4, <2>5, <2>6, ConnMoved DEF Connecting
  <1> QED BY <1>1, <1>2, <1>3, <1>4, <1>5, <1>6, <1>7, <1>8, <1>9
          DEF DbNext, Halted, ConnectFails, ConnectPanics

\* The variables keep their types.
THEOREM DbTypeCorrect == DbSpec => []DbTypeOK
  <1>1. ConnInv => DbTypeOK
    BY DEF ConnInv
  <1> QED BY <1>1, ConnInit, ConnStep, PTL DEF DbSpec

\* The driver in the map is open, in every interleaving of queries that fail,
\* tests that close it and goroutines that connect.
THEOREM MapHoldsAnOpenDriver == DbSpec => []CachedIsOpen
  <1>1. ConnInv => CachedIsOpen
    BY DEF ConnInv
  <1> QED BY <1>1, ConnInit, ConnStep, PTL DEF DbSpec

\* A test that succeeds has a connection younger than its Close.
THEOREM TestsAreFresh == DbSpec => []TestedAnew
  <1>1. ConnInv => TestedAnew
    BY DEF ConnInv
  <1> QED BY <1>1, ConnInit, ConnStep, PTL DEF DbSpec

-----------------------------------------------------------------------------
(* Leaks: a failed query may leave one driver open for good, and one that  *)
(* has failed but not yet removed the driver of the map is still owed one. *)
(* A Connect that gives no driver may leave one connection.                *)

Forgetting == {c \in Callers : caller[c].pc = "forget"}
Lost == open \ {cached}

LeakInv ==
    /\ IsFiniteSet(Lost) /\ IsFiniteSet(Forgetting)
    /\ Cardinality(Lost) + Cardinality(Forgetting) <= failures + aborted

\* Nothing is lost at the start.
LEMMA LeakInit == DbInit => LeakInv
  <1> SUFFICES ASSUME DbInit PROVE LeakInv
    OBVIOUS
  <1>1. Lost = {} /\ Forgetting = {} /\ failures = 0 /\ aborted = 0
    BY DEF DbInit, Lost, Forgetting, Unused
  <1> QED BY <1>1, FS_EmptySet DEF LeakInv

\* A record written field by field is a move to its pc.
LEMMA MovedTo ==
  ASSUME NEW c, NEW p, NEW s, NEW d, NEW m,
         Moved(c, [pc |-> p, ds |-> s, driver |-> d, mark |-> m])
  PROVE  \E v : Moved(c, v) /\ v.pc = p
  <1> DEFINE v == [pc |-> p, ds |-> s, driver |-> d, mark |-> m]
  <1>1. Moved(c, v) /\ v.pc = p
    OBVIOUS
  <1> HIDE DEF v
  <1> QED BY <1>1

\* Where goroutine c stands after it has moved.
LEMMA ForgettingAfter ==
  ASSUME DbTypeOK, NEW c \in Callers, NEW v, Moved(c, v)
  PROVE  Forgetting' = IF v.pc = "forget" THEN Forgetting \cup {c} ELSE Forgetting \ {c}
  <1>1. /\ caller'[c] = v
        /\ \A d \in Callers \ {c} : caller'[d] = caller[d]
    BY DEF DbTypeOK, Moved
  <1> QED BY <1>1 DEF Forgetting

\* A goroutine moves without failing a query or removing a driver.
LEMMA LeakMoved ==
  ASSUME DbTypeOK, LeakInv, NEW c \in Callers, NEW v, Moved(c, v), v.pc # "forget",
         caller[c].pc # "forget", Lost' = Lost, failures' = failures, aborted' = aborted
  PROVE  LeakInv'
  <1>1. Forgetting' = Forgetting
    BY ForgettingAfter DEF Forgetting
  <1> QED BY <1>1 DEF LeakInv

\* Every step keeps the account of lost drivers.
LEMMA LeakStep == ConnInv /\ LeakInv /\ [DbNext]_dbVars => LeakInv'
  <1> SUFFICES ASSUME ConnInv, LeakInv, [DbNext]_dbVars PROVE LeakInv'
    OBVIOUS
  <1> USE DbAssumption
  <1>0. /\ DbTypeOK /\ failures \in Nat /\ aborted \in Nat
        /\ connected \in Nat /\ cached \in 0..connected /\ open \subseteq 1..connected
        /\ Cardinality(Lost) \in Nat /\ Cardinality(Forgetting) \in Nat
    BY FS_CardinalityType DEF ConnInv, DbTypeOK, LeakInv
  <1>1. ASSUME NEW c \in Callers,
               \/ BeginQuery(c) \/ Lookup(c) \/ FindDataSource(c)
               \/ (ConnectFails(c) /\ UNCHANGED <<connected, open, aborted>>)
               \/ QueryOk(c) \/ QueryPanics(c) \/ TestEnds(c)
               \/ BeginReconnect(c) \/ ConnectOk(c)
        PROVE  LeakInv'
    <2>1. caller[c].pc # "forget" /\ failures' = failures /\ aborted' = aborted
      BY <1>1 DEF BeginQuery, Lookup, FindDataSource, ConnectFails, QueryOk,
                  QueryPanics, TestEnds, BeginReconnect, ConnectOk, NewDriver, Stands
    <2>2. Lost' = Lost
      <3>1. CASE BeginReconnect(c)
        BY <1>0, <3>1 DEF BeginReconnect, Lost
      <3>2. CASE ConnectOk(c) /\ cached = 0
        BY <1>0, <3>2 DEF ConnectOk, NewDriver, Lost
      <3>3. CASE UNCHANGED <<cached, open>>
        BY <3>3 DEF Lost
      <3> QED BY <1>1, <3>1, <3>2, <3>3
              DEF BeginQuery, Lookup, FindDataSource, ConnectFails, QueryOk,
                  QueryPanics, TestEnds, ConnectOk
    <2>3. PICK v : Moved(c, v) /\ v.pc # "forget"
      <3>1. CASE BeginQuery(c)
        <4>1. Moved(c, [pc |-> "lookup", ds |-> caller[c].ds,
                        driver |-> caller[c].driver, mark |-> caller[c].mark])
          BY <1>0, <3>1, Records
        <4> QED BY <4>1, MovedTo
      <3>2. CASE Lookup(c) /\ cached = 0
        <4>1. Moved(c, [pc |-> "config", ds |-> caller[c].ds,
                        driver |-> caller[c].driver, mark |-> caller[c].mark])
          BY <1>0, <3>2, Records
        <4> QED BY <4>1, MovedTo
      <3>3. ASSUME NEW d \in 1..MaxDrivers, Got(c, d)
            PROVE  \E v : Moved(c, v) /\ v.pc # "forget"
        <4> DEFINE pc == IF c \in Testers THEN "tested" ELSE "use"
        <4>1. Moved(c, [pc |-> pc, ds |-> "none", driver |-> d, mark |-> caller[c].mark])
          BY <1>0, <3>3, Records
        <4>2. pc # "forget"
          OBVIOUS
        <4> HIDE DEF pc
        <4> QED BY <4>1, <4>2, MovedTo
      <3>4. CASE FindDataSource(c) /\ dbType # "none"
        <4>1. Moved(c, [pc |-> "connect", ds |-> dbType,
                        driver |-> caller[c].driver, mark |-> caller[c].mark])
          BY <1>0, <3>4, Records
        <4> QED BY <4>1, MovedTo
      <3>5. CASE BeginReconnect(c)
        <4>1. Moved(c, [pc |-> "lookup", ds |-> caller[c].ds,
                        driver |-> caller[c].driver, mark |-> connected])
          BY <1>0, <3>5, Records
        <4> QED BY <4>1, MovedTo
      <3>6. CASE Over(c)
        <4>1. Moved(c, Unused) /\ Unused.pc = "idle"
          BY <1>0, <3>6, Records DEF Unused
        <4> QED BY <4>1
      <3>7. (Lookup(c) \/ ConnectOk(c)) /\ cached # 0 => Got(c, cached) /\ cached \in 1..MaxDrivers
        BY <1>0 DEF Lookup, ConnectOk, DbTypeOK
      <3>8. ConnectOk(c) /\ cached = 0 => Got(c, connected + 1) /\ connected + 1 \in 1..MaxDrivers
        BY <1>0 DEF ConnectOk, NewDriver
      <3> QED BY <1>1, <3>1, <3>2, <3>3, <3>4, <3>5, <3>6, <3>7, <3>8
              DEF FindDataSource, ConnectFails, QueryOk, QueryPanics, TestEnds
    <2> QED BY <1>0, <2>1, <2>2, <2>3, LeakMoved
  <1>2. ASSUME NEW c \in Callers, QueryFails(c) PROVE LeakInv'
    <2> DEFINE u == [pc |-> "forget", ds |-> caller[c].ds,
                     driver |-> caller[c].driver, mark |-> caller[c].mark]
    <2>1. Moved(c, u)
      BY <1>0, <1>2, Records
    <2>2. u.pc = "forget"
      OBVIOUS
    <2> HIDE DEF u
    <2>3. Forgetting' = Forgetting \cup {c} /\ c \notin Forgetting
      BY <1>0, <1>2, <2>1, <2>2, ForgettingAfter DEF QueryFails, Stands, Forgetting
    <2>4. Lost' = Lost /\ failures' = failures + 1 /\ aborted' = aborted
      BY <1>2 DEF QueryFails, Lost
    <2>5. IsFiniteSet(Forgetting') /\ Cardinality(Forgetting') = Cardinality(Forgetting) + 1
      BY <2>3, FS_AddElement DEF LeakInv
    <2> QED BY <1>0, <2>4, <2>5 DEF LeakInv
  <1>3. ASSUME NEW c \in Callers, Forget(c) PROVE LeakInv'
    <2>1. Moved(c, Unused) /\ Unused.pc = "idle"
      BY <1>0, <1>3, Records DEF Forget, Unused
    <2>2. Forgetting' = Forgetting \ {c} /\ c \in Forgetting
      BY <1>0, <1>3, <2>1, ForgettingAfter DEF Forget, Stands, Forgetting
    <2>3. IsFiniteSet(Forgetting') /\ Cardinality(Forgetting') = Cardinality(Forgetting) - 1
      BY <2>2, FS_RemoveElement DEF LeakInv
    <2>4. failures' = failures /\ aborted' = aborted /\ (Lost' = Lost \/ Lost' = Lost \cup {cached})
      BY <1>0, <1>3 DEF Forget, Lost
    <2>5. IsFiniteSet(Lost') /\ Cardinality(Lost') <= Cardinality(Lost) + 1
      <3>1. CASE Lost' = Lost
        BY <1>0, <3>1 DEF LeakInv
      <3>2. CASE Lost' = Lost \cup {cached} /\ cached \notin Lost
        <4>1. IsFiniteSet(Lost) /\ Cardinality(Lost) \in Nat
          BY <1>0 DEF LeakInv
        <4>2. IsFiniteSet(Lost') /\ Cardinality(Lost') = Cardinality(Lost) + 1
          BY <3>2, <4>1, FS_AddElement
        <4> QED BY <4>1, <4>2
      <3> QED BY <2>4, <3>1, <3>2 DEF Lost
    <2>6. Cardinality(Lost') \in Nat /\ Cardinality(Forgetting') \in Nat
      BY <2>3, <2>5, FS_CardinalityType
    <2> QED BY <1>0, <2>3, <2>4, <2>5, <2>6 DEF LeakInv
  <1>4. CASE Stop
    <2>1. /\ Lost' = Lost /\ Forgetting' = Forgetting
          /\ failures' = failures /\ aborted' = aborted
      BY <1>0, <1>4 DEF Stop, Lost, Forgetting
    <2> QED BY <2>1 DEF LeakInv
  <1>5. CASE UNCHANGED <<cached, open, caller, failures, aborted>>
    <2>1. /\ Lost' = Lost /\ Forgetting' = Forgetting
          /\ failures' = failures /\ aborted' = aborted
      BY <1>5 DEF Lost, Forgetting
    <2> QED BY <2>1 DEF LeakInv
  <1>6. ASSUME NEW c \in Callers, ConnectFails(c) \/ ConnectPanics(c), LeftOpen
        PROVE  LeakInv'
    <2>1. /\ Moved(c, Unused) /\ Unused.pc = "idle" /\ caller[c].pc # "forget"
          /\ cached' = cached /\ failures' = failures
      BY <1>0, <1>6, Records DEF ConnectFails, ConnectPanics, Stands, Unused
    <2>2. Forgetting' = Forgetting
      BY <1>0, <2>1, ForgettingAfter DEF Forgetting
    <2>3. PICK n \in Nat : n = connected + 1
      BY <1>0
    <2>4. Lost' = Lost \cup {n} /\ n \notin Lost /\ aborted' = aborted + 1
      BY <1>0, <1>6, <2>1, <2>3 DEF LeftOpen, Lost
    <2>5. IsFiniteSet(Lost') /\ Cardinality(Lost') = Cardinality(Lost) + 1
      BY <2>4, FS_AddElement DEF LeakInv
    <2> QED BY <1>0, <2>1, <2>2, <2>4, <2>5 DEF LeakInv
  <1> QED BY <1>1, <1>2, <1>3, <1>4, <1>5, <1>6
          DEF DbNext, dbVars, Configure, Exit, Halted, ConnectFails, ConnectPanics

\* The connections that nothing will close never outnumber the queries that
\* failed and the Connects that left one behind: goroutines that connect, fail
\* and test at the same time add none of their own.
THEOREM LeaksAccounted == DbSpec => []LeaksBounded
  <1>1. ConnInv /\ LeakInv => LeaksBounded
    <2> SUFFICES ASSUME ConnInv, LeakInv PROVE LeaksBounded
      OBVIOUS
    <2>1. failures \in Nat /\ aborted \in Nat
      BY DbAssumption DEF ConnInv, DbTypeOK
    <2>2. Cardinality(Lost) \in Nat /\ Cardinality(Forgetting) \in Nat
      BY FS_CardinalityType DEF LeakInv
    <2> QED BY <2>1, <2>2 DEF LeakInv, Lost, LeaksBounded
  <1>2. ConnInv /\ LeakInv /\ [DbNext]_dbVars => (ConnInv /\ LeakInv)'
    BY ConnStep, LeakStep
  <1> QED BY <1>1, <1>2, ConnInit, LeakInit, PTL DEF DbSpec
=============================================================================
