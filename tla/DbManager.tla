----------------------------- MODULE DbManager -----------------------------
(***************************************************************************)
(* The connections to one data source (internal/db/manager.go): a map,     *)
(* under a lock, holds at most one driver for it.  Query goroutines and    *)
(* syncs look the driver up or connect one, use it without the lock, and   *)
(* when the query fails remove whatever the map holds by then.  The web    *)
(* interface's "test" closes the driver of the map, in use or not, and     *)
(* connects anew.  Stop closes it while goroutines still run.  The lock is *)
(* held while a driver connects, so every critical section is one step.    *)
(***************************************************************************)
EXTENDS Naturals, FiniteSets

CONSTANTS
    Queriers,      \* goroutines that query the data source, again and again
    Testers,       \* requests of the web interface that test it
    MaxDrivers,    \* bound: connections made
    MaxFailures    \* bound: queries that fail

ASSUME DbAssumption ==
    /\ Queriers \cap Testers = {}
    /\ MaxDrivers \in Nat /\ MaxFailures \in Nat

VARIABLES
    dbType,        \* the data source's db_type in the shared configuration
    cached,        \* the driver in Manager.drivers, 0 for none
    connected,     \* number of connections made, in order
    open,          \* the connections that have not been closed
    caller,        \* per goroutine, where it stands
    process,       \* of the connector
    failures,      \* number of queries that have failed (history)
    aborted        \* number of Connects that left a connection and no driver (history)

dbVars == <<dbType, cached, connected, open, caller, process, failures,
            aborted>>

Callers == Queriers \cup Testers
Drivers == 1..MaxDrivers
DBTypes == {"mysql", "other"}

\* ds: the data source found in the configuration; driver: the one at hand;
\* mark: how many had connected when Reconnect had closed the cached one.
DbTypeOK ==
    /\ dbType \in DBTypes \cup {"none"}
    /\ connected \in 0..MaxDrivers
    /\ cached \in 0..connected
    /\ open \subseteq 1..connected
    /\ caller \in [Callers -> [pc : {"idle", "lookup", "config", "connect", "use",
                                     "forget", "tested"},
                               ds : DBTypes \cup {"none"},
                               driver : 0..MaxDrivers, mark : 0..MaxDrivers]]
    /\ process \in {"up", "stopping", "dead"}
    /\ failures \in 0..MaxFailures
    /\ aborted \in 0..connected

Unused == [pc |-> "idle", ds |-> "none", driver |-> 0, mark |-> 0]

DbInit ==
    /\ dbType \in DBTypes \cup {"none"}
    /\ cached = 0 /\ connected = 0 /\ open = {}
    /\ caller = [c \in Callers |-> Unused]
    /\ process = "up" /\ failures = 0 /\ aborted = 0

-----------------------------------------------------------------------------
Alive == process # "dead"
Stands(c, pc) == Alive /\ caller[c].pc = pc
Over(c) == caller' = [caller EXCEPT ![c] = Unused]

\* ensureConnection returns driver d to c.
Got(c, d) ==
    caller' = [caller EXCEPT ![c] = [pc |-> IF c \in Testers THEN "tested" ELSE "use",
                                     ds |-> "none", driver |-> d, mark |-> @.mark]]

\* Query, from a query goroutine or a sync.
BeginQuery(c) ==
    /\ Stands(c, "idle") /\ c \in Queriers
    /\ caller' = [caller EXCEPT ![c].pc = "lookup"]
    /\ UNCHANGED <<dbType, cached, connected, open, process, failures, aborted>>

\* Mutant: the driver is closed but stays in the map.
BeginReconnect_KeepsEntry(c) ==
    /\ Stands(c, "idle") /\ c \in Testers
    /\ open' = open \ {cached}
    /\ caller' = [caller EXCEPT ![c].pc = "lookup", ![c].mark = connected]
    /\ UNCHANGED <<dbType, cached, connected, process, failures, aborted>>

\* Mutant: a driver that some query uses is left alone.
BeginReconnect_Spares(c) ==
    /\ Stands(c, "idle") /\ c \in Testers
    /\ IF \E q \in Queriers : caller[q].pc = "use" THEN UNCHANGED <<open, cached>>
       ELSE open' = open \ {cached} /\ cached' = 0
    /\ caller' = [caller EXCEPT ![c].pc = "lookup", ![c].mark = connected]
    /\ UNCHANGED <<dbType, connected, process, failures, aborted>>

\* Reconnect closes and removes the cached driver, then ensures a connection.
BeginReconnect(c) ==
    /\ Stands(c, "idle") /\ c \in Testers
    /\ open' = open \ {cached}
    /\ cached' = 0
    /\ caller' = [caller EXCEPT ![c].pc = "lookup", ![c].mark = connected]
    /\ UNCHANGED <<dbType, connected, process, failures, aborted>>

\* ensureConnection: the map, under the read lock ...
Lookup(c) ==
    /\ Stands(c, "lookup")
    /\ IF cached # 0 THEN Got(c, cached)
       ELSE caller' = [caller EXCEPT ![c].pc = "config"]
    /\ UNCHANGED <<dbType, cached, connected, open, process, failures, aborted>>

\* ... then the configuration, which may lack the data source ...
FindDataSource(c) ==
    /\ Stands(c, "config")
    /\ IF dbType = "none" THEN Over(c)
       ELSE caller' = [caller EXCEPT ![c].pc = "connect", ![c].ds = dbType]
    /\ UNCHANGED <<dbType, cached, connected, open, process, failures, aborted>>

\* SaveDataSource overwrites the data source in place, so the driver may see a
\* type saved after FindDataSource returned it.
Types(c) == {caller[c].ds, dbType} \ {"none"}

\* A Connect that gives no driver, but leaves something open behind it.
LeftOpen ==
    /\ connected < MaxDrivers
    /\ connected' = connected + 1
    /\ open' = open \cup {connected'}
    /\ aborted' = aborted + 1

\* When a Connect fails, the SQL drivers close their pool; ODBC keeps the
\* handles that it allocated before.
ConnectFails(c) ==
    /\ Stands(c, "connect") /\ cached = 0
    /\ \/ UNCHANGED <<connected, open, aborted>>
       \/ "other" \in Types(c) /\ LeftOpen
    /\ Over(c)
    /\ UNCHANGED <<dbType, cached, process, failures>>

NewDriver(c) ==
    /\ connected < MaxDrivers /\ "other" \in Types(c)
    /\ connected' = connected + 1
    /\ cached' = connected'
    /\ open' = open \cup {connected'}
    /\ Got(c, connected')
    /\ UNCHANGED <<dbType, process, failures, aborted>>

\* Mutant: the map is not looked at again under the write lock.
ConnectOk_NoDoubleCheck(c) == Stands(c, "connect") /\ NewDriver(c)

\* ... then the map again, under the write lock.
ConnectOk(c) ==
    /\ Stands(c, "connect")
    /\ IF cached # 0
       THEN /\ Got(c, cached)
            /\ UNCHANGED <<dbType, cached, connected, open, process, failures, aborted>>
       ELSE NewDriver(c)

\* The MySQL driver opens and pings a pool, then sets the limits of one it has
\* not stored yet: its goroutine panics, and the pool stays open.  The web
\* server recovers its own goroutines, the process goes on with the pool.
ConnectPanics(c) ==
    /\ Stands(c, "connect") /\ cached = 0 /\ "mysql" \in Types(c)
    /\ LeftOpen
    /\ Over(c)
    /\ process' = IF c \in Testers THEN process ELSE "dead"
    /\ UNCHANGED <<dbType, cached, failures>>

\* driver.Query, without the lock.
QueryOk(c) ==
    /\ Stands(c, "use")
    /\ Over(c)
    /\ UNCHANGED <<dbType, cached, connected, open, process, failures, aborted>>

QueryFails(c) ==
    /\ Stands(c, "use") /\ failures < MaxFailures
    /\ failures' = failures + 1
    /\ caller' = [caller EXCEPT ![c].pc = "forget"]
    /\ UNCHANGED <<dbType, cached, connected, open, process, aborted>>

\* Close sets the pool to nil without the query's knowledge: a query that has
\* found it set may panic on using it.
QueryPanics(c) ==
    /\ Stands(c, "use") /\ caller[c].driver \notin open
    /\ Over(c)
    /\ process' = "dead"
    /\ UNCHANGED <<dbType, cached, connected, open, failures, aborted>>

\* The failed query removes the driver that is in the map, without closing it.
Forget(c) ==
    /\ Stands(c, "forget")
    /\ cached' = 0
    /\ Over(c)
    /\ UNCHANGED <<dbType, connected, open, process, failures, aborted>>

\* handleTestSource answers.
TestEnds(c) ==
    /\ Stands(c, "tested")
    /\ Over(c)
    /\ UNCHANGED <<dbType, cached, connected, open, process, failures, aborted>>

-----------------------------------------------------------------------------
\* SaveDataSource, DeleteDataSource: the map is not told.
Configure ==
    /\ Alive
    /\ dbType' \in DBTypes \cup {"none"}
    /\ UNCHANGED <<cached, connected, open, caller, process, failures, aborted>>

\* Stop closes the cached driver; goroutines go on until the process ends.
Stop ==
    /\ process = "up"
    /\ process' = "stopping"
    /\ open' = open \ {cached}
    /\ cached' = 0
    /\ UNCHANGED <<dbType, connected, caller, failures, aborted>>

Exit ==
    /\ process = "stopping"
    /\ process' = "dead"
    /\ UNCHANGED <<dbType, cached, connected, open, caller, failures, aborted>>

Halted == ~Alive /\ UNCHANGED dbVars

DbNext ==
    \/ \E c \in Callers :
          \/ BeginQuery(c) \/ BeginReconnect(c) \/ Lookup(c) \/ FindDataSource(c)
          \/ ConnectFails(c) \/ ConnectOk(c) \/ ConnectPanics(c)
          \/ QueryOk(c) \/ QueryFails(c) \/ QueryPanics(c) \/ Forget(c) \/ TestEnds(c)
    \/ Configure \/ Stop \/ Exit \/ Halted

DbSpec == DbInit /\ [][DbNext]_dbVars

-----------------------------------------------------------------------------
\* The map never hands out a driver that has been closed, although Reconnect
\* closes drivers that queries use and failed queries remove drivers.
CachedIsOpen == cached # 0 => cached \in open

\* Connections that nothing will ever close come from failed queries and from
\* Connects that left something behind: goroutines that connect at the same
\* time, or while a query fails or a test closes the driver, never add one.
LeaksBounded == Cardinality(open \ {cached}) <= failures + aborted

\* A test that succeeds has a connection made after it closed the old one,
\* whoever made it.
TestedAnew == \A c \in Testers : Stands(c, "tested") => caller[c].driver > caller[c].mark
=============================================================================
