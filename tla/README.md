# Verification of the Pyrolis connector

The connector runs on a customer's premises. It keeps a WebSocket to the Pyrolis
cloud, executes the SELECT queries the cloud sends against local data sources,
streams their rows back, copies tables into SQLite files, forwards its log and
replaces its own executable when a new version is offered. This directory holds
TLA+ models of that program (the Go code under `cmd/` and `internal/`), the TLC
configurations that check them, and theorems proved with TLAPS.

    tlc -config MCRelayRows.cfg MCRelay     # one run per .cfg, listed in section 3
    tlapm RelayProofs.tla                   # one per module named ...Proofs

## 1. The system

| component | state it keeps | operations | talks to |
|---|---|---|---|
| Relay (`internal/relay/relay.go`, `protocol.go`) | connection status, `channelJoined`, `joinRef`, the latest session's context and cancel function, the bounded channel `outCh` | `Start`/`connectLoop`/`runSession`, four loops per session, `Push`, `PushBlocking`, `StreamRows`, `Reconnect`, `GetStatus`, `drainOutgoing` | cloud (WebSocket), message handler (callback), configuration |
| Query goroutines (`main.go` `handleQuery`) | one of three slots of `querySem`, the rows of a result | acquire, query, stream or report the error | database manager, relay |
| HTTP poller (`relay/poller.go`) | none | poll every 30 or 60 s, hand each command to the handler, acknowledge it | cloud (HTTP), message handler |
| Table sync (`internal/sync`) | a SQLite file, a cursor per table | `Run`: per table drop, create, then pages of 999 rows by keyset | database manager, file system, relay (`sync_result`) |
| Updater (`internal/updater`) | one `State` record under a lock, downloaded files, the executable | `NotifyAvailable`, `CheckGitHub`, `Download`, `DownloadAndApply`, `Apply`, `selfUpdate` | cloud's notification, GitHub, web interface, file system |
| Database manager and drivers (`internal/db`) | map from data source to driver under a read-write lock | `Query`, `Reconnect`, `ensureConnection`, `connect`, `Close`, health queries | configuration, drivers |
| Log forwarder (`internal/logfwd`) | `enabled`, the buffer, flush loops | `Enable`, `Disable`, `Handle`, `flush` | every goroutine that logs, relay |
| Configuration (`internal/config`) | one shared record, its file | `Load`, `Save`, `Get`, `SaveDataSource`, `DeleteDataSource`, `UpdateSetting` | all of the above; callers change the record in place |
| Message handler and process (`main.go`) | none of its own | dispatch of the cloud's commands, `Start`, `Stop`, `restartSelf`, the `sync` command | everything |
| Web interface (`internal/web`) | none of its own | setup, pairing, data sources, tests, update check, health | configuration, relay, database manager, updater |
| Tray, ODBC detection, translations | no protocol state | user interface, parsing, a string table | |
| Elixir predecessor (`lib/`) | processes with mailboxes | an earlier implementation of all of the above | not part of the built program |

The relay's read loop and the poller call the message handler synchronously;
queries, syncs, restarts and downloads get a goroutine of their own. Goroutines
share the configuration record (mostly without a lock), the relay's fields (under
its mutex), `outCh`, the driver map and the updater's state (each under a lock,
several critical sections per operation).

What is hard, and what correctness means, per component:

* **Relay.** A session ends on the first error of any of its loops and is *not*
  joined with the others; `Reconnect`, a late `phx_error` and the next session
  race for `r.cancel`; query goroutines outlive sessions and stamp messages with
  the `joinRef` of their time; messages are drained, dropped or lost with a
  failing write. Correct: one live session, a truthful health flag, rows in order
  and never repeated, holes only where the session changed, nobody blocked for
  ever. The rows are those of one *run* of a query: a request that is delivered again
  is executed again.
* **Sync.** Tables fail or the process dies between pages; cursors meet ties and
  NULLs; two syncs may share a file. Correct: a table counted as synced is what
  the source has (up to the stated gap), the count reported is the count in the
  file, every sync ends.
* **Updater.** Check-then-act on a state others overwrite at any time, files
  removed after failures. Correct: statuses are backed by work, a ready file
  exists and is applied once, versions never go back.
* **Database manager.** Drivers are used outside the lock while others close,
  remove or replace them. Correct: the map never holds a closed driver,
  connections are abandoned only by failed queries and by Connects that leave one
  behind, never by goroutines that race; a test tests something new.
* **Log forwarder.** Overlapping `Enable`/`Disable`, a stop signal that may miss,
  several loops on one buffer. Correct: entries are conserved, none is stranded.
* **Configuration.** Everybody shares one record by pointer and edits it without a
  lock; the file is truncated before it is written, and the process may end at any
  time. Correct: the file follows the memory, an edit that nobody overlapped is not
  lost, every edit returns.
* **Replacement of the executable.** Renames, a copy between volumes and a crash
  between any two of them, by several goroutines at once. Correct: a complete
  executable can be started, but for the file that two of them stage at once.
* **Poller.** Requests, answers and acknowledgements get lost or late; commands end
  the process that is acknowledging them. Correct: what the cloud no longer lists was
  carried out, but for a query or a restart that the end of the process cut off; none
  is handled again once its acknowledgement was answered, each is handled at last.
* **Monitors and reconnection.** Three clocks watch one session, reset by different
  messages, while their loops, and the report before they start, may block on a
  database; delays grow and restart the process. Correct: a dead session is noticed
  within a bound and a live one is not suspected; attempts thin out; a new configuration
  is used.

## 2. The modules

| module | models | proofs |
|---|---|---|
| `Relay` | relay, query goroutines, the poller's queries, setup and pairing, stop | `RelayProofs` |
| `RowStream` | abstract: what the cloud may rely on about a query's frames | implemented by `Relay` |
| `Monitors` | one session in time: first report, read deadline, heartbeats, watchdog, the lock of the database manager | `MonitorsProofs` |
| `Reconnection` | delays, self-restart, and which configuration a session reads | `TransportProofs` |
| `Poller` | polling loop, handler, acknowledgements, the cloud's list | `TransportProofs` |
| `SyncEngine` | sync of one data source into one file, by several jobs | `SourceProofs` |
| `Updater` | updater state machine, its goroutines, restarts | `UpdaterProofs` |
| `SelfUpdate` | replacement of the executable, call by call, on Unix and Windows | `SelfUpdateProofs` |
| `Installed` | abstract: a program that is whole and changes in one step, unless two stage it at once | implemented by `SelfUpdate` |
| `ConfigStore` | the shared configuration, its editors and its file | `ConfigStoreProofs` |
| `DbManager` | connections to one data source | `SourceProofs` |
| `LogForwarder` | log forwarder | `LogForwarderProofs` |

The modules meet where the code's components do. `Relay` leaves the time of a
session to nondeterminism and `Monitors` has nothing but that time, together with
the lock that makes loops of the relay wait for `DbManager`'s drivers;
`Reconnection` is `connectLoop` with durations and with the configuration that
`ConfigStore`'s editors change; `SelfUpdate` is one step of `Updater`; `Poller`
hands its commands to what `Relay`, `ConfigStore` and `restartSelf` do with them.

An `MC` module extends each of them with what TLC needs (a constraint, a symmetry
set, a view, a function for a constant). `MCConnection` checks `Monitors` and
`Reconnection` in one run: its behaviours are those of the one or of the other, chosen
in the initial state. Operators whose name has an underscore
(`WriterFail_Requeue`) are plausible bugs, kept next to the definition they vary;
no specification uses them. Each property of a passing run is violated when one
of them takes the place of the code's version (`PROJECT.json`).

### Relay

`loop` is the program counter of `connectLoop` and the `runSession` it calls:
`top` -> `build` (URL) -> `ready` -> `dialing` -> `joining` -> `reporting` ->
`running` -> `ended` -> `draining` -> `backoff` -> `top`. A step is a critical
section or a blocking operation. `session` is the session that `r.ctx` and
`r.cancel` belong to and `cancelled` the sessions whose context is cancelled:
`HandleClose` of an old read loop and `SaveConfig` (`Reconnect`) cancel the latest
session, as the code does, whoever that is by then. `writer[s]`, `inHand[s]`,
`reader[s]` survive the session they belong to. The heartbeat and watchdog loops
only end sessions (`MonitorTrips`) and push (`PushNote`).

`outCh` is the buffer and `sendq` Go's FIFO queue of blocked senders; `Receive`
shifts the buffer and admits the first sender in one step, as the runtime does.
`worker[r]` is a run of `handleQuery`: wait for the semaphore, query, and for
each batch `Capture` the `joinRef` (dropping the batch when there is none yet) and
`SendRows`. `delivered[r]` is the history of the frames of that run that left on a
connection. A request that is handed to the handler again, by a poll after a failed
acknowledgement (`poller.go:129`) or over the other way to the cloud, is another
member of `Runs`: the code starts another goroutine and copies the request id into
its messages, without looking at it.

Abstracted: messages are (run, batch number, joinRef); times are
nondeterministic choices, so `AfterSession` may restart the process whenever
`firstFailureAt` has been set, and monitors may trip at any moment; the number of
joined sessions is bounded. A session that started no loop leaves nothing that
refers to it, so its number is used again; failed dials are unbounded.
`overlap` records that a loop of an ended session has outlived the following
backoff (at least 750 ms). The code does not exclude that, and all properties
except the two that say so are checked with it.

### SyncEngine

A row is its position in the order the source returns rows; `source` gives its id
(0 for NULL). `Page` is the SELECT, `Insert` commits a page and moves the cursor
(one transaction, then local assignments), `Fail` is an error of any statement,
which makes `Run` go on with the next table, `Crash` ends the process between two
statements. `copies` is the content of the file. Nothing keeps two jobs apart:
they drop each other's tables, CREATE then fails, and INSERT may find the table
missing. `alone` marks a job that started when no other ran and was not joined.

### Updater

Every critical section is an action: `BeginDownload`, `MarkDownloading` and
`ReadChecksum` are three, as in `Download`. A version stands for its release (number,
URL and checksum); offers may lack URL or checksum. `CheckGitHub` is the moment an
answer is taken in: the request was sent at an arbitrary earlier time. `SwapOk`
and `Restart` begin a new process, which keeps only files and settings.

### DbManager

One data source, since the entries of the map do not interact. Every critical
section of the lock is one step, including `connect`, which holds the lock while
it dials. `ConnectPanics` is the use of the unassigned pool in `MySQLDriver`, which has
opened another by then; a `Connect` of ODBC that fails keeps its handles (`LeftOpen`).
`QueryPanics` is the race of `Close` with a query that has checked the pool. A
panic ends the process unless it happens in a handler of the web server.

### LogForwarder

Entries are numbered as they are buffered. A caller's `Enable` is: set the flag,
start a loop, log; its `Disable`: clear the flag, signal, flush, push, log. `Signal`
stops one of the loops that are at their `select`, or none. Any goroutine logs at
any time. Full buffers go to goroutines of their own (`spare`).

### Monitors

Time is discrete, in units of 5 seconds, which divide all the code's intervals
(`relay.go:18-24`); `Tick` is held back while something prompt is due (`Urgent`: a
message to read, an expired deadline, a tick to handle, a reply that is due). A session
begins when it has joined: `runSession` stamps both clocks and then reports the status
(`stage = "report"`), which asks the database manager about each data source; the loops
and their tickers begin when that report is done. The
read loop reads a message and, for a command that reports the status, asks for the
connection of each data source (`Ask`); the heartbeat loop asks for the list of
connections (`Pushed`). All wait while `held` says that a driver is connecting.
`PongTimeout`, `ReadFails` and `Watch` end the session, and the first of them is
recorded. A ticker's channel holds one tick, as in Go. The cloud may become `mute`
(messages, but no replies) or `silent`.

### Reconnection

`connectLoop` as a sequence of steps that last: an attempt or a session takes one of
`Durations`, a sleep takes the jittered delay in whole seconds. `failing` is
`time.Since(firstFailureAt)`, which nothing resets, since `runSession` always
returns an error; `reached` remembers that a session was joined since. A setup page
assigns URL and id one after the other, saves, and calls `Cancel` (`Reconnect`); `runSession` reads the URL and the id at two moments
and stores its cancel function at a third. Versions of the configuration are the
numbers of the edits that made them.

### Poller

`pending` is the cloud's list. A poll copies it in any order (`Fetched`) or fails; the
loop then handles and acknowledges each command in turn, giving an
acknowledgement up after its timeout (`AckFails`) while the request may still arrive
(`Acknowledge`). A query goes to a goroutine, another one for each time it is delivered
(`running` counts them); a restart starts one that ends the process at any later
point; an edit is executed by the handler itself. `Crash` ends the process anywhere, and
`cut` remembers the commands whose goroutines it ended.

### SelfUpdate

A directory maps names to inodes, since a rename moves a file that another
goroutine may be writing. Each system call of `selfupdate_unix.go` and
`selfupdate_windows.go` is a step and has a step for its failure; between
any two of them the process may end, and the service manager starts whatever is
complete under the executable's name. On Windows a running executable can be
renamed but not deleted or replaced (`InUse`). `content` says of each inode which
release it holds and whether all of it, and `mixed` the inodes that two goroutines
have had open at once. Nothing keeps two goroutines from being in `Apply`, and the staged
copy has one name: `contended` remembers the inodes that one of them staged while
another had not yet swapped in its own.

### ConfigStore

The record in memory, the file, the lock of `Save`, and per goroutine the edit it is in:
the search for a data source index by index (`Scan`), the slice read before it is
replaced (`Read`, `Assign`), `os.Create`, the encoder reading the record field by field
and the list element by element, the write.
A failing write leaves a file that is cut after some field, or one that does not
parse. An index that a deletion has left behind the end panics (`OutOfRange`,
`EncodePanics`): the web server and, through `safeGo`, the read loop recover, the poller
and a query's goroutine end the process. A deletion can also make the encoder pass over
a data source that nobody has edited (`Tears`); the file is then complete, but *torn*. `alone`
marks an edit whose part of the record no other edit has overlapped; `promised` remembers per part what the latest such edit has saved.

## 3. The runs

| run (.cfg) | question | properties | distinct states, time with two workers |
|---|---|---|---|
| `MCRelayRows` | what does the cloud see of a run of a query across sessions? | `RowsInOrder`, `GaplessOnASession`, `WholeFromFirstSession`, refinement `IsRowStream` | 1 621 616, 1¼ min |
| `MCRelayLive` | is anyone stuck, is one session live, is health true? | `RequestsFinish`, `OneLiveSession`, `HealthTruthful` | 557 328, 3¾ min |
| `MCRelayParked` | "wait for ... config change" (`relay.go:139`) | `ConfigChangeIsNoticed` **violated** | 7 292, 3 s |
| `MCConnection` | is a dead session noticed in time, and a live one left alone? How often and how long does the relay retry, and with which configuration? | `NoFalseAlarm`, `SilenceIsNoticed`, `MuteIsNoticed`, `WatchdogBites`; `GivesUpInTime`, `LoadBounded`, `NewConfigUsed` | 6 248 140, 3¼ min |
| `MCRestart` | "if failing for too long" (`relay.go:267`) | `RestartsOnlyWhenFailing` **violated** | a trace of 15 states, 2 s |
| `MCPoller` | are polled commands lost or repeated? | `LostOnlyWhenCut`, `AckedIsOver`, `EveryCommandHandled` | 19 911, 2½ min |
| `MCSync` | what does a sync leave and report? | `TypeOK`, `SyncedTables`, `RowsReported`, `SyncEnds` | 144 806, 35 s |
| `MCUpdater` | are statuses, files and versions consistent? | `StatusHasTask`, `ReadyFileExists`, `AppliedOnce`, `NeverDowngrades` | 315 702, 17 s |
| `MCInstall` | can a complete program always be started? | `ExecutableWhole`, `Recoverable`, refinement `IsInstalled` | 79 272, 8 s |
| `MCConfig` | do edits, file and memory agree? | `TypeOK`, `SavedWhenQuiet`, `SavedAlone`, `EditsReturn` | 516 620, 3½ min |
| `MCDbManager` | is the shared connection usable, who leaks, is a test a test? | `CachedIsOpen`, `LeaksBounded`, `TestedAnew` | 1 138 785, 1 min |
| `MCLogForwarder` | are log entries conserved and delivered? | `TypeOK`, `EntriesConserved`, `NothingLeftBehind`, `EntriesForwarded` | 150 015, 1¼ min |

`TypeOK` is a theorem about every module (section 4). It is also checked where it says
most: in `MCLogForwarder` it bounds the buffer, in `MCSync` a page, in `MCConfig` it
says who holds the lock.

The first violation, *configured in vain*: `Start` parks an unconfigured relay on
`ctx.Done()`; the setup page stores a configuration and calls `Reconnect`, which has
nothing to cancel. The connector stays `not_configured` until it is restarted.

The second, *once failed, always failing*: the time of the first failure is meant to be
reset by a successful session (`relay.go:256`), but `runSession` returns an error
whenever it ends, so nothing resets it. A relay whose first attempt failed, and which was
connected for hours since, restarts the process when that session ends. `GivesUpInTime`
is the other side of it: the same clock does end an outage in time.

### What the code does not promise

Writing the models showed behaviours that the properties have to allow. They
are in the models, and the conditions of the properties name them:

* A request that is delivered twice, as after a failed acknowledgement, is run twice, and
  its rows are sent twice under one request id, in two streams that may interleave:
  `RowsInOrder`, `IsRowStream` and the others are about the frames of one run.
* A query that streams across a change of session loses the batches that were
  drained or in a failing writer's hands, while later ones, including the one marked
  done, arrive: `GaplessOnASession` is about one session only.
* A sync never reads rows that share the id of the last row of a page, or whose
  id is NULL beyond a page: `SyncedTables` says so.
* A newer offer during a download is then shown as ready with the older file; the
  version still only grows.
* A failed query removes whatever driver the map holds, which may be a fresh one;
  `MySQLDriver.Connect` panics after it has opened a pool, which stays open, and in a
  handler of the web server the process goes on; a failed ODBC `Connect` keeps its
  handles. `LeaksBounded` counts both with the failures, and nothing else.
* `DeleteDataSource` assigns a list made from an earlier one, and a data source added
  in between disappears: `SavedAlone` is about edits that nothing overlapped. The
  search indexes a list that may have become shorter (`OutOfRange`), and so does the
  encoder; what panics is a request of the web interface, a session or the process.
* A deletion while another edit is being saved may leave a data source that nobody has
  edited out of a complete file, until the deletion saves itself: `SavedAlone` promises
  nothing of the data sources in a torn file, and `SavedWhenQuiet` waits for every edit.
* A process that ends inside `Save` leaves an empty file, which the next one takes
  for a complete, unconfigured one: what was saved before is lost, `SavedAlone` promises
  nothing of such a file, and for `SavedWhenQuiet` the memory agrees with it. After a
  failed `Save` the two differ until the next one, which `SavedWhenQuiet` exempts.
* Two goroutines in `Apply` on Unix stage under one name, and one may rename a file
  that the other has just truncated over the executable. `ExecutableWhole` allows an
  incomplete executable for such a file only, and `IsInstalled` anything while it is the
  executable; the next replacement that nobody disturbs ends that.
* A query is acknowledged as soon as its goroutine is started: if the process ends
  then, it is lost (`cut`). `LostOnlyWhenCut` says that nothing else is, and that an
  edit never is.
* `SubmitResult` has no caller: the result of a polled query is dropped when no session
  is joined, and the command is not repeated. A restart command, in contrast,
  may be obeyed twice, since the process can end before its acknowledgement.
* A driver that takes long to connect holds up the read loop, which then records the
  replies to heartbeats too late, and the first report, which puts off all three
  monitors while the clocks they read run: after a report of more than `pongTimeout` the
  first heartbeat finds the last reply too old, and ends a session of a cloud that is
  alive. `NoFalseAlarm` excludes sessions that were `hindered`, and the bounds of the
  other three add what the reports wait.
* `Reconnect` before the session's context is stored has no effect (`missed`);
  `NewConfigUsed` leaves that call out.

### Bounds

* Relay rows: one run of a query of 3 batches, two joined sessions and a third that never
  joins, channel of 1. Three batches allow a lost batch before, between and after
  delivered ones; capacity 1 makes blocking, hand-over and drain happen at once;
  two sessions have two writers on one channel. `CONSTRAINT Undisturbed` drops the
  states in which the process was stopped or never configured: there the relay
  sends what these runs send, or less. `relay_live` has no such constraint.
* Relay liveness: two runs, of one request or of two, one semaphore slot and one place in the channel, so
  that one query waits for the other, and both for the drain. Sessions that do not
  join are unbounded.
* Sync: pages of 2, tables of up to 3 rows with ids 0..2 cover ties across a page
  boundary, full last pages, NULL pages and empty tables, and both jobs may crash
  or fail anywhere. `LaterTablesSmall` restricts the *initial* states only: the
  second table exists to show that `Run` goes on, and has at most one page.
* Updater: two releases and two goroutines: enough for an offer to be overtaken,
  for two downloads at once and for a file to be wanted twice.
* DbManager: three queriers (the semaphore's capacity), one tester, three connections
  opened, two failures.
* Monitors: the code's intervals; replies may take one unit; a driver holds the lock
  for one of `Holds`: 7 units (a heartbeat interval and a little) or 22, longer than
  the watchdog's limit of 18, so that the watchdog has to end sessions whose other
  loops are both blocked, and so that the first report may take longer than any
  monitor allows; one data source and one message
  ahead of the reader make the reader wait and lag.
* Reconnection: attempts of 20 s and 150 s reach the limit of 300 s
  by many short attempts, by few long ones and from a sleep; two edits let one come
  while a session has read half of the other. `MCRestart` has attempts of 0 s (refused)
  as well, and no edits, which its question does not need.
* `MCConnection` is the union of the two state spaces, not their product: a session's
  clocks and the loop that follows it do not interact, but for the end of the session,
  which either part has at any time that the other allows.
* Poller: two commands (`MaxIssued`) out of a query, an edit and a restart, so that each
  meets each; up to two goroutines at a time for one query (`MaxRuns`), so that a second
  delivery finds the first still running. Requests fail and acknowledgements get
  lost or late any number of times. More commands add orders of the list, for which
  the proofs stand.
* Install: two goroutines, two releases and six inodes (the running one, one for each
  name and download, one spare), both platforms, both goroutines in `Apply` at once. The
  `VIEW` takes states for one that differ in the names of inodes only, or in what an
  inode holds that nothing refers to; it is always written before it is used again.
* Config: one goroutine of the web server and one of the cloud, three edits in all,
  one data source to begin with and a second one that is added, found with one value and
  given another (`Entered`), one set of credentials.
* LogForwarder: two callers (read loop and poller), three loops, buffer of 2,
  four entries.

The remaining constants are bounded by guards in the modules and named there
(`MaxSessions`, `MaxRows`, `MaxId`, `MaxCopies`, `Tasks`, `MaxDrivers`, `MaxFailures`,
`MaxEntries`, `MaxLoops`, `MaxEdits`, `MaxInbox`, `MaxHold`, `MaxIssued`, `MaxRuns`). Symmetry is used for the
goroutines of `MCUpdater`, `MCDbManager` and `MCInstall` (there also releases), which
check no liveness.

### Fairness

* Relay: weak fairness of `connectLoop`, of each write loop, of a read loop that
  holds a frame or whose context has ended, and of query goroutines. Writes and
  the join reply have deadlines in the code (10 s); a dial is assumed to end by
  the transport's defaults; queries are assumed to return. Nothing is assumed of
  the cloud, the monitors, the poller or users: in particular no session need ever be
  joined, and no session need ever end by itself.
* Sync: a running job takes steps. That is what the absence of a per-statement
  timeout leaves to assume: the query and the file respond or fail.
* Poller: the loop and the goroutines run (weak fairness), that of a restart command too,
  which sleeps for a second and then ends the process. Lost requests, crashes and
  restarts disable steps again and again, so a request is assumed to be answered and
  a step of the loop to be taken if it is tried again and again (strong fairness):
  neither the network nor the process fails each time.
* ConfigStore: an editor past its request takes steps. The answer to a pairing request
  is not assumed: it has no timeout in the code.
* LogForwarder: goroutines run and tickers tick. Nobody need log or send commands.
* Monitors and Reconnection: none; their bounds are stated in time, as invariants, and
  `Urgent` makes what is due happen before time passes.
* Updater, SelfUpdate and DbManager: none. Downloads use `http.Get` without a timeout, and
  drivers dial without one, so the code justifies no fairness.

## 4. The proofs

Proved for all values of the constants that satisfy `RelayAssumption` (at least
one batch, capacities of at least one, `NoRun` not a run): any number of
runs, batches, sessions, any capacity. No other assumption is used.

`RelayProofs` proves `Spec => []SessionInv`, and from it `TypeOK`, `OneLiveSession`
and `HealthTruthful`. None of the three is inductive: whether cancelling "the latest
session" or reusing the number of a failed dial is harmless depends on where
`connectLoop` stands. `SessionInv` therefore adds

* `LoopsOfJoined`: loops belong to sessions that were joined, and the session being
  set up has none;
* `Places`: inside `runSession` there is a session, from the dial on it is
  connected, and from the join on the relay's `joinRef` is its own;
* `Stamped`: a message about to be sent carries a `joinRef`, and only rows wait in
  `sendq` (which `TypeOK` needs: a receive moves the waiting goroutine on).

Its second section proves `RowsInOrder` and the refinement `IsRowStream`. Order at the
cloud depends on where every other batch of the query is, so the invariant
`OrderInv` follows a batch from its goroutine to the cloud:

* `QueueOrder`: the batches of a run are in order in `outCh`;
* `QueuePassed`: its goroutine is through with every batch in `outCh`;
* `SendqWaits`, `Unanswered`: a goroutine waits in `sendq` with its current batch
  and only once; before its query returns it has none;
* `DeliveredAhead`: what was delivered comes before everything in `outCh`;
* `HandAhead`: so does what the *live* write loop holds, and after what was
  delivered. The write loops of ended sessions may hold anything: they cannot send.

The proof has two halves. Every action changes the channel as `QueueStep` allows (take
the head, add a fresh message) and moves goroutines as `Progress` allows (never back);
these two facts, and not the actions, then give `OrderInv'`. The refinement has one
case per action: `WriterSend` is `RowStream`'s `Deliver` or, for a message of no
run, a stutter; `ReadQuery` and `PollQuery` are its `Ask`; everything else stutters.

The third section proves `GaplessOnASession` and `WholeFromFirstSession`, which order
does not give: nothing may be *missing*. A goroutine leaves its batches in the channel
one by one, so a hole can only be made by who takes from it. `WholeInv` says

* `ChannelWhole`: behind each batch in `outCh` are all later ones that its goroutine is
  through with;
* `SoleWriter`: unless a loop outlives a backoff (`overlap`), only the write loop of the
  latest session takes from the channel, and none while the next one is set up;
* `HandWhole`, `RestWhole`: what that loop holds follows the last frame on its connection,
  and if it holds none of the query, the rest is in the channel; for the session of the
  first batch (`first`), what it holds is the next batch in number. A loop that loses
  a message sends nothing more, so nothing is claimed of it;
* `JoinRefKnown`, `FramesKnown`: a `joinRef` and the connection of a frame belong to
  sessions that had loops, and no frame is older than the session of the first batch.

`SourceProofs` holds the proofs about what reads a data source: it extends `SyncEngine` and
`DbManager`, whose names are apart for that (`DbSpec`). Of `SyncEngine` it proves
`SyncedTables` and `RowsReported` for any number of jobs, tables, rows and ids and pages
of any size, and whatever the file had before.

* Pages: since rows are read in the order of their ids, what follows a cursor is an
  interval of rows, and a page is the beginning of it, all of it unless the page is
  full (`Paged`). So a short or an empty page means that nothing is left.
* `TypeInv` adds to `TypeOK` what a job has at each place (`Fits`): the page of a job that
  inserts is what a query at its cursor gives, and its Result is about tables before
  the present one. What each action makes of its record is a lemma (`Stays`, `Turned`,
  `Inserts`), and the steps of both invariants use these.
* `Lone`: a job marked `alone` is the only active one, and `Leaves` says what it has
  left. Each table counted is `Whole`, and their rows are the number reported. The present
  table is `Clean`: rows up to the cursor are there, or were lost and have the id of one
  that is, later ones are not, and `n` is the number of them. When a full page moves
  the cursor to the id of its last row, the rows it passes over have that id: these are
  the ones lost. Otherwise the page is all NULL and the job is `Stuck`: it inserts
  the page again and again, but never counts the table.

The rows reported are counted as a set (`Held`, the copies of each row) and not as a
sum over tables, since of a sum by recursion nothing can be proved here.

Of `DbManager` it proves, from `DbAssumption` alone (queriers and testers are not
the same goroutines), `CachedIsOpen`, `TestedAnew` and `LeaksBounded` for any number of
goroutines, drivers and failures. Two strengthenings are needed:

* `Marked`: from the moment `Reconnect` has emptied the map, any driver found in it
  is younger than that moment. `TestedAnew` follows when the driver is returned;
* `LeakInv`: a goroutine whose query has failed and which has not yet removed the
  driver of the map is still owed one leak: the connections outside the map and these
  goroutines together never exceed the failures and the aborted Connects. `LeaksBounded` alone is not
  inductive, because `Forget` adds a leak without a new failure.

A step of a goroutine only replaces its record (`Moved`), and `ConnMoved` and
`LeakMoved` say what of such a step the invariants need.

`SelfUpdateProofs` proves, for any goroutines at once, any releases and inodes, `Recoverable`
on Windows, `ExecutableWhole` on Unix, and the refinement `IsInstalled` for both. `UnixInv`
says why the executable is whole: entries point to different inodes (`Apart`); an inode
of the executable or of a download that was not staged by two at once is whole and
nobody has it open (`Sound`); and if the staged copy was not, a single goroutine is staging
it, which has it open while it copies, and past the copy it is whole (`StagedSound`). So
what a rename puts in the executable's place is whole or `contended`. `WindowsInv` says that
the executable or `.old` is whole, and which of them at each step of a goroutine. The
refinement takes for the program installed what a start finds, or what can be put back:
a rename maps to `Replace`, or to `Spoil` if the file is contended, as does what a second
goroutine then writes into it; everything else maps to `Download` or a stutter.

`TransportProofs` holds the proofs about the two ways to reach the cloud: it extends
`Reconnection` and `Poller`, whose names are apart for that (`PollerSpec`). It proves
`LostOnlyWhenCut` and `AckedIsOver` for any set of commands. The invariant `PolledInv` has
what is on its way: acknowledgements are of handled commands only, the commands of a batch
are distinct, those still to be handled were not acknowledged (`Over`), what was confirmed
is off the list, and whatever was handled is done, in a goroutine's hands or cut off, an
edit done at once (`Done`).

Of `Reconnection` it proves `GivesUpInTime` and `LoadBounded` for attempts and sessions
of any duration, and `NewConfigUsed` for any number of edits. `TimeInv` relates the
loop's measure to the time that has passed and bounds the sleep by delay and jitter;
`ConfigInv` follows which part of the configuration a session has read and whether a
Reconnect since then has cancelled its context. `LoadInv` has the delay as a function of
the attempts (`DelayAfter`), and that nothing has been attempted before the first failure.

`UpdaterProofs` proves, for any releases and any number of goroutines, `StatusHasTask`,
`ReadyFileExists`, `AppliedOnce` and `NeverDowngrades`. The invariant `UpdaterInv` adds to
the first three that a file is there only after its goroutine has downloaded it
(`Fresh`, so that no download overwrites a file in use) and that a ready file is not
being applied (`Unclaimed`). `Newer` says for `NeverDowngrades` that what is offered,
downloaded or applied is later than what runs. `Started` is for the types: a goroutine
marks the state as downloading whatever it has become, and finds a version in it.
Each step writes one record (`Records`, `Moved`), and is proved from the record it leaves.

`MonitorsProofs` proves `WatchdogBites` for any cloud, any number of data sources and any
time that a driver holds the lock. `Reported` bounds what the first report takes: the lock
once for each data source it has still to ask about. `Watched` then makes the property
inductive: `Urgent` keeps time from passing a tick of the watchdog, so that the age of the
last message exceeds the timeout by no more than what of the interval has passed; before
the first tick it is the report, in place of the timeout, that bounds it.

It also proves what relates the other two monitors to the cloud. `Checked` bounds the age
of the last reply by what the heartbeat loop has found at its last tick, or before the
first by the report. With it,
`NoFalseAlarm` holds for any cloud that replies within `pongTimeout` (`MaxDelay <=
pongTimeout`, which is what the property says of the cloud): `Replied` says which
heartbeat the last reply belongs to in each phase. For `SilenceIsNoticed`, `Silence`
adds up what the session has still to wait for, the first report included: for each command before it and for each
data source of the one at hand, the time that a driver may hold the lock. For
`MuteIsNoticed`, `Muteness` follows the last reply that the cloud had sent, unread,
or read in time for the heartbeat loop to find it too old. That theorem assumes that no
driver holds the lock if there are no data sources (`Sources = 0 => MaxHold = 0`), as it is
in the program; TLC finds the bound, which has no lag without data sources, exceeded in
an instance that has the one without the other.

`LogForwarderProofs` proves `EntriesConserved` and `NothingLeftBehind` for any number of
callers, loops and entries and any size of the buffer. The first counts in four sets at
once, which no step changes alone; `LogInv` therefore speaks of *places* (the buffer,
the hands of each goroutine, each full buffer): an entry that is in a place was logged,
is there once, in no other place, and was not pushed (`Once`), and one that is in no
place was pushed once or is not logged yet (`NoneLost`). A step moves the contents of
one place to an empty one (`MoveKeeps`), pushes those of one (`PushKeeps`), or adds a new
entry to the buffer (`LogKeeps`). `HandsEmpty` says why a place that takes the buffer is
empty. `NothingLeftBehind` is inductive by itself.

`ConfigStoreProofs` proves `SavedWhenQuiet` and `SavedAlone` for any number of goroutines,
data sources and edits. Its first section has what edits do to a list of data
sources: which element a search finds (`Found`), and that replacing, appending or
removing one leaves the first of every other name as it was (`Replaced`, `Appended`,
`Filtered`, `SameFirst`). Removal keeps a set of indices in their order; `Ranks` says that
ranks number such a set, so that nothing is proved by induction over the list.
`TypeInv` then adds to `TypeOK` at which step an edit of each kind may be and what it has
by then (`Fits`). Two invariants follow.

* `Written`, for `SavedWhenQuiet`: what a goroutine has encoded so far, field by field and
  element by element, is what the record has (`Reads`), or someone
  has changed the record since and has its `Save` still to come; so is the file,
  while nobody holds the lock. Both need that a change comes before its `Save` takes
  the lock and that the record is read under the lock.
* `AloneInv`, for `SavedAlone`. An edit that no other one of its part has overlapped has
  made `Progress`: no data source before the index of its search has the name, the one
  at the index is the first that has (`Foremost`), the slice it has read is still that of
  the record, its part of the record is what it wants from the assignment on, and so
  is that part of what it has encoded. `Withdrawn`: nothing is promised of a part
  that is being edited, nor of any data source while edits of their list overlap.
  `Apart`: two edits that disturb each other are not marked `alone`. `Kept`: what is
  promised holds of the record, of what is encoded and not yet written (`Encoded`), and of
  a complete file (`Stored`). An edit of another data source changes elements that the
  encoder has not read yet, or appends; only a deletion moves those that it has, and
  unless it removes one of them (`torn`) what was read is still the beginning of the
  list (`Beginning`, `KeptInFront`). Each kind of step has a lemma that says what it does to the parts of
  the record, and the steps of the proof use these lemmas.

It assumes that no data source has the name that the model gives to another part of
the record (`Names \cap {"cloud", "mode", "remote"} = {}`), which are labels of the model.

`TypeOK` is proved of each of these modules (`TypeCorrect`; `PolledTypes` for `Poller`'s
`PollerTypeOK`, `DbTypeCorrect` for `DbManager`'s `DbTypeOK`). It says more than types where
the code relies on more: in `SelfUpdate` a file is open for writing just while it is
copied, in `ConfigStore` the lock is held just from creating the file to the end of the
write, in `Poller` the batch has no command twice, in `Reconnection` a session has
read no version that does not exist, in `Monitors` no read outlives its deadline. That `outCh` holds no more than its capacity
is Go's doing, and in `Relay` a fact that the other proofs rest on.

Only model-checked: liveness (`RequestsFinish`, `SyncEnds`, `EntriesForwarded`,
`EveryCommandHandled`, `EditsReturn`), which is out of the prover's reach.

## 5. Not modelled

Pages and templates, translations, the tray, ODBC detection, row conversion and
character sets, the banner and port search: output or I/O without protocol state.
`QueryStream`, `Toggle`, `Dismiss`, `WithAttrs`, `WithGroup`, `SetBatchSize`, `UpdateSetting`
and `SubmitResult` have no caller. The comparison of version numbers and the coding
of frames as JSON arrays are functions without state, and no property depends on
their detail. Whether the cloud accepts a frame with an outdated `joinRef` is the
cloud's code. The Elixir predecessor is not built any more. Hazards that no property
covers are listed in `PROJECT.json` with the reason.

## 6. Plan

A composition of `Reconnection` with the editors of `ConfigStore`, in place of the
one editor it has, when the instances allow.
