-------------------------------- MODULE Relay --------------------------------
(***************************************************************************)
(* The connector's WebSocket relay (internal/relay/relay.go) together with *)
(* the query goroutines that push into it (cmd/pyrolis-connector/main.go). *)
(*                                                                         *)
(* One goroutine runs connectLoop, which runs one session after another.   *)
(* A session that has joined the channel starts a read, a write, a         *)
(* heartbeat and a watchdog loop; runSession returns as soon as one of     *)
(* them returns, cancels the session's context, closes its connection and  *)
(* does NOT wait for the other three.  Every session shares one bounded    *)
(* channel outCh, one joinRef and one r.cancel.  Query goroutines stamp a  *)
(* message with the joinRef they read and then send it on outCh, blocking  *)
(* for rows, dropping for everything else.                                 *)
(*                                                                         *)
(* The same request may reach the handler again: the poller hands over a   *)
(* command once more when its acknowledgement failed, and the cloud may    *)
(* send it on the WebSocket too.  Each time is another run of handleQuery, *)
(* another goroutine that executes the query and sends its rows under the  *)
(* same request id, which the code only copies into the messages.  Runs of *)
(* one request are therefore just several members of Runs.                 *)
(***************************************************************************)
EXTENDS Naturals, Sequences, FiniteSets

CONSTANTS
    Runs,          \* runs of handleQuery, one each time it is handed a request
    Batches,       \* row batches of a successful query, the last one "done"
    QueueCap,      \* capacity of outCh (100 in the code)
    SemCap,        \* capacity of querySem (3 in the code)
    MaxSessions,   \* bound: sessions that get as far as joining the channel
    NoRun          \* the run of a message that belongs to none

ASSUME RelayAssumption ==
    /\ Batches \in Nat \ {0}
    /\ QueueCap \in Nat \ {0}
    /\ SemCap \in Nat \ {0}
    /\ MaxSessions \in Nat
    /\ NoRun \notin Runs

VARIABLES
    loop,          \* where connectLoop and the runSession it calls stand
    status,        \* Relay.connectionStatus
    joined,        \* Relay.channelJoined
    failing,       \* connectLoop's firstFailureAt has been set
    session,       \* the session r.ctx and r.cancel belong to, 0 for nil
    cancelled,     \* sessions whose context is cancelled
    joinRef,       \* Relay.joinRef: the session that joined with it, 0 for ""
    outCh,         \* the buffered messages of Relay.outCh
    sendq,         \* messages of the goroutines blocked sending on outCh
    writer,        \* per session, its writeLoop
    inHand,        \* per session, the message its writeLoop is sending
    reader,        \* per session, its readLoop
    worker,        \* per run, the goroutine that it is
    delivered,     \* per run, the frames sent to the cloud (history)
    stopped,       \* the parent context is cancelled
    configured,    \* the shared configuration names a cloud and a connector
    overlap        \* a cancelled loop has outlived a backoff (history)

loopVars == <<loop, status, joined, failing>>
ctxVars  == <<session, cancelled>>
chanVars == <<outCh, sendq>>
ioVars   == <<writer, inHand, reader>>
dataVars == <<joinRef, chanVars, ioVars, worker, delivered>>
envVars  == <<stopped, configured, overlap>>
vars == <<loopVars, ctxVars, dataVars, envVars>>

Sessions == 1..(MaxSessions + 1)

\* batch 0 is the query_error of a run; a message of NoRun is a status,
\* heartbeat, pong or logs event.
Message == [run : Runs \cup {NoRun}, batch : 0..Batches, join : Sessions]
NoMsg == [run |-> NoRun, batch |-> 0, join |-> 0]

Note(j) == [run |-> NoRun, batch |-> 0, join |-> j]
Holding == {"query", "capture", "send", "blocked"}
InSession == {"dialing", "joining", "reporting", "running"}

TypeOK ==
    /\ loop \in {"init", "parked", "top", "build", "ready", "ended", "draining",
                 "backoff", "restarting", "exited"} \cup InSession
    /\ status \in {"stopped", "not_configured", "connecting", "connected",
                   "reconnecting"}
    /\ joined \in BOOLEAN
    /\ failing \in BOOLEAN
    /\ session \in 0..(MaxSessions + 1)
    /\ cancelled \in SUBSET Sessions
    /\ joinRef \in 0..MaxSessions
    /\ outCh \in Seq(Message) /\ Len(outCh) <= QueueCap
    /\ sendq \in Seq(Message)
    /\ writer \in [Sessions -> {"unborn", "idle", "busy", "exited"}]
    /\ inHand \in [Sessions -> Message \cup {NoMsg}]
    /\ reader \in [Sessions -> {"unborn", "idle", "closing", "exited"}]
    /\ worker \in [Runs -> [pc : {"none", "sem", "done"} \cup Holding,
                                batch : 0..Batches, join : 0..MaxSessions,
                                first : 0..MaxSessions]]
    /\ delivered \in [Runs -> Seq([conn : Sessions, batch : 0..Batches])]
    /\ stopped \in BOOLEAN
    /\ configured \in BOOLEAN
    /\ overlap \in BOOLEAN

Init ==
    /\ loop = "init" /\ status = "stopped" /\ joined = FALSE /\ failing = FALSE
    /\ session = 0 /\ cancelled = {} /\ joinRef = 0
    /\ outCh = <<>> /\ sendq = <<>>
    /\ writer = [s \in Sessions |-> "unborn"]
    /\ inHand = [s \in Sessions |-> NoMsg]
    /\ reader = [s \in Sessions |-> "unborn"]
    /\ worker = [r \in Runs |-> [pc |-> "none", batch |-> 0, join |-> 0,
                                  first |-> 0]]
    /\ delivered = [r \in Runs |-> <<>>]
    /\ stopped = FALSE
    /\ configured \in BOOLEAN /\ overlap = FALSE

-----------------------------------------------------------------------------
(* The channel outCh.  Go keeps goroutines blocked on a full channel in    *)
(* FIFO order and hands the first one's value over as the buffer shifts.   *)

Room == Len(outCh) < QueueCap

\* The batch a query goroutine turns to once its current one is dealt with.
NextBatch(w) ==
    IF w.batch \in {0, Batches} THEN [w EXCEPT !.pc = "done"]
    ELSE [w EXCEPT !.pc = "capture", !.batch = w.batch + 1]

\* select { case r.outCh <- m: default: }
TryPush(m) == outCh' = IF Room THEN Append(outCh, m) ELSE outCh

\* <-r.outCh, the head going to whoever calls it.
Receive ==
    /\ outCh # <<>>
    /\ IF sendq = <<>>
       THEN /\ outCh' = Tail(outCh)
            /\ UNCHANGED <<sendq, worker>>
       ELSE LET r == Head(sendq).run IN
            /\ outCh' = Append(Tail(outCh), Head(sendq))
            /\ sendq' = Tail(sendq)
            /\ worker' = [worker EXCEPT ![r] = NextBatch(worker[r])]

Done(s) == stopped \/ s \in cancelled

-----------------------------------------------------------------------------
(* connectLoop and runSession.                                             *)

\* Start: an unconfigured connector only waits for its context to end.
Start ==
    /\ loop = "init"
    /\ IF ~configured
       THEN loop' = "parked" /\ status' = "not_configured"
       ELSE loop' = "top" /\ UNCHANGED status
    /\ UNCHANGED <<joined, failing, ctxVars, dataVars, envVars>>

Unpark ==
    /\ loop = "parked" /\ stopped
    /\ loop' = "exited"
    /\ UNCHANGED <<status, joined, failing, ctxVars, dataVars, envVars>>

LoopTop ==
    /\ loop = "top"
    /\ IF stopped
       THEN loop' = "exited" /\ UNCHANGED <<status, joined>>
       ELSE loop' = "build" /\ status' = "connecting" /\ joined' = FALSE
    /\ UNCHANGED <<failing, ctxVars, dataVars, envVars>>

\* runSession builds the URL; an invalid one ends it before it has a context.
BuildURL ==
    /\ loop = "build"
    /\ loop' \in {"ready", "ended"}
    /\ UNCHANGED <<status, joined, failing, ctxVars, dataVars, envVars>>

\* A session in which no loop was started leaves nothing that refers to it,
\* so its number is used again: failed dials do not count against the bound.
NewSession ==
    /\ loop = "ready"
    /\ loop' = "dialing"
    /\ session' = IF session = 0 THEN 1
                  ELSE IF writer[session] = "unborn" THEN session
                  ELSE session + 1
    /\ cancelled' = cancelled \ {session'}
    /\ UNCHANGED <<status, joined, failing, dataVars, envVars>>

\* Dial may have succeeded just before its context was cancelled.
DialOk ==
    /\ loop = "dialing"
    /\ loop' = "joining"
    /\ status' = "connected"
    /\ UNCHANGED <<joined, failing, ctxVars, dataVars, envVars>>

\* The dial, the join message or the wait for its reply fails, or the reply
\* is a rejection: the deferred cancel runs.
SessionFails ==
    /\ loop \in {"dialing", "joining"}
    /\ loop' = "ended"
    /\ cancelled' = cancelled \cup {session}
    /\ UNCHANGED <<status, joined, failing, session, dataVars, envVars>>

\* The reply accepts the join.  MaxSessions bounds how often that happens.
JoinOk ==
    /\ loop = "joining" /\ session <= MaxSessions
    /\ loop' = "reporting"
    /\ joinRef' = session
    /\ joined' = TRUE
    /\ UNCHANGED <<status, failing, ctxVars, chanVars, ioVars, worker,
                   delivered, envVars>>

\* reportStatus, then the four loops.
StartLoops ==
    /\ loop = "reporting"
    /\ loop' = "running"
    /\ TryPush(Note(joinRef))
    /\ writer' = [writer EXCEPT ![session] = "idle"]
    /\ reader' = [reader EXCEPT ![session] = "idle"]
    /\ UNCHANGED <<status, joined, failing, ctxVars, joinRef, sendq, inHand,
                   worker, delivered, envVars>>

\* Mutant: runSession returns without cancelling its context.
EndSession_NoCancel ==
    /\ loop = "running"
    /\ loop' = "ended"
    /\ UNCHANGED <<status, joined, failing, ctxVars, dataVars, envVars>>

EndSession ==
    /\ loop = "running"
    /\ loop' = "ended"
    /\ cancelled' = cancelled \cup {session}
    /\ UNCHANGED <<status, joined, failing, session, dataVars, envVars>>

\* runSession receives the first error of its four loops; the heartbeat and
\* watchdog loops return when the context ends ...
LoopReturned ==
    /\ EndSession
    /\ \/ writer[session] = "exited"
       \/ reader[session] = "exited"
       \/ Done(session)

\* ... and when a pong, a heartbeat write or any message is overdue.
MonitorTrips == EndSession

\* Mutant: connectLoop leaves channelJoined as it is when it reconnects.
AfterSession_KeepJoined ==
    /\ loop = "ended" /\ ~stopped
    /\ failing' = TRUE
    /\ loop' = "draining"
    /\ status' = "reconnecting"
    /\ UNCHANGED <<joined, ctxVars, dataVars, envVars>>

\* connectLoop after runSession, whose error is never nil: the failure time
\* is set once and never cleared, so any later failure may find it too old.
AfterSession ==
    /\ loop = "ended"
    /\ failing' = TRUE
    /\ IF stopped
       THEN loop' = "exited" /\ UNCHANGED <<status, joined>>
       ELSE \/ /\ failing
               /\ loop' = "restarting"
               /\ UNCHANGED <<status, joined>>
            \/ /\ loop' = "draining"
               /\ status' = "reconnecting"
               /\ joined' = FALSE
    /\ UNCHANGED <<ctxVars, dataVars, envVars>>

DrainOne ==
    /\ loop = "draining"
    /\ Receive
    /\ UNCHANGED <<loopVars, ctxVars, joinRef, ioVars, delivered, envVars>>

\* Mutant: nothing is drained between two sessions.
DrainDone_NoDrain ==
    /\ loop = "draining"
    /\ loop' = "backoff"
    /\ UNCHANGED <<status, joined, failing, ctxVars, dataVars, envVars>>

DrainDone ==
    /\ loop = "draining" /\ outCh = <<>>
    /\ loop' = "backoff"
    /\ UNCHANGED <<status, joined, failing, ctxVars, dataVars, envVars>>

\* The shortest backoff is 750 ms: ample time for the loops of an ended
\* session to notice their cancelled context, but nothing waits for them.
Backoff ==
    /\ loop = "backoff"
    /\ overlap' = (\/ overlap
                   \/ \E s \in Sessions : \/ writer[s] \in {"idle", "busy"}
                                          \/ reader[s] \in {"idle", "closing"})
    /\ loop' = IF stopped THEN "exited" ELSE "top"
    /\ UNCHANGED <<status, joined, failing, ctxVars, dataVars, stopped,
                   configured>>

-----------------------------------------------------------------------------
(* The write and the read loop of session s.  conn.Close runs as runSession *)
(* returns, so a frame can only leave on the connection of a running one.   *)

ConnOpen(s) == loop = "running" /\ session = s

\* Go's select takes either ready case, a cancelled context notwithstanding.
WriterTake(s) ==
    /\ writer[s] = "idle"
    /\ Receive
    /\ writer' = [writer EXCEPT ![s] = "busy"]
    /\ inHand' = [inHand EXCEPT ![s] = Head(outCh)]
    /\ UNCHANGED <<loopVars, ctxVars, joinRef, reader, delivered, envVars>>

\* Mutant: the connection of a session that has ended is left open, so that
\* a write in progress can still succeed.
WriterSend_NoClose(s) ==
    /\ writer[s] = "busy"
    /\ writer' = [writer EXCEPT ![s] = "idle"]
    /\ inHand' = [inHand EXCEPT ![s] = NoMsg]
    /\ LET m == inHand[s] IN
       delivered' = IF m.run = NoRun THEN delivered
                    ELSE [delivered EXCEPT ![m.run] =
                            Append(@, [conn |-> s, batch |-> m.batch])]
    /\ UNCHANGED <<loopVars, ctxVars, joinRef, chanVars, reader, worker,
                   envVars>>

WriterSend(s) ==
    /\ writer[s] = "busy" /\ ConnOpen(s)
    /\ writer' = [writer EXCEPT ![s] = "idle"]
    /\ inHand' = [inHand EXCEPT ![s] = NoMsg]
    /\ LET m == inHand[s] IN
       delivered' = IF m.run = NoRun THEN delivered
                    ELSE [delivered EXCEPT ![m.run] =
                            Append(@, [conn |-> s, batch |-> m.batch])]
    /\ UNCHANGED <<loopVars, ctxVars, joinRef, chanVars, reader, worker,
                   envVars>>

\* Mutant: a message that could not be written is queued again.
WriterFail_Requeue(s) ==
    /\ writer[s] = "busy"
    /\ writer' = [writer EXCEPT ![s] = "exited"]
    /\ inHand' = [inHand EXCEPT ![s] = NoMsg]
    /\ TryPush(inHand[s])
    /\ UNCHANGED <<loopVars, ctxVars, joinRef, sendq, reader, worker,
                   delivered, envVars>>

\* The write fails or times out: its message is gone with the loop.
WriterFail(s) ==
    /\ writer[s] = "busy"
    /\ writer' = [writer EXCEPT ![s] = "exited"]
    /\ inHand' = [inHand EXCEPT ![s] = NoMsg]
    /\ UNCHANGED <<loopVars, ctxVars, joinRef, chanVars, reader, worker,
                   delivered, envVars>>

WriterExit(s) ==
    /\ writer[s] = "idle" /\ Done(s)
    /\ writer' = [writer EXCEPT ![s] = "exited"]
    /\ UNCHANGED <<loopVars, ctxVars, joinRef, chanVars, inHand, reader,
                   worker, delivered, envVars>>

\* A query frame starts a run of handleQuery.
ReadQuery(s, r) ==
    /\ reader[s] = "idle" /\ ConnOpen(s)
    /\ worker[r].pc = "none"
    /\ worker' = [worker EXCEPT ![r].pc = "sem"]
    /\ UNCHANGED <<loopVars, ctxVars, joinRef, chanVars, ioVars, delivered,
                   envVars>>

\* A phx_error or phx_close frame has been read but not yet handled.
ReadClose(s) ==
    /\ reader[s] = "idle" /\ ConnOpen(s)
    /\ reader' = [reader EXCEPT ![s] = "closing"]
    /\ UNCHANGED <<loopVars, ctxVars, joinRef, chanVars, writer, inHand,
                   worker, delivered, envVars>>

\* handleMessage cancels whatever session r.cancel belongs to by then.
HandleClose(s) ==
    /\ reader[s] = "closing"
    /\ reader' = [reader EXCEPT ![s] = "idle"]
    /\ joined' = FALSE
    /\ cancelled' = cancelled \cup {session}
    /\ UNCHANGED <<loop, status, failing, session, joinRef, chanVars, writer,
                   inHand, worker, delivered, envVars>>

\* The read fails, its 45 s deadline passes or its context ends.
ReadFail(s) ==
    /\ reader[s] = "idle"
    /\ reader' = [reader EXCEPT ![s] = "exited"]
    /\ UNCHANGED <<loopVars, ctxVars, joinRef, chanVars, writer, inHand,
                   worker, delivered, envVars>>

-----------------------------------------------------------------------------
(* handleQuery, StreamRows, PushBlocking and Push.                          *)

\* The HTTP poller passes a query command to the same handler, a command whose
\* acknowledgement failed with every poll anew: another run each time.
PollQuery(r) ==
    /\ configured /\ ~stopped
    /\ worker[r].pc = "none"
    /\ worker' = [worker EXCEPT ![r].pc = "sem"]
    /\ UNCHANGED <<loopVars, ctxVars, joinRef, chanVars, ioVars, delivered,
                   envVars>>

Acquire(r) ==
    /\ worker[r].pc = "sem"
    /\ Cardinality({q \in Runs : worker[q].pc \in Holding}) < SemCap
    /\ worker' = [worker EXCEPT ![r].pc = "query"]
    /\ UNCHANGED <<loopVars, ctxVars, joinRef, chanVars, ioVars, delivered,
                   envVars>>

\* dbMgr.Query returns rows (first batch 1) or an error (batch 0).
QueryReturns(r) ==
    /\ worker[r].pc = "query"
    /\ \E b \in {0, 1} :
         worker' = [worker EXCEPT ![r].pc = "capture", ![r].batch = b]
    /\ UNCHANGED <<loopVars, ctxVars, joinRef, chanVars, ioVars, delivered,
                   envVars>>

\* The joinRef is read under the lock; before the first join the message is
\* dropped without a trace.  "first" only remembers the joinRef of batch 1.
Stamp(w) == [w EXCEPT !.pc = "send", !.join = joinRef,
                      !.first = IF w.batch = 1 THEN joinRef ELSE w.first]

Capture(r) ==
    /\ worker[r].pc = "capture"
    /\ worker' = [worker EXCEPT ![r] =
                    IF joinRef = 0 THEN NextBatch(@) ELSE Stamp(@)]
    /\ UNCHANGED <<loopVars, ctxVars, joinRef, chanVars, ioVars, delivered,
                   envVars>>

Msg(r) == [run |-> r, batch |-> worker[r].batch, join |-> worker[r].join]

\* Mutant: rows are pushed like everything else, dropped when there is no room.
SendRows_Drop(r) ==
    /\ worker[r].pc = "send" /\ worker[r].batch # 0
    /\ TryPush(Msg(r))
    /\ worker' = [worker EXCEPT ![r] = NextBatch(@)]
    /\ UNCHANGED <<loopVars, ctxVars, joinRef, sendq, ioVars, delivered,
                   envVars>>

\* PushBlocking: r.outCh <- msg, parked behind the earlier senders when full.
SendRows(r) ==
    /\ worker[r].pc = "send" /\ worker[r].batch # 0
    /\ IF Room
       THEN /\ outCh' = Append(outCh, Msg(r))
            /\ worker' = [worker EXCEPT ![r] = NextBatch(@)]
            /\ UNCHANGED sendq
       ELSE /\ sendq' = Append(sendq, Msg(r))
            /\ worker' = [worker EXCEPT ![r].pc = "blocked"]
            /\ UNCHANGED outCh
    /\ UNCHANGED <<loopVars, ctxVars, joinRef, ioVars, delivered, envVars>>

\* Push: the query_error is dropped when the channel is full.
SendError(r) ==
    /\ worker[r].pc = "send" /\ worker[r].batch = 0
    /\ TryPush(Msg(r))
    /\ worker' = [worker EXCEPT ![r] = NextBatch(@)]
    /\ UNCHANGED <<loopVars, ctxVars, joinRef, sendq, ioVars, delivered,
                   envVars>>

\* A heartbeat, pong, status or logs event.
PushNote ==
    /\ joinRef # 0
    /\ TryPush(Note(joinRef))
    /\ UNCHANGED <<loopVars, ctxVars, joinRef, sendq, ioVars, worker,
                   delivered, envVars>>

-----------------------------------------------------------------------------
(* The web interface and the service manager.                               *)

\* handleSetupSave and handlePair change the shared configuration in place,
\* save it and call Reconnect, the r.cancel() of the latest session, if any;
\* handleSetupSave returns before that when it cannot save.
SaveConfig ==
    /\ configured' \in BOOLEAN
    /\ cancelled' \in {cancelled, cancelled \cup ({session} \ {0})}
    /\ UNCHANGED <<loopVars, session, dataVars, stopped, overlap>>

Stop ==
    /\ ~stopped
    /\ stopped' = TRUE
    /\ UNCHANGED <<loopVars, ctxVars, dataVars, configured, overlap>>

\* connectLoop has returned: the process ends.
Ended == loop \in {"exited", "restarting"} /\ UNCHANGED vars

-----------------------------------------------------------------------------
LoopStep == \/ Start \/ Unpark \/ LoopTop \/ BuildURL \/ NewSession \/ DialOk
            \/ SessionFails \/ JoinOk \/ StartLoops \/ LoopReturned
            \/ AfterSession \/ DrainOne \/ DrainDone \/ Backoff
WriterStep(s) == WriterTake(s) \/ WriterSend(s) \/ WriterFail(s) \/ WriterExit(s)
ReaderStep(s) == \/ \E r \in Runs : ReadQuery(s, r)
                 \/ ReadClose(s) \/ HandleClose(s) \/ ReadFail(s)
WorkerStep(r) == \/ Acquire(r) \/ QueryReturns(r) \/ Capture(r)
                 \/ SendRows(r) \/ SendError(r)

Next ==
    \/ LoopStep
    \/ MonitorTrips
    \/ \E s \in Sessions : WriterStep(s) \/ ReaderStep(s)
    \/ \E r \in Runs : PollQuery(r) \/ WorkerStep(r)
    \/ PushNote \/ SaveConfig \/ Stop \/ Ended

Spec == Init /\ [][Next]_vars

(* Goroutines that can run do run.  Every network call of a session ends:   *)
(* writes and the join reply have deadlines (10 s), dials end with the      *)
(* transport's timeouts, a cancelled read returns at once.  Nothing obliges *)
(* the cloud to send frames, the monitors to trip, or a user to act.        *)
Fairness ==
    /\ WF_vars(LoopStep)
    /\ \A s \in Sessions : /\ WF_vars(WriterStep(s))
                           /\ WF_vars(HandleClose(s))
                           /\ WF_vars(Done(s) /\ ReadFail(s))
    /\ \A r \in Runs : WF_vars(WorkerStep(r))

FairSpec == Spec /\ Fairness

-----------------------------------------------------------------------------
(* Safety.                                                                  *)

\* At most one session has a context that is not cancelled, and only while
\* runSession is working for it: no exit of runSession, no Reconnect and no
\* late phx_error leaves an earlier session able to go on.
OneLiveSession ==
    \A s \in 1..session : s \notin cancelled => s = session /\ loop \in InSession

\* What handleHealth reports as healthy is a session that has joined with the
\* current joinRef and whose connection is open, or whose end connectLoop has
\* not looked at yet; only a process about to end keeps the flag for longer.
\* And a session that runs is reported, whichever read loop of an earlier one
\* still clears the flag: unless that cancelled it too.
HealthTruthful ==
    /\ joined => /\ status = "connected"
                 /\ joinRef = session
                 /\ loop \in {"reporting", "running", "ended", "restarting", "exited"}
    /\ loop \in {"reporting", "running"} /\ session \notin cancelled => joined

\* Whatever is drained, lost with a writer or sent by several sessions: the
\* batches of each run of a query reach the cloud in order and none twice,
\* never on an older connection than an earlier batch, none after an error.
RowsInOrder ==
    \A r \in Runs : \A i, j \in DOMAIN delivered[r] :
        i < j => LET a == delivered[r][i]
                     b == delivered[r][j]
                 IN  a.batch < b.batch /\ a.conn <= b.conn /\ a.batch # 0

\* Seen from the cloud, the relay is a RowStream: every frame belongs to a run
\* that was asked for, comes on the latest connection that carries rows of any
\* run, and continues the stream of its run; a request that is handed over
\* several times has as many streams.
Rows == INSTANCE RowStream
        WITH Conns <- Sessions, asked <- {r \in Runs : worker[r].pc # "none"}
IsRowStream == Rows!Spec

\* While cancelled loops end within the backoff, a connection carries the
\* batches of a run without a hole: only a change of session can lose rows.
GaplessOnASession ==
    ~overlap =>
        \A r \in Runs : \A i \in DOMAIN delivered[r] :
            i > 1 => LET a == delivered[r][i - 1]
                         b == delivered[r][i]
                     IN  a.conn = b.conn => b.batch = a.batch + 1

\* ... and none is lost at the start: what reaches the cloud on the session
\* under which the first batch was pushed are batches 1, 2, 3, ...
WholeFromFirstSession ==
    ~overlap =>
        \A r \in Runs : \A i \in DOMAIN delivered[r] :
            delivered[r][i].conn = worker[r].first => delivered[r][i].batch = i

-----------------------------------------------------------------------------
(* Liveness.                                                                *)

\* No query goroutine is stuck: waiting for the semaphore or blocked on a full
\* outCh, it ends, be the cloud reachable or not, unless the relay has ended.
\* This is what the drain between two sessions is needed for.
RequestsFinish ==
    \A r \in Runs :
        worker[r].pc # "none" ~> \/ worker[r].pc = "done"
                                 \/ loop \in {"exited", "restarting"}

-----------------------------------------------------------------------------
(* A claim of the code's comments that the code does not keep.              *)

\* relay.go:139: an unconfigured relay waits "for context cancellation or
\* config change": once configured, it does not stay parked.
ConfigChangeIsNoticed ==
    loop = "parked" /\ configured ~> loop # "parked" \/ ~configured
=============================================================================
