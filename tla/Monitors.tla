------------------------------ MODULE Monitors ------------------------------
(***************************************************************************)
(* How a session with the cloud notices that it is dead                    *)
(* (internal/relay/relay.go): the read deadline, the heartbeat loop and    *)
(* the watchdog, in discrete time, from the join on.  The session reports  *)
(* its status before it starts the loops; then the read loop calls the     *)
(* handler, and the heartbeat loop the list of connections.  All three     *)
(* wait for the database manager's lock, held while a driver connects.     *)
(***************************************************************************)
EXTENDS Naturals, Sequences, SequencesExt

CONSTANTS
    Sources,       \* data sources that a report of the status asks about
    MaxDelay,      \* of the cloud's reply to a heartbeat, in units
    Holds,         \* times for which a driver may hold the lock, in units
    MaxHold,       \* the longest of them
    Failures,      \* of the cloud: it may become mute to heartbeats, or silent
    Messages,      \* that the cloud may send: commands that report, others
    MaxInbox       \* bound: messages that it sends ahead of the reader

\* The unit of time is 5 seconds.
heartbeatInterval == 6
pongTimeout == 2
readDeadline == 9
watchdogTimeout == 18
watchdogCheck == 3

ASSUME MonitorsAssumption ==
    /\ {Sources, MaxHold, MaxInbox} \subseteq Nat
    /\ Holds \subseteq 0..MaxHold /\ MaxHold \in Holds
    /\ Failures \subseteq {"mute", "silent"}
    /\ Messages \subseteq {"command", "other"}
    /\ MaxDelay \in 0..(heartbeatInterval - 1)

VARIABLES
    session,       \* "up", or which of the monitors has ended it
    peer,          \* the cloud: alive, mute to heartbeats, or silent
    gone,          \* time since it has ceased to be alive
    owed,          \* ages of the heartbeats it has not replied to
    inbox,         \* messages that have arrived and were not read
    asking,        \* data sources the report in hand has to ask about
    stage,         \* the first report; the loops run; the watchdog has looked
    reading,       \* time since the read began
    sincePong,     \* time.Since(lastPongAt)
    sinceMessage,  \* time.Since(lastMessageAt)
    pushing,       \* the heartbeat loop waits for the list of connections
    phase,         \* time since the loops began, modulo heartbeatInterval
    heartTick,     \* a tick waits in the heartbeat ticker's channel
    watchTick,     \* the same for the watchdog
    held,          \* 0, or one more than the time for which the lock is held
    hindered       \* a loop has waited for the lock (history)

reader == <<asking, reading, sincePong, sinceMessage>>
tickers == <<phase, heartTick, watchTick>>
clocks == <<stage, tickers>>
vars == <<session, peer, gone, owed, inbox, reader, pushing, clocks, held, hindered>>

TypeOK ==
    /\ session \in {"up", "read", "pong", "watchdog"}
    /\ peer \in {"alive", "mute", "silent"}
    /\ {gone, sincePong, sinceMessage} \subseteq Nat
    /\ owed \in Seq(Nat) /\ inbox \in Seq({"pong", "command", "other"})
    /\ stage \in {"report", "loops", "watched"}
    /\ asking \in 0..Sources /\ reading \in 0..readDeadline
    /\ sinceMessage <= sincePong
    /\ {pushing, heartTick, watchTick} \subseteq BOOLEAN
    /\ phase \in 0..(heartbeatInterval - 1)
    /\ held \in 0..(MaxHold + 1) /\ hindered \in BOOLEAN

\* runSession has joined, has stamped both clocks, and reports the status before
\* it starts the loops.
Init ==
    /\ session = "up" /\ peer = "alive" /\ gone = 0
    /\ owed = <<>> /\ inbox = <<>>
    /\ asking = Sources /\ stage = IF Sources > 0 THEN "report" ELSE "loops"
    /\ reading = 0 /\ sincePong = 0 /\ sinceMessage = 0
    /\ pushing = FALSE
    /\ phase = 0 /\ heartTick = FALSE /\ watchTick = FALSE
    /\ held = 0 /\ hindered = FALSE

Up == session = "up"

\* errCh: the first error ends the session.
End(reason) ==
    /\ session' = reason
    /\ UNCHANGED <<peer, gone, owed, inbox, reader, pushing, clocks, held, hindered>>

-----------------------------------------------------------------------------
(* The cloud.                                                              *)

Cease ==
    /\ Up /\ peer # "silent"
    /\ peer' \in Failures \ {peer}
    /\ gone' = 0
    /\ UNCHANGED <<session, owed, inbox, reader, pushing, clocks, held, hindered>>

Reply ==
    /\ Up /\ peer = "alive" /\ owed # <<>>
    /\ owed' = Tail(owed)
    /\ inbox' = Append(inbox, "pong")
    /\ UNCHANGED <<session, peer, gone, reader, pushing, clocks, held, hindered>>

\* A command whose handler reports the status, or any other message.
Say ==
    /\ Up /\ peer # "silent" /\ Len(inbox) < MaxInbox
    /\ \E m \in Messages : inbox' = Append(inbox, m)
    /\ UNCHANGED <<session, peer, gone, owed, reader, pushing, clocks, held, hindered>>

-----------------------------------------------------------------------------
(* readLoop.                                                               *)

\* Mutant: a reply to a heartbeat is not recorded.
Read_IgnoresPong ==
    /\ Up /\ asking = 0 /\ inbox # <<>>
    /\ inbox' = Tail(inbox)
    /\ reading' = 0 /\ sinceMessage' = 0
    /\ asking' = IF Head(inbox) = "command" THEN Sources ELSE 0
    /\ UNCHANGED <<session, peer, gone, owed, sincePong, pushing, clocks, held, hindered>>

\* Mutant: any message counts as a reply.
Read_AnyPong ==
    /\ Up /\ asking = 0 /\ inbox # <<>>
    /\ inbox' = Tail(inbox)
    /\ reading' = 0 /\ sinceMessage' = 0 /\ sincePong' = 0
    /\ asking' = IF Head(inbox) = "command" THEN Sources ELSE 0
    /\ UNCHANGED <<session, peer, gone, owed, pushing, clocks, held, hindered>>

Read ==
    /\ Up /\ asking = 0 /\ inbox # <<>>
    /\ inbox' = Tail(inbox)
    /\ reading' = 0 /\ sinceMessage' = 0
    /\ sincePong' = IF Head(inbox) = "pong" THEN 0 ELSE sincePong
    /\ asking' = IF Head(inbox) = "command" THEN Sources ELSE 0
    /\ UNCHANGED <<session, peer, gone, owed, pushing, clocks, held, hindered>>

\* reportStatus asks whether a data source is connected.  When the last is
\* asked, the read begins anew, or the loops begin.
Asked ==
    /\ asking' = asking - 1 /\ reading' = 0
    /\ stage' = IF stage = "report" /\ asking = 1 THEN "loops" ELSE stage

Ask ==
    /\ Up /\ asking > 0 /\ held = 0
    /\ Asked
    /\ UNCHANGED <<session, peer, gone, owed, inbox, sincePong, sinceMessage, pushing, tickers, held, hindered>>

ReadFails == Up /\ asking = 0 /\ inbox = <<>> /\ reading >= readDeadline /\ End("read")

-----------------------------------------------------------------------------
(* heartbeatLoop and watchdogLoop.                                         *)

Heartbeat ==
    /\ Up /\ heartTick /\ ~pushing /\ sincePong <= heartbeatInterval + pongTimeout
    /\ heartTick' = FALSE
    /\ owed' = IF peer = "alive" THEN Append(owed, 0) ELSE owed
    /\ pushing' = TRUE
    /\ UNCHANGED <<session, peer, gone, inbox, reader, stage, phase, watchTick, held, hindered>>

PongTimeout ==
    /\ Up /\ heartTick /\ ~pushing /\ sincePong > heartbeatInterval + pongTimeout
    /\ End("pong")

\* pushHeartbeat has the list of connections.
Pushed ==
    /\ Up /\ pushing /\ held = 0
    /\ pushing' = FALSE
    /\ UNCHANGED <<session, peer, gone, owed, inbox, reader, clocks, held, hindered>>

\* Mutant: the watchdog stands down while a message is handled.
Watch_WhenReading ==
    /\ Up /\ watchTick
    /\ \/ /\ sinceMessage <= watchdogTimeout \/ asking > 0
          /\ watchTick' = FALSE /\ stage' = "watched"
          /\ UNCHANGED <<session, peer, gone, owed, inbox, reader, pushing, phase, heartTick, held, hindered>>
       \/ sinceMessage > watchdogTimeout /\ asking = 0 /\ End("watchdog")

Watch ==
    /\ Up /\ watchTick
    /\ \/ /\ sinceMessage <= watchdogTimeout
          /\ watchTick' = FALSE /\ stage' = "watched"
          /\ UNCHANGED <<session, peer, gone, owed, inbox, reader, pushing, phase, heartTick, held, hindered>>
       \/ sinceMessage > watchdogTimeout /\ End("watchdog")

-----------------------------------------------------------------------------
(* The lock of the database manager, for a goroutine that connects.        *)

Lock ==
    /\ Up /\ held = 0 /\ MaxHold > 0
    /\ held' = 1
    /\ UNCHANGED <<session, peer, gone, owed, inbox, reader, pushing, clocks, hindered>>

\* Who has waited for the lock gets it before another writer.
Unlock ==
    /\ Up /\ held > 0 /\ held - 1 \in Holds
    /\ held' = 0
    /\ pushing' = FALSE
    /\ IF asking > 0 THEN Asked ELSE UNCHANGED <<asking, reading, stage>>
    /\ UNCHANGED <<session, peer, gone, owed, inbox, sincePong, sinceMessage, tickers, hindered>>

-----------------------------------------------------------------------------
\* What happens at once does so before time goes on.
Urgent ==
    \/ asking = 0 /\ (inbox # <<>> \/ reading >= readDeadline)
    \/ asking > 0 /\ held = 0
    \/ heartTick /\ ~pushing
    \/ pushing /\ held = 0
    \/ watchTick
    \/ held > MaxHold
    \/ peer = "alive" /\ owed # <<>> /\ Head(owed) >= MaxDelay

\* A tick that finds one waiting in the channel is dropped by it.
TickersRun ==
    /\ phase' = (phase + 1) % heartbeatInterval
    /\ heartTick' = (heartTick \/ phase' = 0)
    /\ watchTick' = (phase' % watchdogCheck = 0)

\* Mutant: writing a heartbeat extends the read deadline.
Tick_Extends ==
    /\ Up /\ ~Urgent
    /\ IF stage = "report" THEN UNCHANGED tickers ELSE TickersRun
    /\ sincePong' = sincePong + 1 /\ sinceMessage' = sinceMessage + 1
    /\ reading' = IF phase' = 0 THEN 0 ELSE IF asking = 0 THEN reading + 1 ELSE reading
    /\ held' = IF held = 0 THEN 0 ELSE held + 1
    /\ hindered' = (hindered \/ asking > 0 \/ (pushing /\ held >= heartbeatInterval))
    /\ gone' = IF peer = "alive" THEN 0 ELSE gone + 1
    /\ owed' = IF peer = "alive" THEN [i \in DOMAIN owed |-> owed[i] + 1] ELSE owed
    /\ UNCHANGED <<session, peer, inbox, asking, stage, pushing>>

\* The tickers run as the loops do.
Tick ==
    /\ Up /\ ~Urgent
    /\ IF stage = "report" THEN UNCHANGED tickers ELSE TickersRun
    /\ sincePong' = sincePong + 1 /\ sinceMessage' = sinceMessage + 1
    /\ reading' = IF asking = 0 THEN reading + 1 ELSE reading
    /\ held' = IF held = 0 THEN 0 ELSE held + 1
    /\ hindered' = (hindered \/ asking > 0 \/ (pushing /\ held >= heartbeatInterval))
    /\ gone' = IF peer = "alive" THEN 0 ELSE gone + 1
    /\ owed' = IF peer = "alive" THEN [i \in DOMAIN owed |-> owed[i] + 1] ELSE owed
    /\ UNCHANGED <<session, peer, inbox, asking, stage, pushing>>

Over == ~Up /\ UNCHANGED vars

Next ==
    \/ Cease \/ Reply \/ Say \/ Read \/ Ask \/ ReadFails \/ Heartbeat \/ PongTimeout
    \/ Pushed \/ Watch \/ Lock \/ Unlock \/ Tick \/ Over

Spec == Init /\ [][Next]_vars

-----------------------------------------------------------------------------
\* How long a report may take, which takes the lock once for each data source.
Report == Sources * MaxHold

\* How long the reader may lag once it has waited for the lock: commands that
\* wait for it, and the report at hand.
Lag == IF hindered THEN (MaxInbox + 1) * Report ELSE 0

\* relay.go:408: "Use a read deadline to detect half-open connections": a cloud
\* that falls silent is noticed when the deadline of a read has passed, however
\* long the heartbeat loop waits for the lock.
SilenceIsNoticed == Up /\ peer = "silent" => gone <= readDeadline + Lag

\* relay.go:447: the heartbeat loop "checks for pong timeouts": a cloud that
\* sends messages but no replies to heartbeats is noticed as well, by the third
\* heartbeat.
MuteIsNoticed == Up /\ peer = "mute" => gone <= 3 * heartbeatInterval + Lag

\* relay.go:482: the watchdog ends a session in which no message is read,
\* also when both the other loops are blocked; a session whose first report takes
\* longer than that, when it first looks.
WatchdogBites ==
    Up => sinceMessage <= watchdogCheck + (IF stage = "watched" THEN watchdogTimeout ELSE Report)

\* relay.go:447, relay.go:408: no session ends while the cloud replies to each
\* heartbeat within pongTimeout, unless a report had to wait for the lock, or the
\* heartbeat loop for as long as its interval.
NoFalseAlarm == peer = "alive" /\ ~hindered => session = "up"
=============================================================================
