--------------------------- MODULE MonitorsProofs ---------------------------
(***************************************************************************)
(* Theorems about Monitors, for any number of data sources, any delays of  *)
(* the cloud and of a driver, and a cloud that sends anything.             *)
(***************************************************************************)
EXTENDS Monitors, TLAPS

USE DEF heartbeatInterval, pongTimeout, readDeadline, watchdogTimeout, watchdogCheck

-----------------------------------------------------------------------------
(* Types.                                                                  *)

Inboxes == Seq({"pong", "command", "other"})

\* A tick makes every heartbeat that is owed a reply one unit older.
LEMMA Older == ASSUME owed \in Seq(Nat) PROVE [i \in DOMAIN owed |-> owed[i] + 1] \in Seq(Nat)
  OBVIOUS

\* The flags are Boolean after a tick.
LEMMA TickFlags ==
    ASSUME {pushing, heartTick, watchTick} \subseteq BOOLEAN, hindered \in BOOLEAN, Tick
    PROVE  {pushing, heartTick, watchTick}' \subseteq BOOLEAN /\ hindered' \in BOOLEAN
<1>1. heartTick' \in BOOLEAN
  BY Zenon DEF Tick, TickersRun, tickers
<1>2. watchTick' \in BOOLEAN
  BY Zenon DEF Tick, TickersRun, tickers
<1>3. pushing' \in BOOLEAN
  BY Zenon DEF Tick
<1>4. hindered' \in BOOLEAN
  BY Zenon DEF Tick
<1> QED
  BY <1>1, <1>2, <1>3, <1>4, Zenon

\* Every step of the cloud, of a loop and of the clock keeps the types.
LEMMA TypeStep == ASSUME MonitorsAssumption, TypeOK, [Next]_vars PROVE TypeOK'
<1> USE DEF TypeOK, MonitorsAssumption
<1>1. CASE UNCHANGED vars
  BY <1>1 DEF vars, reader, clocks, tickers
<1>2. ASSUME NEW r \in {"read", "pong", "watchdog"}, End(r) PROVE TypeOK'
  BY <1>2 DEF End, reader, clocks, tickers
<1>3. CASE Cease
  BY <1>3 DEF Cease, reader, clocks, tickers
<1>4. CASE Reply
  BY <1>4 DEF Reply, reader, clocks, tickers
<1>5. CASE Say
  <2>1. inbox' \in Inboxes
    BY <1>5 DEF Say, Inboxes
  <2> QED
    BY <1>5, <2>1 DEF Say, Inboxes, reader, clocks, tickers
<1>6. CASE Read
  BY <1>6 DEF Read, clocks, tickers
<1>7. CASE Ask
  BY <1>7 DEF Ask, Asked, clocks, tickers
<1>8. CASE ReadFails
  BY <1>2, <1>8 DEF ReadFails
<1>9. CASE Heartbeat
  <2>1. {pushing, heartTick, watchTick}' \subseteq BOOLEAN
    BY <1>9, Zenon DEF Heartbeat
  <2>2. owed' \in Seq(Nat)
    BY <1>9 DEF Heartbeat
  <2> QED
    BY <1>9, <2>1, <2>2 DEF Heartbeat, reader
<1>10. CASE PongTimeout
  BY <1>2, <1>10 DEF PongTimeout
<1>11. CASE Pushed
  <2>1. {pushing, heartTick, watchTick}' \subseteq BOOLEAN
    BY <1>11, Zenon DEF Pushed, clocks, tickers
  <2> QED
    BY <1>11, <2>1 DEF Pushed, reader, clocks, tickers
<1>12. CASE Watch
  <2>1. CASE sinceMessage > watchdogTimeout /\ End("watchdog")
    BY <1>2, <2>1
  <2>2. CASE ~(sinceMessage > watchdogTimeout /\ End("watchdog"))
    <3>1. {pushing, heartTick, watchTick}' \subseteq BOOLEAN
      BY <1>12, <2>2, Zenon DEF Watch
    <3> QED
      BY <1>12, <2>2, <3>1 DEF Watch, reader
  <2> QED
    BY <2>1, <2>2
<1>13. CASE Lock
  BY <1>13 DEF Lock, reader, clocks, tickers
<1>14. CASE Unlock
  <2>1. {pushing, heartTick, watchTick}' \subseteq BOOLEAN
    BY <1>14, Zenon DEF Unlock, Asked, clocks, tickers
  <2>2. /\ asking' \in 0..Sources /\ reading' \in 0..readDeadline
        /\ stage' \in {"report", "loops", "watched"}
    BY <1>14 DEF Unlock, Asked
  <2>3. held' = 0 /\ UNCHANGED <<session, peer, gone, owed, inbox, sincePong, sinceMessage, phase, hindered>>
    BY <1>14 DEF Unlock, tickers
  <2> QED
    BY <2>1, <2>2, <2>3
<1>15. CASE Tick
  <2>1. {pushing, heartTick, watchTick}' \subseteq BOOLEAN /\ hindered' \in BOOLEAN
    BY <1>15, TickFlags
  <2>2. owed' \in Seq(Nat)
    BY <1>15, Older DEF Tick
  <2>3. /\ reading' = IF asking = 0 THEN reading + 1 ELSE reading
        /\ held' = IF held = 0 THEN 0 ELSE held + 1
        /\ phase' = phase \/ phase' = (phase + 1) % heartbeatInterval
        /\ sincePong' = sincePong + 1 /\ sinceMessage' = sinceMessage + 1
        /\ gone' = IF peer = "alive" THEN 0 ELSE gone + 1
        /\ UNCHANGED <<session, peer, inbox, asking, stage>>
    BY <1>15, Zenon DEF Tick, TickersRun, tickers
  <2>4. ~(asking = 0 /\ reading >= readDeadline) /\ ~(held > MaxHold)
    BY <1>15, Zenon DEF Tick, Urgent
  <2>5. reading' \in 0..readDeadline /\ held' \in 0..(MaxHold + 1)
    BY <2>3, <2>4
  <2>6. phase' \in 0..(heartbeatInterval - 1)
    <3>1. (phase + 1) % heartbeatInterval \in 0..(heartbeatInterval - 1)
      OBVIOUS
    <3> QED
      BY <2>3, <3>1
  <2>7. {gone, sincePong, sinceMessage}' \subseteq Nat /\ sinceMessage' <= sincePong'
    BY <2>3
  <2> QED
    BY <2>1, <2>2, <2>3, <2>5, <2>6, <2>7
<1>16. CASE Over
  BY <1>1, <1>16 DEF Over
<1> QED
  BY <1>1, <1>3, <1>4, <1>5, <1>6, <1>7, <1>8, <1>9, <1>10, <1>11, <1>12, <1>13, <1>14, <1>15, <1>16
     DEF Next

\* The types hold when the connector has joined.
LEMMA TypeInit == ASSUME MonitorsAssumption PROVE Init => TypeOK
<1> SUFFICES ASSUME Init PROVE TypeOK
  OBVIOUS
<1>1. {pushing, heartTick, watchTick} \subseteq BOOLEAN /\ hindered \in BOOLEAN
  BY Zenon DEF Init
<1> QED
  BY <1>1 DEF Init, TypeOK, MonitorsAssumption

\* Clocks, ages and messages have their types; a message is no older than the
\* last reply, which is one, and the deadline of a read is not missed.
THEOREM TypeCorrect == ASSUME MonitorsAssumption PROVE Spec => []TypeOK
  BY TypeInit, TypeStep, PTL DEF Spec

-----------------------------------------------------------------------------
(* Time.                                                                   *)

\* The phases of the heartbeats at which the watchdog's interval is over.
LEMMA Phases == \A p \in 0..5 : /\ (p + 1) % 6 = IF p = 5 THEN 0 ELSE p + 1
                                /\ p % 3 = 0 <=> p \in {0, 3}
<1> SUFFICES ASSUME NEW p \in 0..5
             PROVE  /\ (p + 1) % 6 = IF p = 5 THEN 0 ELSE p + 1
                    /\ p % 3 = 0 <=> p \in {0, 3}
  OBVIOUS
<1>1. p = 0 \/ p = 1 \/ p = 2 \/ p = 3 \/ p = 4 \/ p = 5
  OBVIOUS
<1>2. CASE p = 0
  BY <1>2
<1>3. CASE p = 1
  BY <1>3
<1>4. CASE p = 2
  BY <1>4
<1>5. CASE p = 3
  BY <1>5
<1>6. CASE p = 4
  BY <1>6
<1>7. CASE p = 5
  BY <1>7
<1> QED
  BY <1>1, <1>2, <1>3, <1>4, <1>5, <1>6, <1>7

\* What a unit of time changes, and what must have happened before it.
LEMMA TickEffect ==
    ASSUME TypeOK, Tick
    PROVE  /\ Up /\ session' = session
           /\ UNCHANGED <<peer, inbox, asking, stage, pushing>>
           /\ stage = "report" => UNCHANGED tickers
           /\ stage # "report" =>
                 /\ phase' = IF phase = 5 THEN 0 ELSE phase + 1
                 /\ heartTick' <=> (heartTick \/ phase' = 0)
                 /\ watchTick' <=> phase' \in {0, 3}
                 /\ ~watchTick
           /\ sincePong' = sincePong + 1 /\ sinceMessage' = sinceMessage + 1
           /\ reading' = IF asking = 0 THEN reading + 1 ELSE reading
           /\ held' = IF held = 0 THEN 0 ELSE held + 1
           /\ hindered' <=> (hindered \/ asking > 0 \/ (pushing /\ held >= heartbeatInterval))
           /\ gone' = IF peer = "alive" THEN 0 ELSE gone + 1
           /\ owed' = IF peer = "alive" THEN [i \in DOMAIN owed |-> owed[i] + 1] ELSE owed
           /\ asking = 0 => inbox = <<>> /\ ~(reading >= readDeadline)
           /\ asking > 0 => held # 0
           /\ heartTick => pushing
           /\ pushing => held # 0
           /\ ~(held > MaxHold)
           /\ peer = "alive" /\ owed # <<>> => ~(Head(owed) >= MaxDelay)
<1>1. stage = "report" => UNCHANGED tickers
  BY Zenon DEF Tick
<1>2. ASSUME stage # "report"
      PROVE  /\ phase' = IF phase = 5 THEN 0 ELSE phase + 1
             /\ heartTick' <=> (heartTick \/ phase' = 0)
             /\ watchTick' <=> phase' \in {0, 3}
             /\ ~watchTick
  <2>1. TickersRun /\ ~watchTick
    BY <1>2, Zenon DEF Tick, Urgent
  <2>2. /\ phase' = (phase + 1) % 6 /\ (heartTick' <=> (heartTick \/ phase' = 0))
        /\ (watchTick' <=> phase' % 3 = 0)
    BY <2>1, Zenon DEF TickersRun
  <2>3. phase \in 0..5
    BY DEF TypeOK
  <2>4. phase' = IF phase = 5 THEN 0 ELSE phase + 1
    BY <2>2, <2>3, Phases, Zenon
  <2>5. phase' \in 0..5
    BY <2>3, <2>4
  <2>6. watchTick' <=> phase' \in {0, 3}
    BY <2>2, <2>5, Phases, Zenon
  <2> QED
    BY <2>1, <2>2, <2>4, <2>6, Zenon
<1>5. hindered' <=> (hindered \/ asking > 0 \/ (pushing /\ held >= heartbeatInterval))
  BY Zenon DEF Tick
<1>6. /\ Up /\ session' = session
      /\ UNCHANGED <<peer, inbox, asking, stage, pushing>>
      /\ sincePong' = sincePong + 1 /\ sinceMessage' = sinceMessage + 1
      /\ reading' = IF asking = 0 THEN reading + 1 ELSE reading
      /\ held' = IF held = 0 THEN 0 ELSE held + 1
      /\ gone' = IF peer = "alive" THEN 0 ELSE gone + 1
      /\ owed' = IF peer = "alive" THEN [i \in DOMAIN owed |-> owed[i] + 1] ELSE owed
  BY Zenon DEF Tick
<1>7. /\ asking = 0 => inbox = <<>> /\ ~(reading >= readDeadline)
      /\ asking > 0 => held # 0
      /\ heartTick => pushing
      /\ pushing => held # 0
      /\ ~(held > MaxHold)
      /\ peer = "alive" /\ owed # <<>> => ~(Head(owed) >= MaxDelay)
  BY Zenon DEF Tick, Urgent
<1> QED
  BY <1>1, <1>2, <1>5, <1>6, <1>7, Zenon

-----------------------------------------------------------------------------
(* A report, and the commands that wait for the reader.                    *)

\* How long the handler may have to wait for the lock that it asks for a times
\* still, when it has been held for h - 1 units, or is free.
Waits(a, h) ==
    IF a = 0 THEN 0
    ELSE IF h = 0 THEN a * MaxHold
    ELSE (a - 1) * MaxHold + (MaxHold + 1 - h)

\* And what the lag comes to.
Costs(n) == n * Report
Most == (MaxInbox + 1) * Report
Rest(n) == Waits(asking, held) + Costs(n)

\* The waiting of one handler.
LEMMA Waiting ==
    ASSUME MonitorsAssumption, NEW a \in Nat, NEW h \in 0..(MaxHold + 1)
    PROVE  /\ Waits(a, h) \in Nat /\ Waits(a, h) <= a * MaxHold
           /\ Waits(a, 1) = Waits(a, 0)
           /\ Waits(0, h) = 0
           /\ a > 0 => Waits(a - 1, 0) <= Waits(a, h)
           /\ a > 0 /\ h # 0 /\ ~(h > MaxHold) => Waits(a, h + 1) = Waits(a, h) - 1
<1>1. MaxHold \in Nat
  BY DEF MonitorsAssumption
<1>2. CASE a = 0
  BY <1>1, <1>2 DEF Waits
<1>3. CASE a > 0
  <2>1. PICK b \in Nat : a = b + 1
    <3>1. a - 1 \in Nat /\ a = (a - 1) + 1
      BY <1>3
    <3> QED
      BY <3>1
  <2>2. b * MaxHold \in Nat /\ a * MaxHold = b * MaxHold + MaxHold
    BY <1>1, <2>1
  <2>3. a - 1 = b
    BY <2>1
  <2> DEFINE p == b * MaxHold
  <2>4. \A k : Waits(a, k) = IF k = 0 THEN p + MaxHold ELSE p + (MaxHold + 1 - k)
    BY <1>3, <2>2, <2>3 DEF Waits
  <2>5. Waits(a - 1, 0) = p
    BY <1>1, <2>3 DEF Waits
  <2>6. p \in Nat
    BY <2>2
  <2>7. Waits(0, h) = 0
    BY DEF Waits
  <2>8. a * MaxHold = p + MaxHold
    BY <2>2
  <2> HIDE DEF p
  <2>9. Waits(a, 0) = p + MaxHold /\ Waits(a, 1) = p + MaxHold
    BY <1>1, <2>4, <2>6
  <2>10. Waits(a, h) \in Nat /\ Waits(a, h) >= p /\ Waits(a, h) <= p + MaxHold
    BY <1>1, <2>4, <2>6
  <2>11. ASSUME h # 0, ~(h > MaxHold) PROVE Waits(a, h + 1) = Waits(a, h) - 1
    <3>1. Waits(a, h) = p + (MaxHold + 1 - h) /\ Waits(a, h + 1) = p + (MaxHold + 1 - (h + 1))
      BY <2>4, <2>11
    <3> QED
      BY <1>1, <2>6, <3>1
  <2> QED
    BY <2>5, <2>6, <2>7, <2>8, <2>9, <2>10, <2>11
<1> QED
  BY <1>2, <1>3

\* What the handler and the commands in the inbox may cost, however many of them
\* there are, and one command less.
LEMMA Cost ==
    ASSUME MonitorsAssumption
    PROVE  /\ Report \in Nat /\ Most \in Nat
           /\ \A n \in Nat : Costs(n) \in Nat
           /\ \A n \in Nat : n > 0 => Costs(n) = Costs(n - 1) + Report
           /\ \A n \in 0..MaxInbox : Costs(n) + Report <= Most
<1>1. Sources \in Nat /\ MaxHold \in Nat /\ MaxInbox \in Nat
  BY DEF MonitorsAssumption
<1>2. Report \in Nat
  BY <1>1 DEF Report
<1>3. Most = MaxInbox * Report + Report
  BY <1>1, <1>2 DEF Most
<1>4. MaxInbox * Report \in Nat
  BY <1>1, <1>2
<1>5. ASSUME NEW n \in Nat
      PROVE  /\ n * Report \in Nat
             /\ n > 0 => n * Report = (n - 1) * Report + Report
  BY <1>2
<1>6. ASSUME NEW n \in 0..MaxInbox PROVE n * Report <= MaxInbox * Report
  BY <1>1, <1>2
<1>7. ASSUME NEW n \in 0..MaxInbox PROVE n * Report + Report <= Most
  BY <1>2, <1>3, <1>4, <1>5, <1>6
<1> QED
  BY <1>2, <1>3, <1>4, <1>5, <1>7 DEF Costs

\* One handler costs no more than a command does.
LEMMA Handler ==
    ASSUME MonitorsAssumption, NEW a \in 0..Sources, NEW h \in 0..(MaxHold + 1)
    PROVE  Waits(a, h) \in Nat /\ Waits(a, h) <= Report
<1>1. Sources \in Nat /\ MaxHold \in Nat
  BY DEF MonitorsAssumption
<1>2. a * MaxHold <= Report /\ a * MaxHold \in Nat /\ Report \in Nat
  BY <1>1 DEF Report
<1>3. Waits(a, h) \in Nat /\ Waits(a, h) <= a * MaxHold
  BY <1>1, Waiting
<1> DEFINE p == a * MaxHold
<1>4. p \in Nat /\ p <= Report /\ Waits(a, h) <= p
  BY <1>2, <1>3
<1> HIDE DEF p
<1> QED
  BY <1>2, <1>3, <1>4

\* The first report uses up the time that it may take, and while it does nothing
\* else of the session runs.
Reported ==
    stage = "report" =>
       /\ asking > 0 /\ phase = 0 /\ ~heartTick /\ ~watchTick /\ ~pushing
       /\ sincePong + Waits(asking, held) <= Report
       /\ hindered \/ sincePong = 0

\* Every step keeps that.
LEMMA ReportedStep ==
    ASSUME MonitorsAssumption, TypeOK, Reported, [Next]_vars
    PROVE  Reported'
<1> SUFFICES ASSUME stage' = "report" PROVE Reported'
  BY DEF Reported
<1>0. /\ Sources \in Nat /\ MaxHold \in Nat /\ Report \in Nat /\ sincePong \in Nat
      /\ asking \in 0..Sources /\ held \in 0..(MaxHold + 1)
  BY Cost DEF TypeOK, MonitorsAssumption
<1>1. Waits(asking, held) \in Nat /\ Waits(asking, held)' = Waits(asking', held') /\ Report' = Report
  BY <1>0, Handler DEF Waits, Report
<1>2. CASE UNCHANGED <<stage, asking, sincePong, held, pushing, tickers, hindered>>
  BY <1>1, <1>2 DEF Reported, tickers
<1>3. CASE UNCHANGED vars \/ Over \/ Cease \/ Reply \/ Say
  <2>1. UNCHANGED <<stage, asking, sincePong, held, pushing, tickers, hindered>>
    BY <1>3, Zenon DEF vars, reader, clocks, Over, Cease, Reply, Say
  <2> QED
    BY <1>2, <2>1
<1>4. ASSUME NEW r, End(r) PROVE Reported'
  BY <1>2, <1>4 DEF End, reader, clocks
<1>5. CASE ReadFails \/ PongTimeout
  BY <1>4, <1>5 DEF ReadFails, PongTimeout
<1>6. CASE Read \/ Heartbeat \/ Pushed
  <2>1. stage' = stage /\ (asking = 0 \/ heartTick \/ pushing)
    BY <1>6, Zenon DEF Read, Heartbeat, Pushed, clocks
  <2> QED
    BY <1>0, <2>1 DEF Reported
<1>7. CASE Watch
  BY <1>4, <1>7 DEF Watch
<1>8. CASE Lock
  <2>1. /\ UNCHANGED <<stage, asking, sincePong, pushing, tickers, hindered>>
        /\ held = 0 /\ held' = 1
    BY <1>8, Zenon DEF Lock, reader, clocks
  <2>2. Waits(asking', held') = Waits(asking, held)
    <3>1. asking \in Nat
      BY <1>0
    <3> QED
      BY <1>0, <2>1, <3>1, Waiting
  <2> QED
    BY <1>1, <2>1, <2>2 DEF Reported, tickers
<1>9. CASE Ask \/ Unlock
  <2>1. stage = "report" /\ asking > 0
    BY <1>0, <1>9 DEF Ask, Unlock, Asked, Reported
  <2>2. /\ Asked /\ held' = 0 /\ UNCHANGED <<sincePong, tickers, hindered>>
        /\ pushing' = pushing \/ ~pushing'
    BY <1>9, <2>1, Zenon DEF Ask, Unlock
  <2>3. asking' = asking - 1 /\ asking # 1
    BY <2>1, <2>2 DEF Asked
  <2>4. Waits(asking', held') \in Nat /\ Waits(asking', held') <= Waits(asking, held)
    <3>1. asking \in Nat /\ asking - 1 \in Nat /\ 0 \in 0..(MaxHold + 1)
      BY <1>0, <2>1
    <3>2. Waits(asking - 1, 0) \in Nat /\ Waits(asking - 1, 0) <= Waits(asking, held)
      BY <1>0, <2>1, <3>1, Waiting
    <3> QED
      BY <2>2, <2>3, <3>2
  <2>5. sincePong' + Waits(asking', held') <= Report /\ asking' > 0
    BY <1>0, <1>1, <2>1, <2>2, <2>3, <2>4 DEF Reported
  <2>6. phase' = 0 /\ ~heartTick' /\ ~watchTick' /\ ~pushing'
    <3>1. UNCHANGED <<phase, heartTick, watchTick>>
      BY <2>2, Zenon DEF tickers
    <3>2. phase' = phase /\ heartTick' = heartTick /\ watchTick' = watchTick
      BY <3>1
    <3>3. phase = 0 /\ ~heartTick /\ ~watchTick /\ ~pushing
      BY <2>1, Zenon DEF Reported
    <3>4. ~pushing'
      BY <2>2, <3>3
    <3>5. phase' = 0 /\ ~heartTick' /\ ~watchTick'
      BY <3>2, <3>3
    <3> QED
      BY <3>4, <3>5
  <2>7. hindered' \/ sincePong' = 0
    BY <2>1, <2>2, Zenon DEF Reported
  <2> QED
    BY <1>1, <2>5, <2>6, <2>7 DEF Reported
<1>10. CASE Tick
  <2>1. /\ stage = "report" /\ UNCHANGED <<asking, pushing, tickers>>
        /\ sincePong' = sincePong + 1
        /\ held' = IF held = 0 THEN 0 ELSE held + 1
        /\ asking > 0 => hindered'
        /\ asking > 0 => held # 0
        /\ ~(held > MaxHold)
    BY <1>10, TickEffect, Zenon
  <2>2. asking > 0 /\ held # 0 /\ held' = held + 1
    BY <2>1 DEF Reported
  <2>3. Waits(asking', held') = Waits(asking, held) - 1
    <3>1. asking \in Nat
      BY <1>0
    <3> QED
      BY <1>0, <2>1, <2>2, <3>1, Waiting
  <2> QED
    BY <1>0, <1>1, <2>1, <2>2, <2>3 DEF Reported, tickers
<1> QED
  BY <1>3, <1>5, <1>6, <1>7, <1>8, <1>9, <1>10, Zenon DEF Next

\* It holds when the connector has joined: no time has passed.
LEMMA ReportedInit == ASSUME MonitorsAssumption PROVE Init => Reported
<1> SUFFICES ASSUME Init, stage = "report" PROVE Reported
  BY DEF Reported
<1>1. asking > 0 /\ phase = 0 /\ ~heartTick /\ ~watchTick /\ ~pushing /\ sincePong = 0 /\ held = 0
  BY DEF Init
<1>2. TypeOK
  BY TypeInit
<1>3. Waits(asking, held) \in Nat /\ Waits(asking, held) <= Report /\ Report \in Nat
  BY <1>2, Handler, Cost DEF TypeOK
<1> QED
  BY <1>1, <1>3 DEF Reported

-----------------------------------------------------------------------------
(* The watchdog.                                                           *)

\* The watchdog looks at the clock whenever its interval is over, before time
\* goes on: until then what it has tolerated grows with the interval, and before its
\* first look what the first report has taken.
Watched ==
    Up => /\ stage = "loops" =>
                phase \in 0..3 /\ sinceMessage <= Report + phase /\ (watchTick <=> phase = 3)
          /\ stage = "watched" =>
                IF watchTick THEN phase \in {0, 3} /\ sinceMessage <= watchdogTimeout + watchdogCheck
                ELSE \/ phase \in {0, 3} /\ sinceMessage <= watchdogTimeout
                     \/ phase \in {1, 4} /\ sinceMessage <= watchdogTimeout + 1
                     \/ phase \in {2, 5} /\ sinceMessage <= watchdogTimeout + 2

\* Every step keeps that.
LEMMA WatchedStep ==
    ASSUME MonitorsAssumption, TypeOK, Reported, Watched, [Next]_vars
    PROVE  Watched'
<1> USE DEF TypeOK, Watched, Up
<1>0. Report \in Nat /\ Report' = Report
  BY Cost DEF Report
<1>1. CASE UNCHANGED <<session, stage, sinceMessage, phase, watchTick>>
  BY <1>0, <1>1
<1>2. CASE UNCHANGED vars \/ Over \/ Cease \/ Reply \/ Say \/ Pushed \/ Lock \/ Heartbeat
  <2>1. UNCHANGED <<session, stage, sinceMessage, phase, watchTick>>
    BY <1>2, Zenon
       DEF vars, Over, Cease, Reply, Say, Pushed, Lock, Heartbeat, reader, clocks, tickers
  <2> QED
    BY <1>1, <2>1
<1>3. ASSUME NEW r \in {"read", "pong", "watchdog"}, End(r) PROVE Watched'
  BY <1>3 DEF End
<1>4. CASE Read
  <2>1. UNCHANGED <<session, stage, phase, watchTick>> /\ sinceMessage' = 0
    BY <1>4 DEF Read, clocks, tickers
  <2> QED
    BY <1>0, <2>1
<1>5. CASE Ask \/ Unlock
  <2>1. /\ UNCHANGED <<session, sinceMessage, phase, watchTick>>
        /\ stage' = stage \/ (stage = "report" /\ stage' = "loops")
    BY <1>5 DEF Ask, Unlock, Asked, tickers
  <2>2. CASE stage' = stage
    BY <1>1, <2>1, <2>2
  <2>3. CASE stage = "report" /\ stage' = "loops"
    <3>1. phase = 0 /\ ~watchTick /\ sincePong + Waits(asking, held) <= Report
      BY <2>3 DEF Reported
    <3>2. Waits(asking, held) \in Nat
      BY Handler
    <3> QED
      BY <1>0, <2>1, <2>3, <3>1, <3>2
  <2> QED
    BY <2>1, <2>2, <2>3
<1>6. CASE ReadFails \/ PongTimeout
  BY <1>3, <1>6 DEF ReadFails, PongTimeout
<1>7. CASE Watch
  <2>1. CASE End("watchdog")
    BY <1>3, <2>1
  <2>2. CASE ~End("watchdog")
    <3>1. /\ sinceMessage <= watchdogTimeout /\ ~watchTick' /\ watchTick /\ stage' = "watched"
          /\ UNCHANGED <<session, sinceMessage, phase>>
      BY <1>7, <2>2, Zenon DEF Watch, reader
    <3>2. stage # "report"
      BY <3>1 DEF Reported
    <3> QED
      BY <3>1, <3>2
  <2> QED
    BY <2>1, <2>2
<1>8. CASE Tick
  <2>1. /\ Up /\ UNCHANGED <<session, stage>> /\ sinceMessage' = sinceMessage + 1
        /\ stage # "report" =>
              /\ phase' = IF phase = 5 THEN 0 ELSE phase + 1
              /\ watchTick' <=> phase' \in {0, 3}
              /\ ~watchTick
    BY <1>8, TickEffect, Zenon
  <2>2. phase \in 0..5 /\ sinceMessage \in Nat /\ stage \in {"report", "loops", "watched"}
    OBVIOUS
  <2> HIDE DEF TypeOK
  <2>3. CASE stage = "report"
    BY <2>1, <2>3
  <2>4. CASE stage = "loops"
    <3>1. phase \in 0..2 /\ sinceMessage <= Report + phase /\ phase' = phase + 1
      BY <2>1, <2>2, <2>4
    <3>2. watchTick' <=> phase' = 3
      BY <2>1, <2>4, <3>1
    <3> QED
      BY <1>0, <2>1, <2>2, <2>4, <3>1, <3>2
  <2>5. CASE stage = "watched"
    <3>1. /\ phase' = IF phase = 5 THEN 0 ELSE phase + 1
          /\ watchTick' <=> phase' \in {0, 3}
          /\ sinceMessage' = sinceMessage + 1
      BY <2>1, <2>5
    <3>2. \/ phase \in {0, 3} /\ sinceMessage <= 18
          \/ phase \in {1, 4} /\ sinceMessage <= 18 + 1
          \/ phase \in {2, 5} /\ sinceMessage <= 18 + 2
      BY <2>1, <2>5
    <3> QED
      BY <2>1, <2>2, <2>5, <3>1, <3>2
  <2> QED
    BY <2>2, <2>3, <2>4, <2>5
<1> QED
  BY <1>2, <1>4, <1>5, <1>6, <1>7, <1>8 DEF Next

\* The watchdog ends a session in which no message is read within its time and
\* one interval, however long the other loops are blocked; but it does so only
\* once the first report is over.
THEOREM WatchdogEnds == ASSUME MonitorsAssumption PROVE Spec => []WatchdogBites
<1>1. Init => Watched
  <2> SUFFICES ASSUME Init PROVE Watched
    OBVIOUS
  <2>1. phase = 0 /\ sinceMessage = 0 /\ ~watchTick /\ stage # "watched"
    BY DEF Init
  <2>2. Report \in Nat
    BY Cost
  <2> QED
    BY <2>1, <2>2 DEF Watched
<1>2. TypeOK /\ Reported /\ Watched => WatchdogBites
  <2> SUFFICES ASSUME TypeOK, Reported, Watched, Up PROVE WatchdogBites
    BY DEF WatchdogBites
  <2>1. Report \in Nat /\ Waits(asking, held) \in Nat
    BY Cost, Handler DEF TypeOK
  <2>2. CASE stage = "report"
    BY <2>1, <2>2 DEF TypeOK, Reported, WatchdogBites
  <2>3. CASE stage = "loops"
    BY <2>1, <2>3 DEF TypeOK, Watched, WatchdogBites
  <2>4. CASE stage = "watched"
    BY <2>4 DEF TypeOK, Watched, WatchdogBites
  <2> QED
    BY <2>2, <2>3, <2>4 DEF TypeOK
<1> QED
  BY <1>1, <1>2, TypeInit, TypeStep, ReportedInit, ReportedStep, WatchedStep, PTL DEF Spec

-----------------------------------------------------------------------------
(* The heartbeat loop.                                                     *)

\* How old the last reply, or the join, may be with the first heartbeat and while
\* the loop waits for the lock.
FirstLook == (IF Report > 8 THEN Report ELSE 8) + 6
LongestWait == IF 8 + MaxHold > FirstLook THEN 8 + MaxHold ELSE FirstLook
Longest == IF hindered THEN LongestWait ELSE 14

\* The loop looks at the age of the last reply with every tick that it takes, and
\* goes on only if that is small: since then no more time has passed than since
\* the beginning of the phase, or than the lock is held if it waits for that.
\* Before the first it may be as old as the first report was long.  As long as
\* the loop has not waited for its whole interval, it takes each tick at once.
Checked ==
    Up => /\ pushing => sincePong <= 8 + (IF held = 0 THEN 0 ELSE held - 1)
          /\ ~heartTick => sincePong + 6 <= phase + (IF hindered THEN FirstLook ELSE 14)
          /\ heartTick /\ ~pushing => sincePong <= LongestWait
          /\ ~hindered =>
                /\ pushing => ~heartTick /\ ((held = 0 /\ phase = 0) \/ held >= phase + 1)
                /\ heartTick => phase = 0 /\ sincePong <= 14

\* The longest that there are.
LEMMA Longer ==
    ASSUME MonitorsAssumption
    PROVE  /\ FirstLook \in Nat /\ LongestWait \in Nat
           /\ Report + 6 <= FirstLook /\ 14 <= FirstLook
           /\ FirstLook <= LongestWait /\ 8 + MaxHold <= LongestWait
           /\ LongestWait \in {8 + MaxHold, Report + 6, 14}
  BY Cost DEF MonitorsAssumption, FirstLook, LongestWait

\* Every step keeps that.
LEMMA CheckedStep ==
    ASSUME MonitorsAssumption, TypeOK, Reported, Checked, [Next]_vars
    PROVE  Checked'
<1>0. /\ FirstLook \in Nat /\ LongestWait \in Nat /\ 14 <= FirstLook
      /\ FirstLook <= LongestWait /\ 8 + MaxHold <= LongestWait
      /\ FirstLook' = FirstLook /\ LongestWait' = LongestWait
      /\ sincePong \in Nat /\ phase \in 0..5 /\ held \in 0..(MaxHold + 1) /\ MaxHold \in Nat
  BY Longer DEF FirstLook, LongestWait, Report, TypeOK, MonitorsAssumption
<1> USE DEF Checked, Up
<1>1. CASE UNCHANGED vars \/ Over
  <2>1. UNCHANGED <<session, sincePong, pushing, phase, heartTick, held, hindered>>
    BY <1>1, Zenon DEF vars, reader, clocks, tickers, Over
  <2> QED
    BY <1>0, <2>1
<1>2. ASSUME NEW r \in {"read", "pong", "watchdog"}, End(r) PROVE Checked'
  BY <1>0, <1>2 DEF End
<1>3. CASE Cease \/ Reply \/ Say \/ Ask
  <2>1. UNCHANGED <<session, sincePong, pushing, phase, heartTick, held, hindered>>
    BY <1>3, Zenon DEF Cease, Reply, Say, Ask, Asked, reader, clocks, tickers
  <2> QED
    BY <1>0, <2>1
<1>4. CASE Read
  <2>1. UNCHANGED <<session, pushing, phase, heartTick, held, hindered>>
    BY <1>4, Zenon DEF Read, clocks, tickers
  <2>2. sincePong' = 0 \/ sincePong' = sincePong
    BY <1>4, Zenon DEF Read
  <2>3. CASE sincePong' = 0
    BY <1>0, <2>1, <2>3
  <2>4. CASE sincePong' = sincePong
    BY <1>0, <2>1, <2>4
  <2> QED
    BY <2>2, <2>3, <2>4
<1>5. CASE ReadFails \/ PongTimeout
  BY <1>2, <1>5 DEF ReadFails, PongTimeout
<1>6. CASE Heartbeat
  <2>1. /\ UNCHANGED <<session, sincePong, phase, held, hindered>>
        /\ heartTick /\ ~heartTick' /\ pushing' /\ sincePong <= 8
    BY <1>6 DEF Heartbeat, reader
  <2> QED
    BY <1>0, <2>1
<1>7. CASE Pushed
  <2>1. /\ UNCHANGED <<session, sincePong, phase, heartTick, held, hindered>>
        /\ pushing /\ ~pushing' /\ held = 0
    BY <1>7, Zenon DEF Pushed, reader, clocks, tickers
  <2> QED
    BY <1>0, <2>1
<1>8. CASE Watch
  <2>1. CASE End("watchdog")
    BY <1>2, <2>1
  <2>2. CASE ~End("watchdog")
    <3>1. UNCHANGED <<session, sincePong, pushing, phase, heartTick, held, hindered>>
      BY <1>8, <2>2, Zenon DEF Watch, reader
    <3> QED
      BY <1>0, <3>1
  <2> QED
    BY <2>1, <2>2
<1>9. CASE Lock
  <2>1. /\ UNCHANGED <<session, sincePong, pushing, phase, heartTick, hindered>>
        /\ held = 0 /\ held' = 1
    BY <1>9, Zenon DEF Lock, reader, clocks, tickers
  <2> QED
    BY <1>0, <2>1
<1>10. CASE Unlock
  <2>1. /\ UNCHANGED <<session, sincePong, phase, heartTick, hindered>>
        /\ ~pushing' /\ held > 0 /\ held' = 0
    BY <1>10, Zenon DEF Unlock, Asked, clocks, tickers
  <2> QED
    BY <1>0, <2>1
<1>11. CASE Tick
  <2>1. /\ Up /\ session' = session /\ UNCHANGED <<stage, pushing>>
        /\ stage = "report" => UNCHANGED tickers
        /\ stage # "report" =>
              /\ phase' = IF phase = 5 THEN 0 ELSE phase + 1
              /\ heartTick' <=> (heartTick \/ phase' = 0)
        /\ sincePong' = sincePong + 1
        /\ held' = IF held = 0 THEN 0 ELSE held + 1
        /\ hindered' <=> (hindered \/ asking > 0 \/ (pushing /\ held >= heartbeatInterval))
        /\ heartTick => pushing
        /\ pushing => held # 0
        /\ ~(held > MaxHold)
    BY <1>11, TickEffect, Zenon
  <2>2. CASE stage = "report"
    <3>1. ~heartTick' /\ ~pushing' /\ phase' = 0 /\ hindered'
      BY <2>1, <2>2 DEF Reported, tickers
    <3>2. Reported' /\ stage' = "report"
      BY <2>1, <2>2, ReportedStep
    <3>3. sincePong' <= Report /\ Report \in Nat /\ Report + 6 <= FirstLook
      <4>1. TypeOK'
        BY TypeStep
      <4>2. asking' \in 0..Sources /\ held' \in 0..(MaxHold + 1)
        BY <4>1 DEF TypeOK
      <4>3. Waits(asking', held') \in Nat /\ Report \in Nat
        BY <4>2, Handler, Cost
      <4>4. sincePong' + Waits(asking', held') <= Report
        BY <3>2 DEF Reported, Waits, Report
      <4> QED
        BY <1>0, <2>1, <4>3, <4>4, Longer
    <3> QED
      BY <1>0, <2>1, <3>1, <3>3
  <2>3. CASE stage # "report"
    BY <1>0, <2>1, <2>3
  <2> QED
    BY <2>2, <2>3
<1> QED
  BY <1>1, <1>3, <1>4, <1>5, <1>6, <1>7, <1>8, <1>9, <1>10, <1>11 DEF Next

\* The last reply is never older than that allows.
LEMMA PongAge ==
    ASSUME MonitorsAssumption, TypeOK, Checked, Up
    PROVE  sincePong <= Longest
<1>1. /\ FirstLook \in Nat /\ LongestWait \in Nat /\ 14 <= FirstLook
      /\ FirstLook <= LongestWait /\ 8 + MaxHold <= LongestWait
      /\ sincePong \in Nat /\ phase \in 0..5 /\ held \in 0..(MaxHold + 1) /\ MaxHold \in Nat
  BY Longer DEF TypeOK, MonitorsAssumption
<1>2. CASE pushing
  BY <1>1, <1>2 DEF Checked, Longest
<1>3. CASE heartTick /\ ~pushing
  BY <1>1, <1>3 DEF Checked, Longest
<1>4. CASE ~heartTick
  BY <1>1, <1>4 DEF Checked, Longest
<1> QED
  BY <1>2, <1>3, <1>4

-----------------------------------------------------------------------------
(* The inbox.                                                              *)

\* What a message that arrives, and one that is read, do to the inbox.
LEMMA Arrives ==
    ASSUME NEW s \in Inboxes, NEW m \in {"pong", "command", "other"}
    PROVE  /\ Append(s, m) \in Inboxes /\ Append(s, m) # <<>>
           /\ DOMAIN s = 1..Len(s) /\ Len(s) \in Nat
           /\ DOMAIN Append(s, m) = 1..(Len(s) + 1)
           /\ \A i \in 1..(Len(s) + 1) : Append(s, m)[i] = IF i = Len(s) + 1 THEN m ELSE s[i]
  BY DEF Inboxes

\* The rest of the inbox moves up by one when its head is read.
LEMMA IsRead ==
    ASSUME NEW s \in Inboxes, s # <<>>
    PROVE  /\ Tail(s) \in Inboxes /\ Head(s) = s[1]
           /\ DOMAIN s = 1..Len(s) /\ Len(s) \in Nat /\ Len(s) > 0
           /\ DOMAIN Tail(s) = 1..(Len(s) - 1)
           /\ \A i \in 1..(Len(s) - 1) : Tail(s)[i] = s[i + 1]
  BY DEF Inboxes

\* The reply to a heartbeat is there to be read.
PongWaits(s) == \E i \in DOMAIN s : s[i] = "pong"

\* It stays until it is read.
LEMMA PongArrives ==
    ASSUME NEW s \in Inboxes, NEW m \in {"pong", "command", "other"}
    PROVE  PongWaits(Append(s, m)) <=> (PongWaits(s) \/ m = "pong")
<1>1. ASSUME PongWaits(s) PROVE PongWaits(Append(s, m))
  <2>1. PICK i \in DOMAIN s : s[i] = "pong"
    BY <1>1 DEF PongWaits
  <2>2. i \in 1..(Len(s) + 1) /\ i # Len(s) + 1
    BY Arrives
  <2> QED
    BY <2>1, <2>2, Arrives DEF PongWaits
<1>2. ASSUME m = "pong" PROVE PongWaits(Append(s, m))
  <2>1. Len(s) + 1 \in 1..(Len(s) + 1)
    BY Arrives
  <2> QED
    BY <1>2, <2>1, Arrives DEF PongWaits
<1>3. ASSUME PongWaits(Append(s, m)), m # "pong" PROVE PongWaits(s)
  <2>1. PICK i \in 1..(Len(s) + 1) : Append(s, m)[i] = "pong"
    BY <1>3, Arrives DEF PongWaits
  <2>2. i # Len(s) + 1 /\ s[i] = "pong"
    BY <1>3, <2>1, Arrives
  <2>3. i \in 1..Len(s)
    BY <2>2, Arrives
  <2> QED
    BY <2>2, <2>3, Arrives DEF PongWaits
<1> QED
  BY <1>1, <1>2, <1>3

LEMMA PongIsRead ==
    ASSUME NEW s \in Inboxes, s # <<>>
    PROVE  /\ PongWaits(s) => Head(s) = "pong" \/ PongWaits(Tail(s))
           /\ Head(s) = "pong" => PongWaits(s)
           /\ PongWaits(Tail(s)) => PongWaits(s)
<1>1. ASSUME PongWaits(s), Head(s) # "pong" PROVE PongWaits(Tail(s))
  <2>1. PICK i \in 1..Len(s) : s[i] = "pong"
    BY <1>1, IsRead DEF PongWaits
  <2>2. i # 1 /\ i - 1 \in 1..(Len(s) - 1) /\ (i - 1) + 1 = i
    BY <1>1, <2>1, IsRead
  <2>3. Tail(s)[i - 1] = "pong"
    BY <2>1, <2>2, IsRead
  <2> QED
    BY <2>2, <2>3, IsRead DEF PongWaits
<1>2. ASSUME Head(s) = "pong" PROVE PongWaits(s)
  <2>1. 1 \in 1..Len(s)
    BY IsRead
  <2> QED
    BY <1>2, <2>1, IsRead DEF PongWaits
<1>3. ASSUME PongWaits(Tail(s)) PROVE PongWaits(s)
  <2>1. PICK i \in 1..(Len(s) - 1) : Tail(s)[i] = "pong"
    BY <1>3, IsRead DEF PongWaits
  <2>2. i + 1 \in 1..Len(s) /\ s[i + 1] = "pong"
    BY <2>1, IsRead
  <2> QED
    BY <2>2, IsRead DEF PongWaits
<1> QED
  BY <1>1, <1>2, <1>3

-----------------------------------------------------------------------------
(* No false alarm.                                                         *)

\* A read is no longer under way than since the last message.
Reading == reading <= sinceMessage

LEMMA ReadingStep == ASSUME TypeOK, Reading, [Next]_vars PROVE Reading'
<1> USE DEF TypeOK, Reading
<1>1. CASE UNCHANGED vars \/ Over
  BY <1>1 DEF vars, reader, Over
<1>2. ASSUME NEW r, End(r) PROVE Reading'
  BY <1>2 DEF End, reader
<1>3. CASE Cease \/ Reply \/ Say \/ Heartbeat \/ Pushed \/ Lock
  <2>1. UNCHANGED <<reading, sinceMessage>>
    BY <1>3, Zenon DEF Cease, Reply, Say, Heartbeat, Pushed, Lock, reader
  <2> QED
    BY <2>1
<1>4. CASE ReadFails \/ PongTimeout
  BY <1>2, <1>4 DEF ReadFails, PongTimeout
<1>5. CASE Watch
  BY <1>2, <1>5 DEF Watch, reader
<1>6. CASE Read
  BY <1>6 DEF Read
<1>7. CASE Ask \/ Unlock
  BY <1>7 DEF Ask, Unlock, Asked
<1>8. CASE Tick
  <2>1. sinceMessage' = sinceMessage + 1 /\ reading' = IF asking = 0 THEN reading + 1 ELSE reading
    BY <1>8, Zenon DEF Tick
  <2> QED
    BY <2>1
<1> QED
  BY <1>1, <1>3, <1>4, <1>5, <1>6, <1>7, <1>8 DEF Next

\* While the cloud replies in time and nothing hinders the loops, the last reply
\* is of this phase; or the heartbeat of this phase is being replied to, and the
\* last reply is of the phase before.
Replied ==
    peer = "alive" /\ ~hindered =>
       /\ session = "up"
       /\ heartTick => owed = <<>> /\ sincePong <= 6
       /\ owed # <<>> => owed = <<phase>> /\ phase <= MaxDelay
       /\ \/ heartTick
          \/ sincePong <= phase
          \/ sincePong <= phase + 6 /\ (owed # <<>> \/ PongWaits(inbox))

\* No monitor ends the session of such a cloud.
LEMMA Patient ==
    ASSUME MonitorsAssumption, MaxDelay <= pongTimeout, TypeOK, Checked, Reading, Replied,
           peer = "alive", ~hindered, ReadFails \/ PongTimeout \/ (Watch /\ End("watchdog"))
    PROVE  FALSE
<1> USE DEF MonitorsAssumption, TypeOK, Reading
<1>1. CASE ReadFails
  <2>1. reading >= 9 /\ inbox = <<>>
    BY <1>1 DEF ReadFails
  <2>2. sincePong >= 9
    BY <2>1
  <2>3. ~PongWaits(inbox)
    BY <2>1 DEF PongWaits
  <2>4. ~heartTick /\ sincePong <= phase + 6 /\ owed # <<>>
    BY <2>2, <2>3 DEF Replied
  <2>5. phase <= MaxDelay
    BY <2>4 DEF Replied
  <2> QED
    BY <2>2, <2>4, <2>5
<1>2. CASE PongTimeout
  BY <1>2 DEF PongTimeout, Replied
<1>3. CASE Watch /\ End("watchdog")
  <2>1. Up /\ sincePong <= 14
    BY PongAge DEF Replied, Up, Longest
  <2>2. sinceMessage > 18 \/ session' = session
    BY <1>3, Zenon DEF Watch
  <2>3. session' = "watchdog"
    BY <1>3 DEF End
  <2> QED
    BY <2>1, <2>2, <2>3 DEF Up
<1> QED
  BY <1>1, <1>2, <1>3

\* A heartbeat that is the only one to be replied to.
LEMMA OneReply == \A n : Tail(<<n>>) = <<>> /\ <<n>> # <<>> /\ Head(<<n>>) = n
  OBVIOUS

\* Every step keeps that.
LEMMA RepliedStep ==
    ASSUME MonitorsAssumption, MaxDelay <= pongTimeout, TypeOK, Reported, Checked, Reading,
           Replied, [Next]_vars
    PROVE  Replied'
<1> SUFFICES ASSUME peer' = "alive", ~hindered' PROVE Replied'
  BY DEF Replied
<1> USE DEF TypeOK, Replied, MonitorsAssumption
<1>1. CASE UNCHANGED vars \/ Over
  <2>1. UNCHANGED <<session, peer, owed, inbox, sincePong, phase, heartTick, hindered>>
    BY <1>1, Zenon DEF vars, reader, clocks, tickers, Over
  <2> QED
    BY <2>1
<1>2. CASE Cease
  BY <1>2 DEF Cease
<1>3. CASE Reply
  <2>1. /\ UNCHANGED <<session, peer, sincePong, phase, heartTick, hindered>>
        /\ owed # <<>> /\ owed' = Tail(owed) /\ inbox' = Append(inbox, "pong")
    BY <1>3, Zenon DEF Reply, reader, clocks, tickers
  <2>2. ~hindered /\ peer = "alive"
    BY <2>1
  <2>3. owed = <<phase>>
    BY <2>1, <2>2, Zenon DEF Replied
  <2>4. owed' = <<>>
    BY <2>1, <2>3, OneReply, Zenon
  <2>5. PongWaits(inbox')
    BY <2>1, PongArrives DEF Inboxes
  <2> HIDE DEF TypeOK
  <2> QED
    BY <2>1, <2>2, <2>3, <2>4, <2>5
<1>4. CASE Say
  <2>1. /\ UNCHANGED <<session, peer, owed, sincePong, phase, heartTick, hindered>>
        /\ \E m \in Messages : inbox' = Append(inbox, m)
    BY <1>4, Zenon DEF Say, reader, clocks, tickers
  <2>2. PICK m \in {"command", "other"} : inbox' = Append(inbox, m)
    BY <2>1
  <2>3. PongWaits(inbox) => PongWaits(inbox')
    BY <2>2, PongArrives DEF Inboxes
  <2> QED
    BY <2>1, <2>3
<1>5. CASE Read
  <2>1. /\ UNCHANGED <<session, peer, owed, phase, heartTick, hindered>>
        /\ inbox # <<>> /\ inbox' = Tail(inbox)
        /\ sincePong' = IF Head(inbox) = "pong" THEN 0 ELSE sincePong
    BY <1>5, Zenon DEF Read, clocks, tickers
  <2>2. CASE Head(inbox) = "pong"
    BY <2>1, <2>2
  <2>3. CASE Head(inbox) # "pong"
    <3>1. PongWaits(inbox) => PongWaits(inbox')
      BY <2>1, <2>3, PongIsRead DEF Inboxes
    <3> QED
      BY <2>1, <2>3, <3>1
  <2> QED
    BY <2>2, <2>3
<1>6. CASE Ask \/ Pushed \/ Lock \/ Unlock
  <2>1. UNCHANGED <<session, peer, owed, inbox, sincePong, phase, heartTick, hindered>>
    BY <1>6, Zenon DEF Ask, Pushed, Lock, Unlock, Asked, reader, clocks, tickers
  <2> QED
    BY <2>1
<1>7. CASE ReadFails \/ PongTimeout \/ (Watch /\ End("watchdog"))
  <2>1. peer' = peer /\ hindered' = hindered
    BY <1>7 DEF ReadFails, PongTimeout, End
  <2> QED
    BY <1>7, <2>1, Patient
<1>8. CASE Heartbeat
  <2>1. /\ UNCHANGED <<session, peer, inbox, sincePong, phase, hindered>>
        /\ Up /\ heartTick /\ ~heartTick'
        /\ owed' = IF peer = "alive" THEN Append(owed, 0) ELSE owed
    BY <1>8, Zenon DEF Heartbeat, reader
  <2>2. phase = 0 /\ owed = <<>> /\ sincePong <= 6
    BY <2>1 DEF Checked
  <2>3. owed' = <<0>>
    BY <2>1, <2>2
  <2> QED
    BY <2>1, <2>2, <2>3
<1>9. CASE Watch /\ ~End("watchdog")
  <2>1. UNCHANGED <<session, peer, owed, inbox, sincePong, phase, heartTick, hindered>>
    BY <1>9, Zenon DEF Watch, reader
  <2> QED
    BY <2>1
<1>10. CASE Tick
  <2>1. /\ Up /\ session' = session /\ peer' = peer
        /\ inbox' = inbox
        /\ stage # "report" =>
              /\ phase' = IF phase = 5 THEN 0 ELSE phase + 1
              /\ heartTick' <=> (heartTick \/ phase' = 0)
        /\ sincePong' = sincePong + 1
        /\ hindered' <=> (hindered \/ asking > 0 \/ (pushing /\ held >= heartbeatInterval))
        /\ owed' = IF peer = "alive" THEN [i \in DOMAIN owed |-> owed[i] + 1] ELSE owed
        /\ asking = 0 => inbox = <<>> /\ ~(reading >= readDeadline)
        /\ heartTick => pushing
        /\ peer = "alive" /\ owed # <<>> => ~(Head(owed) >= MaxDelay)
    BY <1>10, TickEffect, Zenon
  <2>2. /\ ~hindered /\ asking = 0 /\ peer = "alive" /\ inbox = <<>>
        /\ phase' = IF phase = 5 THEN 0 ELSE phase + 1
        /\ heartTick' <=> (heartTick \/ phase' = 0)
    BY <2>1 DEF Reported
  <2>3. ~heartTick
    BY <2>1, <2>2 DEF Checked
  <2>4. ~PongWaits(inbox)
    BY <2>2 DEF PongWaits
  <2>5. sincePong <= phase \/ (sincePong <= phase + 6 /\ owed # <<>>)
    BY <2>2, <2>3, <2>4
  <2>6. CASE owed = <<>>
    <3>1. owed' = <<>>
      BY <2>1, <2>2, <2>6
    <3>2. sincePong' <= phase + 1
      BY <2>1, <2>5, <2>6
    <3>3. session' = "up"
      BY <2>1, <2>2
    <3>4. CASE phase = 5
      BY <2>1, <2>2, <3>1, <3>2, <3>3, <3>4
    <3>5. CASE phase # 5
      BY <2>1, <2>2, <2>3, <3>1, <3>2, <3>3, <3>5
    <3> QED
      BY <3>4, <3>5
  <2>7. CASE owed # <<>>
    <3>1. owed = <<phase>>
      BY <2>2, <2>7
    <3>2. phase < MaxDelay
      BY <2>1, <2>2, <3>1
    <3>3. phase' = IF phase = 5 THEN 0 ELSE phase + 1
      BY <2>2
    <3>4. phase' = phase + 1 /\ phase' <= MaxDelay /\ phase' # 0
      <4> HIDE DEF Replied
      <4> QED
        BY <3>2, <3>3
    <3>5. owed' = <<phase'>>
      BY <2>1, <2>2, <3>1, <3>4
    <3>6. ~heartTick'
      BY <2>2, <2>3, <3>4
    <3>7. sincePong' <= phase' + 6
      <4>1. sincePong' = sincePong + 1 /\ sincePong <= phase + 6
        BY <2>1, <2>5
      <4> HIDE DEF Replied
      <4> QED
        BY <3>4, <4>1
    <3>8. session' = "up" /\ owed' # <<>>
      BY <2>1, <2>2, <3>5
    <3> QED
      BY <3>4, <3>5, <3>6, <3>7, <3>8
  <2> QED
    BY <2>6, <2>7
<1> QED
  BY <1>1, <1>2, <1>3, <1>4, <1>5, <1>6, <1>7, <1>8, <1>9, <1>10, Zenon DEF Next

\* What is known of every state of a session.
Known == TypeOK /\ Reported /\ Checked /\ Reading

LEMMA KnownAlways == ASSUME MonitorsAssumption PROVE Spec => []Known
<1>1. Init => Known
  <2> SUFFICES ASSUME Init PROVE Known
    OBVIOUS
  <2>1. TypeOK
    BY TypeInit
  <2>2. ~pushing /\ ~heartTick /\ ~hindered
    BY DEF Init
  <2>3. sincePong = 0 /\ sinceMessage = 0 /\ reading = 0 /\ phase = 0
    BY DEF Init
  <2>4. Checked
    BY <2>2, <2>3 DEF Checked
  <2>5. Reading
    BY <2>3 DEF Reading
  <2>6. Reported
    BY ReportedInit
  <2> QED
    BY <2>1, <2>4, <2>5, <2>6 DEF Known
<1>2. Known /\ [Next]_vars => Known'
  BY TypeStep, ReportedStep, CheckedStep, ReadingStep DEF Known
<1> QED
  BY <1>1, <1>2, PTL DEF Spec

\* No session ends while the cloud replies to each heartbeat within pongTimeout
\* and no loop has waited for the lock, or the heartbeat loop less than its
\* interval: the deadline of the read, the heartbeat loop and the watchdog agree
\* with each other.
THEOREM NoneIsFalse ==
    ASSUME MonitorsAssumption, MaxDelay <= pongTimeout
    PROVE  Spec => []NoFalseAlarm
<1>1. Init => Replied
  <2> SUFFICES ASSUME Init PROVE Replied
    OBVIOUS
  <2>1. session = "up" /\ ~heartTick /\ owed = <<>> /\ sincePong = 0 /\ phase = 0
    BY DEF Init
  <2> QED
    BY <2>1 DEF Replied
<1>2. Known /\ Replied /\ [Next]_vars => Replied'
  BY RepliedStep DEF Known
<1>3. Replied => NoFalseAlarm
  BY DEF Replied, NoFalseAlarm
<1> QED
  BY <1>1, <1>2, <1>3, KnownAlways, PTL DEF Spec

-----------------------------------------------------------------------------
(* How long the reader may lag.                                            *)

\* The commands are among the first n messages.
CommandsWithin(s, n) == \A i \in DOMAIN s : s[i] = "command" => i <= n

\* One of them has moved up, if there was one.
Less(n) == IF n = 0 THEN 0 ELSE n - 1

\* They stay there when one arrives within them or no command does, and move up
\* when a message is read.
LEMMA CommandArrives ==
    ASSUME NEW s \in Inboxes, NEW n \in Nat, CommandsWithin(s, n),
           NEW m \in {"pong", "command", "other"}, m = "command" => Len(s) < n
    PROVE  CommandsWithin(Append(s, m), n)
<1> SUFFICES ASSUME NEW i \in 1..(Len(s) + 1), Append(s, m)[i] = "command" PROVE i <= n
  BY Arrives DEF CommandsWithin
<1>1. CASE i = Len(s) + 1
  BY <1>1, Arrives
<1>2. CASE i # Len(s) + 1
  <2>1. i \in 1..Len(s) /\ s[i] = "command"
    BY <1>2, Arrives
  <2> QED
    BY <2>1, Arrives DEF CommandsWithin
<1> QED
  BY <1>1, <1>2

LEMMA CommandIsRead ==
    ASSUME NEW s \in Inboxes, s # <<>>, NEW n \in Nat, CommandsWithin(s, n)
    PROVE  /\ Head(s) = "command" => n > 0
           /\ CommandsWithin(Tail(s), Less(n))
<1>1. 1 \in DOMAIN s /\ Head(s) = s[1]
  BY IsRead
<1>2. Head(s) = "command" => n > 0
  BY <1>1 DEF CommandsWithin
<1>3. ASSUME NEW i \in 1..(Len(s) - 1), Tail(s)[i] = "command" PROVE i + 1 <= n
  <2>1. i + 1 \in DOMAIN s /\ s[i + 1] = "command"
    BY <1>3, IsRead
  <2> QED
    BY <2>1 DEF CommandsWithin
<1>4. CommandsWithin(Tail(s), Less(n))
  BY <1>3, IsRead DEF CommandsWithin, Less
<1> QED
  BY <1>2, <1>4

\* Only the first messages are commands: the cloud does not send more of them
\* ahead, while its replies come without that bound.  During the first report none
\* has come, for no heartbeat was sent.
Placed ==
    /\ CommandsWithin(inbox, MaxInbox)
    /\ MaxInbox = 0 /\ stage # "report" => asking = 0
    /\ stage = "report" => owed = <<>> /\ ~PongWaits(inbox)

\* Nothing has come when the connector has joined.
LEMMA PlacedInit == ASSUME MonitorsAssumption PROVE Init => Placed
  BY DEF MonitorsAssumption, Init, Placed, CommandsWithin, PongWaits

\* Every step keeps that.
LEMMA PlacedStep == ASSUME MonitorsAssumption, TypeOK, Reported, Placed, [Next]_vars PROVE Placed'
<1> USE DEF TypeOK, Placed, MonitorsAssumption
<1>1. CASE UNCHANGED <<inbox, owed, asking, stage>>
  BY <1>1
<1>2. CASE UNCHANGED vars \/ Over \/ Cease \/ Pushed \/ Lock
  <2>1. UNCHANGED <<inbox, owed, asking, stage>>
    BY <1>2, Zenon DEF vars, reader, clocks, Over, Cease, Pushed, Lock
  <2> QED
    BY <1>1, <2>1
<1>3. ASSUME NEW r, End(r) PROVE Placed'
  BY <1>1, <1>3 DEF End, reader, clocks
<1>4. CASE ReadFails \/ PongTimeout
  BY <1>3, <1>4 DEF ReadFails, PongTimeout
<1>5. CASE Heartbeat
  <2>1. UNCHANGED <<inbox, asking, stage>> /\ heartTick
    BY <1>5 DEF Heartbeat, reader
  <2>2. stage # "report"
    BY <2>1 DEF Reported
  <2> QED
    BY <2>1, <2>2
<1>6. CASE Watch
  <2>1. CASE End("watchdog")
    BY <1>3, <2>1
  <2>2. CASE ~End("watchdog")
    <3>1. UNCHANGED <<inbox, asking>> /\ watchTick /\ stage' = "watched"
      BY <1>6, <2>2, Zenon DEF Watch, reader
    <3>2. stage # "report"
      BY <3>1 DEF Reported
    <3> QED
      BY <3>1, <3>2
  <2> QED
    BY <2>1, <2>2
<1>7. CASE Reply
  <2>1. inbox' = Append(inbox, "pong") /\ UNCHANGED <<asking, stage>> /\ owed # <<>>
    BY <1>7 DEF Reply, reader, clocks
  <2> QED
    BY <2>1, CommandArrives DEF Inboxes
<1>8. CASE Say
  <2>1. PICK m \in Messages : inbox' = Append(inbox, m)
    BY <1>8 DEF Say
  <2>2. UNCHANGED <<owed, asking, stage>> /\ Len(inbox) < MaxInbox
    BY <1>8 DEF Say, reader, clocks
  <2>3. m \in {"pong", "command", "other"} /\ m # "pong"
    BY <2>1
  <2>4. CommandsWithin(Append(inbox, m), MaxInbox) /\ (PongWaits(Append(inbox, m)) => PongWaits(inbox))
    BY <2>2, <2>3, CommandArrives, PongArrives DEF Inboxes
  <2> QED
    BY <2>1, <2>2, <2>4
<1>9. CASE Read
  <2>1. /\ inbox # <<>> /\ inbox' = Tail(inbox) /\ asking = 0 /\ stage' = stage
        /\ asking' = IF Head(inbox) = "command" THEN Sources ELSE 0
    BY <1>9 DEF Read, clocks
  <2>2. /\ Head(inbox) = "command" => MaxInbox > 0
        /\ CommandsWithin(Tail(inbox), Less(MaxInbox))
    BY <2>1, CommandIsRead DEF Inboxes
  <2>3. CommandsWithin(Tail(inbox), MaxInbox)
    BY <2>1, <2>2, IsRead DEF CommandsWithin, Inboxes, Less
  <2>4. stage # "report"
    BY <2>1 DEF Reported
  <2> QED
    BY <2>1, <2>2, <2>3, <2>4
<1>10. CASE Ask \/ Unlock
  <2>1. UNCHANGED <<inbox, owed>>
    BY <1>10 DEF Ask, Unlock
  <2>2. CASE UNCHANGED <<asking, stage>>
    BY <1>1, <2>1, <2>2
  <2>3. CASE asking > 0 /\ Asked
    <3>1. stage = "report" /\ stage' # "report" => asking' = 0
      BY <2>3 DEF Asked
    <3>2. stage # "report" => stage' = stage /\ MaxInbox # 0
      BY <2>3 DEF Asked
    <3> QED
      BY <2>1, <3>1, <3>2
  <2> QED
    BY <1>10, <2>2, <2>3 DEF Ask, Unlock
<1>11. CASE Tick
  <2>1. /\ UNCHANGED <<inbox, asking, stage>>
        /\ owed' = IF peer = "alive" THEN [i \in DOMAIN owed |-> owed[i] + 1] ELSE owed
    BY <1>11, Zenon DEF Tick
  <2>2. owed = <<>> => owed' = <<>>
    BY <2>1
  <2> QED
    BY <2>1, <2>2
<1> QED
  BY <1>2, <1>4, <1>5, <1>6, <1>7, <1>8, <1>9, <1>10, <1>11, Zenon DEF Next

\* Whatever is in the inbox, it costs no more than the whole lag.
LEMMA AllInTime ==
    ASSUME MonitorsAssumption, TypeOK, NEW n \in 0..MaxInbox
    PROVE  Rest(n) \in Nat /\ Rest(n) <= Most
<1>1. Waits(asking, held) \in Nat /\ Waits(asking, held) <= Report
  BY Handler DEF TypeOK
<1>2. Costs(n) \in Nat /\ Costs(n) + Report <= Most /\ Report \in Nat /\ Most \in Nat
  BY Cost DEF MonitorsAssumption
<1> QED
  BY <1>1, <1>2 DEF Rest

\* Reading a message costs nothing that was not counted, and gives back what was
\* counted for a command if it is none.
LEMMA ReadCosts ==
    ASSUME MonitorsAssumption, TypeOK, Read,
           NEW n \in 0..MaxInbox, Head(inbox) = "command" => n > 0
    PROVE  /\ Rest(Less(n))' \in Nat /\ Rest(Less(n))' <= Rest(n)
           /\ Head(inbox) # "command" /\ n > 0 => Rest(Less(n))' + Report <= Rest(n)
<1>1. MaxInbox \in Nat /\ Sources \in Nat /\ MaxHold \in Nat /\ held \in 0..(MaxHold + 1)
  BY DEF MonitorsAssumption, TypeOK
<1>2. /\ asking = 0 /\ held' = held
      /\ asking' = IF Head(inbox) = "command" THEN Sources ELSE 0
  BY Zenon DEF Read
<1> DEFINE k == Less(n)
<1>3. Rest(n) = Costs(n)
  <2>1. Costs(n) \in Nat
    BY <1>1, Cost
  <2>2. Waits(asking, held) = 0
    BY <1>2 DEF Waits
  <2> QED
    BY <2>1, <2>2 DEF Rest
<1>4. k \in Nat /\ n \in Nat
  BY <1>1 DEF Less
<1>5. Costs(k) \in Nat /\ Costs(n) \in Nat /\ Report \in Nat
  BY <1>1, <1>4, Cost
<1>6. n > 0 => Costs(n) = Costs(k) + Report
  BY <1>4, Cost DEF Less
<1>7. n = 0 => Costs(n) = Costs(k)
  BY DEF Less
<1>8. Rest(k)' = Waits(asking', held) + Costs(k)
  BY <1>2 DEF Rest, Costs, Report, Less
<1> HIDE DEF k
<1>9. CASE Head(inbox) = "command"
  <2>1. Waits(asking', held) \in Nat /\ Waits(asking', held) <= Report
    BY <1>1, <1>2, <1>9, Handler
  <2>2. Rest(k)' \in Nat /\ Rest(k)' <= Rest(n)
    BY <1>3, <1>5, <1>6, <1>8, <1>9, <2>1
  <2> QED
    BY <1>9, <2>2 DEF k
<1>10. CASE Head(inbox) # "command"
  <2>1. Waits(asking', held) = 0
    BY <1>1, <1>2, <1>10, Waiting
  <2>2. n > 0 \/ n = 0
    BY <1>4
  <2>3. Rest(k)' \in Nat /\ Rest(k)' <= Rest(n) /\ (n > 0 => Rest(k)' + Report <= Rest(n))
    BY <1>3, <1>5, <1>6, <1>7, <1>8, <2>1, <2>2
  <2> QED
    BY <1>10, <2>3 DEF k
<1> QED
  BY <1>9, <1>10

\* Nor does getting the lock, or another's getting it.
LEMMA LockCosts ==
    ASSUME MonitorsAssumption, TypeOK, Ask \/ Lock \/ Unlock, NEW n \in 0..MaxInbox
    PROVE  Rest(n)' \in Nat /\ Rest(n)' <= Rest(n)
<1>1. /\ MaxInbox \in Nat /\ Sources \in Nat /\ MaxHold \in Nat /\ held \in 0..(MaxHold + 1)
      /\ asking \in 0..Sources /\ held' \in 0..(MaxHold + 1)
  BY DEF MonitorsAssumption, TypeOK, Ask, Lock, Unlock, Asked
<1>2. \/ asking' = asking /\ (asking = 0 \/ (held = 0 /\ held' = 1))
      \/ asking > 0 /\ asking' = asking - 1 /\ held' = 0
  BY <1>1 DEF Ask, Lock, Unlock, Asked, reader
<1>3. Waits(asking, held) \in Nat
  BY <1>1, Handler
<1>4. Waits(asking', held') \in Nat /\ Waits(asking', held') <= Waits(asking, held)
  <2>1. CASE asking' = asking /\ asking = 0
    <3>1. Waits(0, held) = 0 /\ Waits(0, held') = 0
      BY <1>1, Waiting
    <3> QED
      BY <2>1, <3>1
  <2>2. CASE asking' = asking /\ held = 0 /\ held' = 1
    BY <1>1, <1>3, <2>2, Waiting
  <2>3. CASE asking > 0 /\ asking' = asking - 1 /\ held' = 0
    <3>1. asking - 1 \in Nat /\ 0 \in 0..(MaxHold + 1)
      BY <1>1, <2>3
    <3> QED
      BY <1>1, <1>3, <2>3, <3>1, Waiting
  <2> QED
    BY <1>2, <2>1, <2>2, <2>3
<1>5. Rest(n)' = Waits(asking', held') + Costs(n)
  BY DEF Rest, Costs, Report
<1>6. Costs(n) \in Nat
  BY <1>1, Cost
<1> QED
  BY <1>3, <1>4, <1>5, <1>6 DEF Rest

\* A unit of time in which the handler waits is one that it does not wait later.
LEMMA TickCosts ==
    ASSUME MonitorsAssumption, TypeOK, Tick, asking # 0, NEW n \in 0..MaxInbox
    PROVE  Rest(n)' = Rest(n) - 1
<1>1. /\ MaxInbox \in Nat /\ Sources \in Nat /\ MaxHold \in Nat /\ held \in 0..(MaxHold + 1)
      /\ asking \in 0..Sources /\ asking \in Nat
  BY DEF MonitorsAssumption, TypeOK
<1>2. /\ asking' = asking
      /\ held' = IF held = 0 THEN 0 ELSE held + 1
      /\ asking > 0 => held # 0
      /\ ~(held > MaxHold)
  BY TickEffect, Zenon
<1>3. Waits(asking, held + 1) = Waits(asking, held) - 1
  BY <1>1, <1>2, Waiting
<1>4. Waits(asking, held) \in Nat /\ asking' = asking /\ held' = held + 1
  BY <1>1, <1>2, Handler
<1>5. Rest(n)' = Waits(asking', held') + Costs(n)
  BY DEF Rest, Costs, Report
<1>6. Costs(n) \in Nat
  BY <1>1, Cost
<1> QED
  BY <1>3, <1>4, <1>5, <1>6 DEF Rest

-----------------------------------------------------------------------------
(* A cloud that falls silent.                                              *)

\* What the reader may lag still does not take it beyond its whole lag.
InTime(n) == gone + (IF hindered THEN Rest(n) ELSE 0) <= Lag

\* Time goes on while the reader waits for the lock, which uses up its lag, or for
\* a message, of which there are none: then the deadline of the read runs.
Silence ==
    Up /\ peer = "silent" =>
       IF asking = 0 /\ inbox = <<>>
       THEN gone <= reading + Lag
       ELSE \E n \in 0..MaxInbox : CommandsWithin(inbox, n) /\ InTime(n)

\* Every step of a session keeps that.
LEMMA SilenceStep ==
    ASSUME MonitorsAssumption, TypeOK, Placed, Silence, [Next]_vars
    PROVE  Silence'
<1> SUFFICES ASSUME Up', peer' = "silent" PROVE Silence'
  BY DEF Silence
<1>0. /\ Sources \in Nat /\ MaxInbox \in Nat /\ MaxHold \in Nat
      /\ asking \in 0..Sources /\ held \in 0..(MaxHold + 1)
      /\ gone \in Nat /\ reading \in Nat /\ inbox \in Inboxes
  BY DEF TypeOK, MonitorsAssumption, Inboxes
<1>1. CASE UNCHANGED <<session, peer, gone, inbox, asking, reading, held, hindered>>
  BY <1>1 DEF Silence, Up, InTime, Rest, Lag
<1>2. CASE UNCHANGED vars \/ Over \/ Heartbeat \/ Pushed
  <2>1. UNCHANGED <<session, peer, gone, inbox, asking, reading, held, hindered>>
    BY <1>2, Zenon DEF vars, reader, Over, Heartbeat, Pushed
  <2> QED
    BY <1>1, <2>1
<1>3. ASSUME NEW r \in {"read", "pong", "watchdog"}, End(r) PROVE FALSE
  BY <1>3 DEF End, Up
<1>4. CASE ReadFails \/ PongTimeout
  BY <1>3, <1>4 DEF ReadFails, PongTimeout
<1>5. CASE Watch
  <2>1. UNCHANGED <<session, peer, gone, inbox, asking, reading, held, hindered>>
    BY <1>3, <1>5 DEF Watch, reader
  <2> QED
    BY <1>1, <2>1
<1>6. CASE Reply \/ Say
  BY <1>6 DEF Reply, Say
<1>7. CASE Cease
  <2>1. UNCHANGED <<inbox, asking, reading, held, hindered>> /\ gone' = 0
    BY <1>7, Zenon DEF Cease, reader
  <2>2. CommandsWithin(inbox', MaxInbox)
    BY <2>1 DEF Placed
  <2>3. Rest(MaxInbox) \in Nat /\ Rest(MaxInbox) <= Most /\ Most \in Nat
    <3>1. MaxInbox \in 0..MaxInbox
      BY <1>0
    <3> QED
      BY <3>1, AllInTime, Cost
  <2>4. Rest(MaxInbox)' = Rest(MaxInbox) /\ Lag' = IF hindered THEN Most ELSE 0
    BY <2>1 DEF Rest, Lag, Most
  <2>5. InTime(MaxInbox)'
    BY <2>1, <2>3, <2>4 DEF InTime
  <2>6. gone' <= reading' + Lag'
    BY <1>0, <2>1, <2>3, <2>4
  <2> QED
    BY <1>0, <2>2, <2>5, <2>6 DEF Silence
<1>8. CASE Read
  <2>1. /\ Up /\ peer = "silent" /\ asking = 0 /\ inbox # <<>>
        /\ inbox' = Tail(inbox) /\ reading' = 0
        /\ asking' = IF Head(inbox) = "command" THEN Sources ELSE 0
        /\ UNCHANGED <<gone, held, hindered>>
    BY <1>8, Zenon DEF Read
  <2>2. PICK n \in 0..MaxInbox : CommandsWithin(inbox, n) /\ InTime(n)
    BY <2>1 DEF Silence
  <2> DEFINE k == Less(n)
  <2>3. (Head(inbox) = "command" => n > 0) /\ CommandsWithin(inbox', k)
    BY <1>0, <2>1, <2>2, CommandIsRead
  <2>4. k \in 0..MaxInbox
    BY <1>0 DEF Less
  <2>5. Rest(k)' <= Rest(n) /\ Rest(k)' \in Nat /\ Rest(n) \in Nat
    BY <1>8, <2>3, ReadCosts, AllInTime
  <2>6. InTime(k)'
    <3>1. Lag' = Lag /\ Lag \in Nat
      BY <2>1, Cost DEF Lag, Most
    <3> QED
      BY <1>0, <2>1, <2>2, <2>5, <3>1 DEF InTime
  <2>7. gone' <= reading' + Lag'
    <3>1. Lag' = Lag /\ Lag \in Nat
      BY <2>1, Cost DEF Lag, Most
    <3> QED
      BY <1>0, <2>1, <2>2, <2>5, <3>1 DEF InTime
  <2> QED
    BY <2>3, <2>4, <2>6, <2>7 DEF Silence
<1>9. CASE Ask \/ Lock \/ Unlock
  <2>1. /\ Up /\ peer = "silent" /\ UNCHANGED <<gone, inbox, hindered>>
        /\ \/ asking' = asking /\ reading' = reading /\ (asking = 0 \/ (held = 0 /\ held' = 1))
           \/ asking > 0 /\ asking' = asking - 1 /\ reading' = 0 /\ held' = 0
    BY <1>0, <1>9 DEF Ask, Lock, Unlock, Asked, reader
  <2>2. Lag' = Lag /\ Lag \in Nat
    BY <2>1, Cost DEF Lag, Most
  <2>3. CASE asking = 0
    <3>1. asking' = 0 /\ reading' = reading
      BY <2>1, <2>3
    <3>2. \A n \in 0..MaxInbox : InTime(n) => InTime(n)'
      <4> SUFFICES ASSUME NEW n \in 0..MaxInbox, InTime(n) PROVE InTime(n)'
        OBVIOUS
      <4>1. Rest(n)' <= Rest(n) /\ Rest(n)' \in Nat /\ Rest(n) \in Nat
        BY <1>9, LockCosts, AllInTime
      <4> QED
        BY <1>0, <2>1, <2>2, <4>1 DEF InTime
    <3> QED
      BY <2>1, <2>2, <2>3, <3>1, <3>2 DEF Silence
  <2>4. CASE asking # 0
    <3>1. PICK n \in 0..MaxInbox : CommandsWithin(inbox, n) /\ InTime(n)
      BY <2>1, <2>4 DEF Silence
    <3>3. Rest(n)' <= Rest(n) /\ Rest(n)' \in Nat /\ Rest(n) \in Nat
      BY <1>9, LockCosts, AllInTime
    <3>4. InTime(n)'
      BY <1>0, <2>1, <2>2, <3>1, <3>3 DEF InTime
    <3>5. CommandsWithin(inbox', n) /\ gone' <= Lag' + 0
      BY <1>0, <2>1, <2>2, <3>1, <3>3 DEF InTime
    <3>6. asking' = 0 => reading' = 0
      BY <1>0, <2>1, <2>4
    <3> QED
      BY <1>0, <2>1, <2>2, <3>4, <3>5, <3>6 DEF Silence
  <2> QED
    BY <2>3, <2>4
<1>10. CASE Tick
  <2>1. /\ Up /\ peer = "silent" /\ UNCHANGED <<inbox, asking>>
        /\ reading' = IF asking = 0 THEN reading + 1 ELSE reading
        /\ held' = IF held = 0 THEN 0 ELSE held + 1
        /\ hindered => hindered'
        /\ asking > 0 => hindered'
        /\ gone' = IF peer = "alive" THEN 0 ELSE gone + 1
        /\ asking = 0 => inbox = <<>>
        /\ asking > 0 => held # 0
        /\ ~(held > MaxHold)
    BY <1>10, TickEffect, Zenon
  <2>2. gone' = gone + 1
    BY <2>1
  <2>3. /\ Lag = (IF hindered THEN Most ELSE 0) /\ Lag' = (IF hindered' THEN Most ELSE 0)
        /\ Most \in Nat
    BY Cost DEF Lag, Most
  <2>4. CASE asking = 0
    <3>1. gone <= reading + Lag /\ reading' = reading + 1 /\ inbox = <<>>
      BY <2>1, <2>4 DEF Silence
    <3>2. gone' <= reading' + Lag'
      BY <1>0, <2>1, <2>2, <2>3, <3>1
    <3> QED
      BY <2>1, <2>4, <3>1, <3>2 DEF Silence
  <2>5. CASE asking # 0
    <3>1. PICK n \in 0..MaxInbox : CommandsWithin(inbox, n) /\ InTime(n)
      BY <2>1, <2>5 DEF Silence
    <3>3. Rest(n)' = Rest(n) - 1 /\ Rest(n) \in Nat /\ Rest(n) <= Most
      BY <1>10, <2>5, TickCosts, AllInTime
    <3>4. InTime(n)'
      <4>1. hindered' /\ Lag' = Most
        BY <1>0, <2>1, <2>3, <2>5
      <4>2. gone + Rest(n) <= Most
        BY <1>0, <2>3, <3>1, <3>3 DEF InTime
      <4> QED
        BY <1>0, <2>2, <3>3, <4>1, <4>2 DEF InTime
    <3> QED
      BY <2>1, <2>5, <3>1, <3>4 DEF Silence
  <2> QED
    BY <2>4, <2>5
<1> QED
  BY <1>2, <1>4, <1>5, <1>6, <1>7, <1>8, <1>9, <1>10, Zenon DEF Next

\* A cloud that falls silent is noticed by the deadline of a read, however long the
\* heartbeat loop waits: what the reader has to do before that read is bounded by
\* the commands that the cloud sent ahead.
THEOREM SilenceNoticed == ASSUME MonitorsAssumption PROVE Spec => []SilenceIsNoticed
<1>1. Init => Placed /\ Silence
  BY PlacedInit DEF Init, Silence
<1>2. Known /\ Placed /\ Silence /\ [Next]_vars => Placed' /\ Silence'
  BY PlacedStep, SilenceStep DEF Known
<1>3. Known /\ Silence => SilenceIsNoticed
  <2> SUFFICES ASSUME Known, Silence, Up, peer = "silent"
               PROVE  gone <= readDeadline + Lag
    BY DEF SilenceIsNoticed
  <2>1. gone \in Nat /\ reading \in 0..9
    BY DEF Known, TypeOK
  <2>2. Lag \in Nat
    BY Cost DEF Lag, Most
  <2>3. CASE asking = 0 /\ inbox = <<>>
    BY <2>1, <2>2, <2>3 DEF Silence
  <2>4. CASE ~(asking = 0 /\ inbox = <<>>)
    <3>1. PICK n \in 0..MaxInbox : InTime(n)
      BY <2>4 DEF Silence
    <3>2. Rest(n) \in Nat
      BY AllInTime DEF Known
    <3> QED
      BY <2>1, <2>2, <3>1, <3>2 DEF InTime
  <2> QED
    BY <2>3, <2>4
<1> QED
  BY <1>1, <1>2, <1>3, KnownAlways, PTL DEF Spec

-----------------------------------------------------------------------------
(* A cloud that replies to no heartbeat.                                   *)

\* The commands that a reply is behind are among the first n messages.
CommandsAhead(s, n) ==
    \A i, j \in DOMAIN s : i < j /\ s[i] = "command" /\ s[j] = "pong" => i <= n

\* What is said after the replies is not ahead of them.
LEMMA SaidBehind ==
    ASSUME NEW s \in Inboxes, NEW n \in Nat, CommandsAhead(s, n), NEW m \in {"command", "other"}
    PROVE  CommandsAhead(Append(s, m), n)
<1> SUFFICES ASSUME NEW i \in 1..(Len(s) + 1), NEW j \in 1..(Len(s) + 1), i < j,
                    Append(s, m)[i] = "command", Append(s, m)[j] = "pong"
             PROVE  i <= n
  BY Arrives DEF CommandsAhead
<1>1. j # Len(s) + 1
  BY Arrives
<1>2. i \in DOMAIN s /\ j \in DOMAIN s /\ s[i] = "command" /\ s[j] = "pong"
  BY <1>1, Arrives
<1> QED
  BY <1>2 DEF CommandsAhead

LEMMA AheadIsRead ==
    ASSUME NEW s \in Inboxes, s # <<>>, NEW n \in Nat, CommandsAhead(s, n)
    PROVE  /\ Head(s) = "command" /\ PongWaits(Tail(s)) => n > 0
           /\ CommandsAhead(Tail(s), Less(n))
<1>1. 1 \in DOMAIN s /\ Head(s) = s[1]
  BY IsRead
<1>2. ASSUME Head(s) = "command", PongWaits(Tail(s)) PROVE n > 0
  <2>1. PICK i \in 1..(Len(s) - 1) : Tail(s)[i] = "pong"
    BY <1>2, IsRead DEF PongWaits
  <2>2. i + 1 \in DOMAIN s /\ s[i + 1] = "pong" /\ 1 < i + 1
    BY <2>1, IsRead
  <2>3. 1 <= n
    BY <1>1, <1>2, <2>2 DEF CommandsAhead
  <2> QED
    BY <2>3
<1>3. ASSUME NEW i \in 1..(Len(s) - 1), NEW j \in 1..(Len(s) - 1), i < j,
             Tail(s)[i] = "command", Tail(s)[j] = "pong"
      PROVE  i + 1 <= n
  <2>1. /\ i + 1 \in DOMAIN s /\ s[i + 1] = "command"
        /\ j + 1 \in DOMAIN s /\ s[j + 1] = "pong" /\ i + 1 < j + 1
    BY <1>3, IsRead
  <2> QED
    BY <2>1 DEF CommandsAhead
<1>4. CommandsAhead(Tail(s), Less(n))
  BY <1>3, IsRead DEF CommandsAhead, Less
<1> QED
  BY <1>2, <1>4

\* The lag of a reply, which needs a message ahead of it; and how late the last one
\* may be read for its age to be noticed in time.
ReplyLag == IF MaxInbox > 0 /\ hindered THEN Most ELSE 0
InTimeToAge == 3 * heartbeatInterval + Most - LongestWait
OnceRead == IF hindered THEN InTimeToAge ELSE 3 * heartbeatInterval - 14

\* No reply was read since the cloud has become mute, and the last that it had
\* sent is in the inbox in time, if there is one; or some was read, and the last is
\* read early enough for the heartbeat loop to notice its age.
Unread(n) ==
    /\ gone <= sincePong
    /\ PongWaits(inbox) => gone + (IF hindered THEN Rest(n) ELSE 0) <= ReplyLag
SomeRead(n) ==
    /\ PongWaits(inbox)
    /\ gone + Rest(n) <= InTimeToAge
    /\ hindered \/ gone = 0
AllRead == ~PongWaits(inbox) /\ gone <= OnceRead + sincePong

Muteness ==
    Up /\ peer = "mute" =>
       \E n \in 0..MaxInbox :
          CommandsAhead(inbox, n) /\ (Unread(n) \/ SomeRead(n) \/ AllRead)

\* The time in which the age is noticed is left in each case: the longest age is
\* that of a loop that waits for the lock once, and so is the least of the lag.
LEMMA Slack ==
    ASSUME MonitorsAssumption, Sources = 0 => MaxHold = 0
    PROVE  /\ LongestWait \in Nat /\ Most \in Nat /\ Report \in Nat /\ InTimeToAge \in Int
           /\ 4 <= InTimeToAge /\ Most - Report <= InTimeToAge
           /\ \A g \in Nat : g <= LongestWait /\ g <= Most /\ (MaxInbox = 0 => g = 0) =>
                                g <= InTimeToAge
<1>1. Sources \in Nat /\ MaxHold \in Nat /\ MaxInbox \in Nat /\ Report \in Nat /\ Most \in Nat
  BY Cost DEF MonitorsAssumption
<1>2. MaxHold <= Report
  <2>1. CASE Sources = 0
    BY <1>1, <2>1
  <2>2. CASE Sources > 0
    <3>1. 1 * MaxHold <= Sources * MaxHold
      BY <1>1, <2>2
    <3> QED
      BY <1>1, <3>1 DEF Report
  <2> QED
    BY <1>1, <2>1, <2>2
<1>3. Report <= Most
  <2>1. 0 \in 0..MaxInbox /\ Costs(0) \in Nat
    BY <1>1, Cost
  <2>2. Costs(0) + Report <= Most
    BY <2>1, Cost
  <2> QED
    BY <1>1, <2>1, <2>2
<1>4. ASSUME MaxInbox > 0 PROVE 2 * Report <= Most
  <2>1. Costs(1) + Report <= Most /\ Costs(1) = Costs(1 - 1) + Report /\ Costs(0) \in Nat
    <3>1. 1 \in 0..MaxInbox
      BY <1>1, <1>4
    <3> QED
      BY <3>1, Cost
  <2>2. Costs(1 - 1) = Costs(0)
    OBVIOUS
  <2>3. Costs(1) \in Nat
    BY Cost
  <2> QED
    BY <1>1, <2>1, <2>2, <2>3
<1> QED
  <2>1. InTimeToAge = 18 + Most - LongestWait
    BY DEF InTimeToAge
  <2>2. LongestWait \in Nat /\ LongestWait \in {8 + MaxHold, Report + 6, 14}
    BY Longer
  <2>3. CASE LongestWait = 8 + MaxHold
    BY <1>1, <1>2, <1>3, <1>4, <2>1, <2>3
  <2>4. CASE LongestWait = Report + 6
    BY <1>1, <1>3, <1>4, <2>1, <2>4
  <2>5. CASE LongestWait = 14
    BY <1>1, <1>3, <2>1, <2>5
  <2> QED
    BY <2>2, <2>3, <2>4, <2>5

\* The session goes on as before if the reader's lag and the last reply do.
LEMMA StillMute ==
    ASSUME MonitorsAssumption, Sources = 0 => MaxHold = 0, TypeOK, Muteness,
           Up, peer = "mute",
           gone' = gone, sincePong' = sincePong, hindered' = hindered,
           PongWaits(inbox)' <=> PongWaits(inbox),
           \A n \in 0..MaxInbox : CommandsAhead(inbox, n) =>
               \E k \in 0..MaxInbox :
                  /\ CommandsAhead(inbox, k)'
                  /\ PongWaits(inbox) =>
                        Rest(k)' <= Rest(n) /\ Rest(k)' \in Nat /\ Rest(n) \in Nat
    PROVE  Muteness'
<1>1. PICK n \in 0..MaxInbox :
          CommandsAhead(inbox, n) /\ (Unread(n) \/ SomeRead(n) \/ AllRead)
  BY DEF Muteness
<1>2. PICK k \in 0..MaxInbox :
          /\ CommandsAhead(inbox, k)'
          /\ PongWaits(inbox) =>
                Rest(k)' <= Rest(n) /\ Rest(k)' \in Nat /\ Rest(n) \in Nat
  BY <1>1
<1>3. ReplyLag' = ReplyLag /\ OnceRead' = OnceRead /\ InTimeToAge' = InTimeToAge
  BY DEF ReplyLag, OnceRead, InTimeToAge, Most, LongestWait
<1>4. gone \in Nat /\ ReplyLag \in Nat /\ InTimeToAge \in Int
  BY Slack DEF TypeOK, ReplyLag
<1>5. CASE Unread(n)
  <2>1. Unread(k)'
    BY <1>2, <1>3, <1>4, <1>5 DEF Unread
  <2> QED
    BY <1>2, <2>1, Zenon DEF Muteness
<1>6. CASE SomeRead(n)
  <2>1. SomeRead(k)'
    BY <1>2, <1>3, <1>4, <1>6 DEF SomeRead
  <2> QED
    BY <1>2, <2>1, Zenon DEF Muteness
<1>7. CASE AllRead
  <2>1. AllRead'
    BY <1>3, <1>7 DEF AllRead
  <2> QED
    BY <1>2, <2>1, Zenon DEF Muteness
<1> QED
  BY <1>1, <1>5, <1>6, <1>7

\* When the last reply is read early enough, its age starts to run.
LEMMA ReplyIsRead ==
    ASSUME MonitorsAssumption, Sources = 0 => MaxHold = 0, TypeOK, Checked, Placed, Muteness,
           Up, peer = "mute", Read, Head(inbox) = "pong"
    PROVE  Muteness'
<1>1. PICK n \in 0..MaxInbox :
          CommandsAhead(inbox, n) /\ (Unread(n) \/ SomeRead(n) \/ AllRead)
  BY DEF Muteness
<1>2. /\ inbox # <<>> /\ inbox' = Tail(inbox) /\ sincePong' = 0 /\ asking = 0
      /\ UNCHANGED <<gone, hindered>>
  BY Zenon DEF Read
<1>3. gone \in Nat /\ inbox \in Inboxes /\ sincePong \in Nat /\ MaxInbox \in Nat
  BY DEF TypeOK, Inboxes, MonitorsAssumption
<1>4. PongWaits(inbox)
  BY <1>2, <1>3, PongIsRead
<1>5. Rest(n) \in Nat /\ Rest(n) <= Most
  BY AllInTime
<1>6. Rest(Less(n))' \in Nat /\ Rest(Less(n))' <= Rest(n) /\ (n > 0 => Rest(Less(n))' + Report <= Rest(n))
  BY ReadCosts
<1>7. CommandsAhead(inbox', Less(n)) /\ Less(n) \in 0..MaxInbox
  BY <1>1, <1>2, <1>3, AheadIsRead DEF Less
<1>8. sincePong <= (IF hindered THEN LongestWait ELSE 14)
  BY PongAge DEF Longest
<1>9. /\ LongestWait \in Nat /\ Most \in Nat /\ Report \in Nat /\ InTimeToAge \in Int
      /\ 4 <= InTimeToAge /\ Most - Report <= InTimeToAge
      /\ \A g \in Nat : g <= LongestWait /\ g <= Most /\ (MaxInbox = 0 => g = 0) =>
                           g <= InTimeToAge
  BY Slack
<1>10. gone + Rest(Less(n))' <= InTimeToAge /\ (hindered \/ gone = 0)
  <2>1. CASE Unread(n)
    <3>1. gone <= sincePong /\ gone + (IF hindered THEN Rest(n) ELSE 0) <= ReplyLag
      BY <1>4, <2>1 DEF Unread
    <3>2. ReplyLag = IF MaxInbox > 0 /\ hindered THEN Most ELSE 0
      BY DEF ReplyLag
    <3>3. hindered \/ gone = 0
      BY <1>3, <3>1, <3>2
    <3>4. gone + Rest(n) <= Most
      BY <1>3, <1>5, <1>9, <3>1, <3>2, <3>3
    <3>5. CASE n > 0
      BY <1>3, <1>5, <1>6, <1>9, <3>3, <3>4, <3>5
    <3>6. CASE n = 0
      <4>1. Costs(0) = 0 /\ Waits(asking, held) = 0
        BY <1>2, Cost DEF Costs, Waits
      <4>2. Rest(n) = 0
        BY <3>6, <4>1 DEF Rest
      <4>3. Rest(Less(n))' = 0
        BY <1>6, <4>2
      <4>4. gone <= InTimeToAge
        BY <1>3, <1>8, <1>9, <3>1, <3>2, <3>3, <3>4, <4>2
      <4> QED
        BY <1>3, <3>3, <4>3, <4>4
    <3> QED
      BY <3>5, <3>6
  <2>2. CASE SomeRead(n)
    BY <1>3, <1>5, <1>6, <1>9, <2>2 DEF SomeRead
  <2> QED
    BY <1>1, <1>4, <2>1, <2>2 DEF AllRead
<1>11. SomeRead(Less(n))' \/ AllRead'
  <2>1. CASE PongWaits(inbox)'
    BY <1>2, <1>10, <2>1 DEF SomeRead, InTimeToAge, Most, LongestWait
  <2>2. CASE ~PongWaits(inbox)'
    <3>1. OnceRead' = IF hindered THEN InTimeToAge ELSE 4
      BY <1>2 DEF OnceRead, InTimeToAge, Most, LongestWait
    <3>2. gone <= (IF hindered THEN InTimeToAge ELSE 4)
      BY <1>3, <1>6, <1>9, <1>10
    <3> QED
      BY <1>2, <1>9, <2>2, <3>1, <3>2 DEF AllRead
  <2> QED
    BY <2>1, <2>2
<1> QED
  BY <1>7, <1>11, Zenon DEF Muteness

\* Every step of a session keeps that.
LEMMA MutenessStep ==
    ASSUME MonitorsAssumption, Sources = 0 => MaxHold = 0, TypeOK, Checked, Placed, Muteness,
           [Next]_vars
    PROVE  Muteness'
<1> SUFFICES ASSUME Up', peer' = "mute" PROVE Muteness'
  BY DEF Muteness
<1>0. /\ MaxInbox \in Nat /\ gone \in Nat /\ sincePong \in Nat /\ asking \in 0..Sources
      /\ inbox \in Inboxes
  BY DEF TypeOK, MonitorsAssumption, Inboxes
<1>1. CASE UNCHANGED <<session, peer, gone, inbox, asking, sincePong, held, hindered>>
  <2>1. \A n \in 0..MaxInbox : Rest(n)' = Rest(n) /\ Rest(n) \in Nat
    BY <1>1, AllInTime DEF Rest, Costs, Report, Waits
  <2>2. \A n \in 0..MaxInbox : CommandsAhead(inbox, n) =>
           \E k \in 0..MaxInbox :
              /\ CommandsAhead(inbox, k)'
              /\ PongWaits(inbox) => Rest(k)' <= Rest(n) /\ Rest(k)' \in Nat /\ Rest(n) \in Nat
    BY <1>1, <2>1
  <2>3. Up /\ peer = "mute" /\ (PongWaits(inbox)' <=> PongWaits(inbox))
    BY <1>1 DEF Up
  <2> QED
    BY <1>1, <2>2, <2>3, StillMute
<1>2. CASE UNCHANGED vars \/ Over \/ Heartbeat \/ Pushed
  <2>1. UNCHANGED <<session, peer, gone, inbox, asking, sincePong, held, hindered>>
    BY <1>2, Zenon DEF vars, reader, Over, Heartbeat, Pushed
  <2> QED
    BY <1>1, <2>1
<1>3. ASSUME NEW r \in {"read", "pong", "watchdog"}, End(r) PROVE FALSE
  BY <1>3 DEF End, Up
<1>4. CASE ReadFails \/ PongTimeout
  BY <1>3, <1>4 DEF ReadFails, PongTimeout
<1>5. CASE Watch
  <2>1. UNCHANGED <<session, peer, gone, inbox, asking, sincePong, held, hindered>>
    BY <1>3, <1>5 DEF Watch, reader
  <2> QED
    BY <1>1, <2>1
<1>6. CASE Reply
  BY <1>6 DEF Reply
<1>7. CASE Cease
  <2>1. UNCHANGED <<inbox, asking, sincePong, held, hindered>> /\ gone' = 0
    BY <1>7, Zenon DEF Cease, reader
  <2>2. CommandsAhead(inbox', MaxInbox) /\ MaxInbox \in 0..MaxInbox
    BY <1>0, <2>1 DEF Placed, CommandsWithin, CommandsAhead
  <2>3. ASSUME PongWaits(inbox)
        PROVE  (IF hindered' THEN Rest(MaxInbox)' ELSE 0) <= ReplyLag'
    <3>1. Rest(MaxInbox)' = Rest(MaxInbox) /\ ReplyLag' = ReplyLag
      BY <2>1 DEF Rest, Costs, Report, Waits, ReplyLag, Most
    <3>2. Rest(MaxInbox) <= Most /\ Rest(MaxInbox) \in Nat
      BY <2>2, AllInTime
    <3>3. MaxInbox = 0 => Rest(MaxInbox) = 0
      BY <2>3, Cost DEF Placed, Rest, Waits, Costs
    <3> QED
      BY <1>0, <2>1, <3>1, <3>2, <3>3 DEF ReplyLag
  <2>4. (IF hindered' THEN Rest(MaxInbox)' ELSE 0) \in Nat
    BY <2>1, <2>2, AllInTime DEF Rest, Costs, Report, Waits
  <2>5. Unread(MaxInbox)'
    BY <1>0, <2>1, <2>3, <2>4 DEF Unread
  <2> QED
    BY <2>2, <2>5, Zenon DEF Muteness
<1>8. CASE Say
  <2>1. /\ Up /\ UNCHANGED <<session, peer, gone, asking, sincePong, held, hindered>>
        /\ \E m \in Messages : inbox' = Append(inbox, m)
    BY <1>8, Zenon DEF Say, reader
  <2>2. PICK m \in {"command", "other"} : inbox' = Append(inbox, m)
    BY <2>1 DEF MonitorsAssumption
  <2>3. PongWaits(inbox)' <=> PongWaits(inbox)
    <3>1. m \in {"pong", "command", "other"} /\ m # "pong"
      OBVIOUS
    <3>2. PongWaits(Append(inbox, m)) <=> PongWaits(inbox)
      BY <1>0, <3>1, PongArrives
    <3> QED
      BY <2>2, <3>2
  <2>4. ASSUME NEW n \in 0..MaxInbox, CommandsAhead(inbox, n)
        PROVE  CommandsAhead(inbox, n)' /\ Rest(n)' = Rest(n) /\ Rest(n) \in Nat
    <3>1. CommandsAhead(Append(inbox, m), n)
      BY <1>0, <2>4, SaidBehind
    <3>2. CommandsAhead(inbox, n)'
      BY <2>2, <3>1
    <3>3. Rest(n)' = Rest(n) /\ Rest(n) \in Nat
      BY <2>1, AllInTime DEF Rest, Costs, Report, Waits
    <3> QED
      BY <3>2, <3>3
  <2>5. \A n \in 0..MaxInbox : CommandsAhead(inbox, n) =>
           \E k \in 0..MaxInbox :
              /\ CommandsAhead(inbox, k)'
              /\ PongWaits(inbox) =>
                    Rest(k)' <= Rest(n) /\ Rest(k)' \in Nat /\ Rest(n) \in Nat
    BY <2>4
  <2>6. peer = "mute"
    BY <2>1
  <2> QED
    BY <2>1, <2>3, <2>5, <2>6, StillMute
<1>9. CASE Read
  <2>1. /\ Up /\ UNCHANGED <<session, peer, gone, held, hindered>>
        /\ inbox # <<>> /\ inbox' = Tail(inbox)
        /\ sincePong' = IF Head(inbox) = "pong" THEN 0 ELSE sincePong
    BY <1>9, Zenon DEF Read
  <2>2. peer = "mute"
    BY <2>1
  <2>3. CASE Head(inbox) = "pong"
    BY <1>9, <2>1, <2>2, <2>3, ReplyIsRead
  <2>4. CASE Head(inbox) # "pong"
    <3>1. PongWaits(inbox)' <=> PongWaits(inbox)
      <4>1. PongWaits(Tail(inbox)) <=> PongWaits(inbox)
        BY <1>0, <2>1, <2>4, PongIsRead
      <4> QED
        BY <2>1, <4>1
    <3>2. ASSUME NEW n \in 0..MaxInbox, CommandsAhead(inbox, n)
          PROVE  /\ Less(n) \in 0..MaxInbox /\ CommandsAhead(inbox, Less(n))'
                 /\ PongWaits(inbox) =>
                       /\ Rest(Less(n))' <= Rest(n)
                       /\ Rest(Less(n))' \in Nat /\ Rest(n) \in Nat
      <4>1. Less(n) \in 0..MaxInbox
        BY <1>0 DEF Less
      <4>2. /\ Head(inbox) = "command" /\ PongWaits(Tail(inbox)) => n > 0
            /\ CommandsAhead(Tail(inbox), Less(n))
        BY <1>0, <2>1, <3>2, AheadIsRead
      <4>3. CommandsAhead(inbox, Less(n))'
        BY <2>1, <4>2 DEF Less
      <4>4. ASSUME PongWaits(inbox)
            PROVE  /\ Rest(Less(n))' <= Rest(n)
                   /\ Rest(Less(n))' \in Nat /\ Rest(n) \in Nat
        <5>1. Head(inbox) = "command" => n > 0
          BY <2>1, <3>1, <4>2, <4>4
        <5>2. Rest(Less(n))' \in Nat /\ Rest(Less(n))' <= Rest(n) /\ Rest(n) \in Nat
          BY <1>9, <5>1, ReadCosts, AllInTime
        <5> QED
          BY <5>2
      <4> QED
        BY <4>1, <4>3, <4>4
    <3>3. sincePong' = sincePong /\ gone' = gone /\ hindered' = hindered
      BY <2>1, <2>4
    <3>4. \A n \in 0..MaxInbox : CommandsAhead(inbox, n) =>
           \E k \in 0..MaxInbox :
              /\ CommandsAhead(inbox, k)'
              /\ PongWaits(inbox) =>
                    Rest(k)' <= Rest(n) /\ Rest(k)' \in Nat /\ Rest(n) \in Nat
      BY <3>2
    <3> QED
      BY <2>1, <2>2, <3>1, <3>3, <3>4, StillMute
  <2> QED
    BY <2>3, <2>4
<1>10. CASE Ask \/ Lock \/ Unlock
  <2>1. Up /\ UNCHANGED <<session, peer, gone, inbox, sincePong, hindered>>
    BY <1>10, Zenon DEF Ask, Lock, Unlock, Asked, reader
  <2>2. PongWaits(inbox)' <=> PongWaits(inbox)
    BY <2>1
  <2>3. ASSUME NEW n \in 0..MaxInbox, CommandsAhead(inbox, n)
        PROVE  /\ CommandsAhead(inbox, n)'
               /\ Rest(n)' <= Rest(n) /\ Rest(n)' \in Nat /\ Rest(n) \in Nat
    <3>1. Rest(n)' \in Nat /\ Rest(n)' <= Rest(n) /\ Rest(n) \in Nat
      BY <1>10, LockCosts, AllInTime
    <3>2. CommandsAhead(inbox, n)'
      BY <2>1, <2>3
    <3> QED
      BY <3>1, <3>2
  <2>4. \A n \in 0..MaxInbox : CommandsAhead(inbox, n) =>
           \E k \in 0..MaxInbox :
              /\ CommandsAhead(inbox, k)'
              /\ PongWaits(inbox) =>
                    Rest(k)' <= Rest(n) /\ Rest(k)' \in Nat /\ Rest(n) \in Nat
    BY <2>3
  <2>5. peer = "mute"
    BY <2>1
  <2> QED
    BY <2>1, <2>2, <2>4, <2>5, StillMute
<1>11. CASE Tick
  <2>1. /\ Up /\ peer' = peer /\ UNCHANGED <<inbox, asking>>
        /\ sincePong' = sincePong + 1
        /\ hindered => hindered'
        /\ asking > 0 => hindered'
        /\ gone' = IF peer = "alive" THEN 0 ELSE gone + 1
        /\ asking = 0 => inbox = <<>>
    BY <1>11, TickEffect, Zenon
  <2>2. gone' = gone + 1 /\ peer = "mute"
    BY <2>1
  <2>3. PICK n \in 0..MaxInbox :
            CommandsAhead(inbox, n) /\ (Unread(n) \/ SomeRead(n) \/ AllRead)
    BY <2>1, <2>2 DEF Muteness
  <2>4. CommandsAhead(inbox, n)' /\ (PongWaits(inbox)' <=> PongWaits(inbox))
    BY <2>1, <2>3
  <2>5. PongWaits(inbox) => asking # 0
    BY <2>1 DEF PongWaits
  <2>6. InTimeToAge \in Int /\ 4 <= InTimeToAge /\ Most \in Nat
    BY Slack
  <2>7. CASE PongWaits(inbox)
    <3>1. Rest(n)' = Rest(n) - 1 /\ Rest(n) \in Nat /\ Rest(n) <= Most
      BY <1>11, <2>5, <2>7, TickCosts, AllInTime
    <3>2. hindered' /\ MaxInbox > 0
      BY <1>0, <2>1, <2>5, <2>7 DEF Placed
    <3>3. ReplyLag' = Most /\ InTimeToAge' = InTimeToAge
      BY <3>2 DEF ReplyLag, Most, InTimeToAge, LongestWait
    <3>4. CASE Unread(n)
      <4>1. gone <= sincePong /\ gone + (IF hindered THEN Rest(n) ELSE 0) <= ReplyLag
        BY <2>7, <3>4 DEF Unread
      <4>2. ReplyLag = IF hindered THEN Most ELSE 0
        BY <3>2 DEF ReplyLag
      <4>3. gone + Rest(n) <= Most
        BY <1>0, <2>6, <3>1, <4>1, <4>2
      <4>4. gone' + Rest(n)' <= ReplyLag' /\ gone' <= sincePong'
        BY <1>0, <2>1, <2>2, <2>6, <3>1, <3>3, <4>1, <4>3
      <4>5. Unread(n)'
        BY <3>2, <4>4 DEF Unread
      <4> QED
        BY <2>4, <4>5, Zenon DEF Muteness
    <3>5. CASE SomeRead(n)
      <4>1. gone + Rest(n) <= InTimeToAge
        BY <3>5 DEF SomeRead
      <4>2. gone' + Rest(n)' <= InTimeToAge'
        BY <1>0, <2>2, <2>6, <3>1, <3>3, <4>1
      <4>3. SomeRead(n)'
        BY <2>4, <2>7, <3>2, <4>2 DEF SomeRead
      <4> QED
        BY <2>4, <4>3, Zenon DEF Muteness
    <3> QED
      BY <2>3, <2>7, <3>4, <3>5 DEF AllRead
  <2>8. CASE ~PongWaits(inbox)
    <3>1. OnceRead <= OnceRead' /\ OnceRead \in Int /\ OnceRead' \in Int
      <4>1. OnceRead = IF hindered THEN InTimeToAge ELSE 4
        BY DEF OnceRead
      <4>2. OnceRead' = IF hindered' THEN InTimeToAge ELSE 4
        BY DEF OnceRead, InTimeToAge, Most, LongestWait
      <4> QED
        BY <2>1, <2>6, <4>1, <4>2
    <3>2. CASE Unread(n)
      <4>1. Unread(n)'
        BY <1>0, <2>1, <2>2, <2>4, <2>8, <3>2 DEF Unread
      <4> QED
        BY <2>4, <4>1, Zenon DEF Muteness
    <3>3. CASE AllRead
      <4>1. gone <= OnceRead + sincePong
        BY <3>3 DEF AllRead
      <4>2. gone' = gone + 1 /\ sincePong' = sincePong + 1
        BY <2>1, <2>2
      <4>3. gone' <= OnceRead' + sincePong'
        <5>1. \A x, y \in Int : x <= y /\ gone <= x + sincePong => gone + 1 <= y + (sincePong + 1)
          BY <1>0
        <5> QED
          BY <3>1, <4>1, <4>2, <5>1, Zenon
      <4>4. AllRead'
        BY <2>4, <2>8, <4>3 DEF AllRead
      <4> QED
        BY <2>4, <4>4, Zenon DEF Muteness
    <3> QED
      BY <2>3, <2>8, <3>2, <3>3 DEF SomeRead
  <2> QED
    BY <2>7, <2>8
<1> QED
  BY <1>2, <1>4, <1>5, <1>6, <1>7, <1>8, <1>9, <1>10, <1>11, Zenon DEF Next

\* A cloud that sends messages but no replies to heartbeats is noticed by the third
\* heartbeat, however long the reader takes to get to its last reply, if a data
\* source whose driver may hold the lock is one that the handler asks about.
THEOREM MuteNoticed ==
    ASSUME MonitorsAssumption, Sources = 0 => MaxHold = 0
    PROVE  Spec => []MuteIsNoticed
<1>1. Init => Placed /\ Muteness
  BY PlacedInit DEF Init, Muteness
<1>2. Known /\ Placed /\ Muteness /\ [Next]_vars => Placed' /\ Muteness'
  BY PlacedStep, MutenessStep DEF Known
<1>3. Known /\ Muteness => MuteIsNoticed
  <2> SUFFICES ASSUME Known, Muteness, Up, peer = "mute"
               PROVE  gone <= 3 * heartbeatInterval + Lag
    BY DEF MuteIsNoticed
  <2>1. gone \in Nat /\ sincePong \in Nat
    BY DEF Known, TypeOK
  <2>2. Lag = (IF hindered THEN Most ELSE 0) /\ Most \in Nat
    BY Cost DEF Lag, Most
  <2>3. PICK n \in 0..MaxInbox : Unread(n) \/ SomeRead(n) \/ AllRead
    BY DEF Muteness
  <2>4. Rest(n) \in Nat
    BY AllInTime DEF Known
  <2>5. sincePong <= (IF hindered THEN LongestWait ELSE 14)
    BY PongAge DEF Known, Longest
  <2>6. LongestWait \in Nat /\ InTimeToAge \in Int /\ 4 <= InTimeToAge
    BY Slack
  <2>7. InTimeToAge = 18 + Most - LongestWait
    BY DEF InTimeToAge
  <2>8. CASE Unread(n)
    BY <2>1, <2>2, <2>5, <2>6, <2>7, <2>8 DEF Unread
  <2>9. CASE SomeRead(n)
    BY <2>1, <2>2, <2>4, <2>6, <2>7, <2>9 DEF SomeRead
  <2>10. CASE AllRead
    BY <2>1, <2>2, <2>5, <2>6, <2>7, <2>10 DEF AllRead, OnceRead
  <2> QED
    BY <2>3, <2>8, <2>9, <2>10
<1> QED
  BY <1>1, <1>2, <1>3, KnownAlways, PTL DEF Spec
=============================================================================
