----------------------------- MODULE RelayProofs -----------------------------
(***************************************************************************)
(* Theorems about Relay, for every set of runs of queries, every number of *)
(* batches and sessions and every capacity.                                *)
(***************************************************************************)
EXTENDS Relay, TLAPS

-----------------------------------------------------------------------------
(* The sessions: types, the one live session, the health flag.             *)

\* A loop belongs to a session that was joined, the one being set up has none.
LoopsOfJoined ==
    /\ \A s \in Sessions : writer[s] = "unborn" <=> reader[s] = "unborn"
    /\ \A s \in Sessions : writer[s] # "unborn" => s <= session /\ s <= MaxSessions
    /\ loop \in {"dialing", "joining", "reporting"} =>
           /\ writer[session] = "unborn"
           /\ reader[session] = "unborn"

\* What the places in runSession imply about the fields of the relay.
Places ==
    /\ loop \in InSession => session # 0
    /\ loop \in {"joining", "reporting", "running"} => status = "connected"
    /\ loop \in {"reporting", "running"} => joinRef = session /\ joinRef # 0

\* A message about to be sent carries a joinRef; only rows ever wait.
Stamped ==
    /\ \A r \in Runs : worker[r].pc = "send" => worker[r].join # 0
    /\ \A i \in DOMAIN sendq : sendq[i].run \in Runs

SessionInv == /\ TypeOK /\ LoopsOfJoined /\ Places /\ Stamped
              /\ OneLiveSession /\ HealthTruthful

WorkerType == [pc : {"none", "sem", "done"} \cup Holding, batch : 0..Batches,
               join : 0..MaxSessions, first : 0..MaxSessions]

LEMMA NextBatchType ==
    ASSUME NEW w \in WorkerType
    PROVE  NextBatch(w) \in WorkerType /\ NextBatch(w).pc # "send"
  <1> USE RelayAssumption DEF RelayAssumption, WorkerType, Holding
  <1>1. [w EXCEPT !.pc = "done"] \in WorkerType
    OBVIOUS
  <1>2. ASSUME w.batch \notin {0, Batches}
        PROVE  [w EXCEPT !.pc = "capture", !.batch = w.batch + 1] \in WorkerType
    <2>1. w.batch + 1 \in 0..Batches
      BY <1>2
    <2> QED BY <2>1
  <1> QED BY <1>1, <1>2 DEF NextBatch

\* What a receive from outCh leaves of the channel and of the goroutines.
LEMMA ReceiveType ==
    ASSUME TypeOK, Stamped, Receive
    PROVE  /\ outCh' \in Seq(Message) /\ Len(outCh') <= QueueCap
           /\ sendq' \in Seq(Message)
           /\ worker' \in [Runs -> WorkerType]
           /\ Stamped'
           /\ Head(outCh) \in Message
  <1> USE RelayAssumption DEF RelayAssumption, TypeOK, Stamped
  <1>0. Head(outCh) \in Message /\ Tail(outCh) \in Seq(Message)
        /\ Len(Tail(outCh)) = Len(outCh) - 1 /\ Len(outCh) \in Nat
    BY DEF Receive
  <1>1. CASE sendq = <<>>
    <2>1. outCh' = Tail(outCh) /\ sendq' = sendq /\ worker' = worker
      BY <1>1 DEF Receive
    <2> QED BY <1>0, <2>1 DEF WorkerType
  <1>2. CASE sendq # <<>>
    <2> DEFINE r == Head(sendq).run
    <2>1. r \in Runs /\ Head(sendq) \in Message
      BY <1>2
    <2>2. worker[r] \in WorkerType /\ worker \in [Runs -> WorkerType]
      BY <2>1 DEF WorkerType
    <2>3. NextBatch(worker[r]) \in WorkerType /\ NextBatch(worker[r]).pc # "send"
      BY <2>2, NextBatchType
    <2>4. /\ outCh' = Append(Tail(outCh), Head(sendq))
          /\ sendq' = Tail(sendq)
          /\ worker' = [worker EXCEPT ![r] = NextBatch(worker[r])]
      BY <1>2 DEF Receive
    <2>5. worker' \in [Runs -> WorkerType]
      BY <2>2, <2>3, <2>4
    <2>6. \A q \in Runs : worker'[q].pc = "send" => worker'[q].join # 0
      BY <2>1, <2>2, <2>3, <2>4
    <2>7. outCh' \in Seq(Message) /\ Len(outCh') <= QueueCap
      BY <2>1, <2>4 DEF Receive
    <2>8. sendq' \in Seq(Message) /\ \A i \in DOMAIN sendq' : sendq'[i].run \in Runs
      BY <1>2, <2>4
    <2> QED BY <2>5, <2>6, <2>7, <2>8 DEF Receive
  <1> QED BY <1>1, <1>2

\* TypeOK in two halves: what connectLoop works on, and what the loops of the
\* sessions and the query goroutines do.
ControlType ==
    /\ loop \in {"init", "parked", "top", "build", "ready", "ended", "draining",
                 "backoff", "restarting", "exited"} \cup InSession
    /\ status \in {"stopped", "not_configured", "connecting", "connected",
                   "reconnecting"}
    /\ joined \in BOOLEAN
    /\ failing \in BOOLEAN
    /\ session \in 0..(MaxSessions + 1)
    /\ \A s \in cancelled : s \in Sessions
    /\ joinRef \in 0..MaxSessions
    /\ stopped \in BOOLEAN
    /\ configured \in BOOLEAN
    /\ overlap \in BOOLEAN

DataType ==
    /\ outCh \in Seq(Message) /\ Len(outCh) <= QueueCap
    /\ sendq \in Seq(Message)
    /\ writer \in [Sessions -> {"unborn", "idle", "busy", "exited"}]
    /\ inHand \in [Sessions -> Message \cup {NoMsg}]
    /\ reader \in [Sessions -> {"unborn", "idle", "closing", "exited"}]
    /\ worker \in [Runs -> WorkerType]
    /\ delivered \in [Runs -> Seq([conn : Sessions, batch : 0..Batches])]

LEMMA TypeHalves == TypeOK <=> ControlType /\ DataType
  BY DEF TypeOK, ControlType, DataType, WorkerType

LEMMA SessionInit == Init => SessionInv
  <1> SUFFICES ASSUME Init PROVE SessionInv
    OBVIOUS
  <1> USE RelayAssumption DEF RelayAssumption, Init
  <1>1. ControlType
    <2>1. session \in 0..(MaxSessions + 1) /\ joinRef \in 0..MaxSessions
      OBVIOUS
    <2>2. \A s \in cancelled : s \in Sessions
      OBVIOUS
    <2> QED BY <2>1, <2>2, Zenon DEF ControlType, InSession
  <1>2. DataType
    BY DEF DataType, WorkerType, Holding, Sessions
  <1>3. LoopsOfJoined /\ Places /\ Stamped /\ OneLiveSession /\ HealthTruthful
    BY DEF LoopsOfJoined, Places, Stamped, OneLiveSession, HealthTruthful,
           InSession, Sessions
  <1> QED BY <1>1, <1>2, <1>3, TypeHalves DEF SessionInv

\* The steps of connectLoop and of the outside world that leave the channel,
\* the loops of the sessions and the query goroutines alone.
LEMMA SessionControl ==
    ASSUME SessionInv,
           \/ Start \/ Unpark \/ LoopTop \/ BuildURL \/ NewSession \/ DialOk
           \/ SessionFails \/ JoinOk \/ LoopReturned \/ MonitorTrips
           \/ AfterSession \/ DrainDone \/ Backoff \/ SaveConfig \/ Stop
    PROVE  SessionInv'
  <1>0. ControlType /\ DataType /\ LoopsOfJoined /\ Places /\ OneLiveSession
        /\ HealthTruthful
    BY TypeHalves DEF SessionInv
  <1> USE RelayAssumption, <1>0 DEF RelayAssumption, InSession, Sessions
  <1>1. UNCHANGED <<chanVars, ioVars, worker, delivered>>
    BY DEF Start, Unpark, LoopTop, BuildURL, NewSession, DialOk, SessionFails, JoinOk, LoopReturned, MonitorTrips, AfterSession, DrainDone, Backoff, SaveConfig, Stop, EndSession, dataVars
  <1>2. DataType' /\ Stamped'
    BY <1>1 DEF DataType, Stamped, SessionInv, chanVars, ioVars
  <1>3. CASE Start
    <2>1. ControlType'
      BY <1>3 DEF Start, ControlType, loopVars, ctxVars, dataVars, envVars
    <2>2. LoopsOfJoined' /\ Places'
      BY <1>3, <1>1 DEF Start, ControlType, DataType, LoopsOfJoined, Places,
         loopVars, ctxVars, ioVars, dataVars
    <2>3. OneLiveSession'
      BY <1>3 DEF Start, ControlType, OneLiveSession, Places, loopVars, ctxVars
    <2>4. HealthTruthful'
      BY <1>3 DEF Start, ControlType, HealthTruthful, Places, loopVars, ctxVars,
         dataVars
    <2> QED BY <2>1, <2>2, <2>3, <2>4, <1>2, TypeHalves, PTL DEF SessionInv
  <1>4. CASE Unpark
    <2>1. ControlType'
      BY <1>4 DEF Unpark, ControlType, loopVars, ctxVars, dataVars, envVars
    <2>2. LoopsOfJoined' /\ Places'
      BY <1>4, <1>1 DEF Unpark, ControlType, DataType, LoopsOfJoined, Places,
         loopVars, ctxVars, ioVars, dataVars
    <2>3. OneLiveSession'
      BY <1>4 DEF Unpark, ControlType, OneLiveSession, Places, loopVars, ctxVars
    <2>4. HealthTruthful'
      BY <1>4 DEF Unpark, ControlType, HealthTruthful, Places, loopVars, ctxVars,
         dataVars
    <2> QED BY <2>1, <2>2, <2>3, <2>4, <1>2, TypeHalves, PTL DEF SessionInv
  <1>5. CASE LoopTop
    <2>1. ControlType'
      BY <1>5 DEF LoopTop, ControlType, loopVars, ctxVars, dataVars, envVars
    <2>2. LoopsOfJoined' /\ Places'
      BY <1>5, <1>1 DEF LoopTop, ControlType, DataType, LoopsOfJoined, Places,
         loopVars, ctxVars, ioVars, dataVars
    <2>3. OneLiveSession'
      BY <1>5 DEF LoopTop, ControlType, OneLiveSession, Places, loopVars, ctxVars
    <2>4. HealthTruthful'
      BY <1>5 DEF LoopTop, ControlType, HealthTruthful, Places, loopVars, ctxVars,
         dataVars
    <2> QED BY <2>1, <2>2, <2>3, <2>4, <1>2, TypeHalves, PTL DEF SessionInv
  <1>6. CASE BuildURL
    <2>1. ControlType'
      BY <1>6 DEF BuildURL, ControlType, loopVars, ctxVars, dataVars, envVars
    <2>2. LoopsOfJoined' /\ Places'
      BY <1>6, <1>1 DEF BuildURL, ControlType, DataType, LoopsOfJoined, Places,
         loopVars, ctxVars, ioVars, dataVars
    <2>3. OneLiveSession'
      BY <1>6 DEF BuildURL, ControlType, OneLiveSession, Places, loopVars, ctxVars
    <2>4. HealthTruthful'
      BY <1>6 DEF BuildURL, ControlType, HealthTruthful, Places, loopVars, ctxVars,
         dataVars
    <2> QED BY <2>1, <2>2, <2>3, <2>4, <1>2, TypeHalves, PTL DEF SessionInv
  <1>7. CASE NewSession
    <2>0. /\ session' \in Sessions /\ session <= session'
          /\ writer[session'] = "unborn" /\ reader[session'] = "unborn"
      <3>1. CASE session = 0
        BY <1>7, <3>1 DEF NewSession, ControlType, DataType, LoopsOfJoined
      <3>2. CASE session # 0 /\ writer[session] = "unborn"
        <4>1. session \in Sessions /\ session' = session
          BY <1>7, <3>2 DEF NewSession, ControlType
        <4> QED BY <4>1, <3>2 DEF DataType, LoopsOfJoined
      <3>3. CASE session # 0 /\ writer[session] # "unborn"
        <4>1. session \in Sessions /\ session <= MaxSessions
              /\ session' = session + 1
          BY <1>7, <3>3 DEF NewSession, ControlType, LoopsOfJoined
        <4>2. session' \in Sessions /\ ~(session' <= session)
          BY <4>1 DEF ControlType
        <4> QED BY <4>1, <4>2 DEF DataType, LoopsOfJoined
      <3> QED BY <3>1, <3>2, <3>3
    <2>1. ControlType'
      BY <1>7, <2>0 DEF NewSession, ControlType, dataVars, envVars
    <2>2. LoopsOfJoined' /\ Places'
      BY <1>7, <1>1, <2>0 DEF NewSession, ControlType, LoopsOfJoined, Places,
         ioVars
    <2>3. OneLiveSession'
      BY <1>7, <2>0 DEF NewSession, ControlType, OneLiveSession
    <2>4. HealthTruthful'
      BY <1>7 DEF NewSession, HealthTruthful
    <2> QED BY <2>1, <2>2, <2>3, <2>4, <1>2, TypeHalves, PTL DEF SessionInv
  <1>8. CASE DialOk
    <2>1. ControlType'
      BY <1>8 DEF DialOk, ControlType, loopVars, ctxVars, dataVars, envVars
    <2>2. LoopsOfJoined' /\ Places'
      BY <1>8, <1>1 DEF DialOk, ControlType, DataType, LoopsOfJoined, Places,
         loopVars, ctxVars, ioVars, dataVars
    <2>3. OneLiveSession'
      BY <1>8 DEF DialOk, ControlType, OneLiveSession, Places, loopVars, ctxVars
    <2>4. HealthTruthful'
      BY <1>8 DEF DialOk, ControlType, HealthTruthful, Places, loopVars, ctxVars,
         dataVars
    <2> QED BY <2>1, <2>2, <2>3, <2>4, <1>2, TypeHalves, PTL DEF SessionInv
  <1>9. CASE SessionFails
    <2>1. ControlType'
      BY <1>9 DEF SessionFails, ControlType, Places, dataVars,
         envVars
    <2>2. LoopsOfJoined' /\ Places'
      BY <1>9, <1>1 DEF SessionFails, ControlType, DataType, LoopsOfJoined, Places,
         loopVars, ctxVars, ioVars, dataVars
    <2>3. OneLiveSession'
      BY <1>9 DEF SessionFails, ControlType, OneLiveSession, Places, loopVars, ctxVars
    <2>4. HealthTruthful'
      BY <1>9 DEF SessionFails, ControlType, HealthTruthful, Places, loopVars, ctxVars,
         dataVars
    <2> QED BY <2>1, <2>2, <2>3, <2>4, <1>2, TypeHalves, PTL DEF SessionInv
  <1>10. CASE JoinOk
    <2>1. ControlType'
      BY <1>10 DEF JoinOk, ControlType, loopVars, ctxVars, dataVars, envVars
    <2>2. LoopsOfJoined' /\ Places'
      BY <1>10, <1>1 DEF JoinOk, ControlType, DataType, LoopsOfJoined, Places,
         loopVars, ctxVars, ioVars, dataVars
    <2>3. OneLiveSession'
      BY <1>10 DEF JoinOk, ControlType, OneLiveSession, Places, loopVars, ctxVars
    <2>4. HealthTruthful'
      BY <1>10 DEF JoinOk, ControlType, HealthTruthful, Places, loopVars, ctxVars,
         dataVars
    <2> QED BY <2>1, <2>2, <2>3, <2>4, <1>2, TypeHalves, PTL DEF SessionInv
  <1>11. CASE LoopReturned
    <2>1. ControlType'
      BY <1>11 DEF LoopReturned, EndSession, ControlType, Places, dataVars,
         envVars
    <2>2. LoopsOfJoined' /\ Places'
      BY <1>11, <1>1 DEF LoopReturned, EndSession, ControlType, DataType, LoopsOfJoined, Places,
         loopVars, ctxVars, ioVars, dataVars
    <2>3. OneLiveSession'
      BY <1>11 DEF LoopReturned, EndSession, ControlType, OneLiveSession, Places, loopVars, ctxVars
    <2>4. HealthTruthful'
      BY <1>11 DEF LoopReturned, EndSession, ControlType, HealthTruthful, Places, loopVars, ctxVars,
         dataVars
    <2> QED BY <2>1, <2>2, <2>3, <2>4, <1>2, TypeHalves, PTL DEF SessionInv
  <1>12. CASE MonitorTrips
    <2>1. ControlType'
      BY <1>12 DEF MonitorTrips, EndSession, ControlType, Places, dataVars,
         envVars
    <2>2. LoopsOfJoined' /\ Places'
      BY <1>12, <1>1 DEF MonitorTrips, EndSession, ControlType, DataType, LoopsOfJoined, Places,
         loopVars, ctxVars, ioVars, dataVars
    <2>3. OneLiveSession'
      BY <1>12 DEF MonitorTrips, EndSession, ControlType, OneLiveSession, Places, loopVars, ctxVars
    <2>4. HealthTruthful'
      BY <1>12 DEF MonitorTrips, EndSession, ControlType, HealthTruthful, Places, loopVars, ctxVars,
         dataVars
    <2> QED BY <2>1, <2>2, <2>3, <2>4, <1>2, TypeHalves, PTL DEF SessionInv
  <1>13. CASE AfterSession
    <2>1. ControlType'
      BY <1>13 DEF AfterSession, ControlType, loopVars, ctxVars, dataVars, envVars
    <2>2. LoopsOfJoined' /\ Places'
      BY <1>13, <1>1 DEF AfterSession, ControlType, DataType, LoopsOfJoined, Places,
         loopVars, ctxVars, ioVars, dataVars
    <2>3. OneLiveSession'
      BY <1>13 DEF AfterSession, ControlType, OneLiveSession, Places, loopVars, ctxVars
    <2>4. HealthTruthful'
      BY <1>13 DEF AfterSession, ControlType, HealthTruthful, Places, loopVars, ctxVars,
         dataVars
    <2> QED BY <2>1, <2>2, <2>3, <2>4, <1>2, TypeHalves, PTL DEF SessionInv
  <1>14. CASE DrainDone
    <2>1. ControlType'
      BY <1>14 DEF DrainDone, ControlType, loopVars, ctxVars, dataVars, envVars
    <2>2. LoopsOfJoined' /\ Places'
      BY <1>14, <1>1 DEF DrainDone, ControlType, DataType, LoopsOfJoined, Places,
         loopVars, ctxVars, ioVars, dataVars
    <2>3. OneLiveSession'
      BY <1>14 DEF DrainDone, ControlType, OneLiveSession, Places, loopVars, ctxVars
    <2>4. HealthTruthful'
      BY <1>14 DEF DrainDone, ControlType, HealthTruthful, Places, loopVars, ctxVars,
         dataVars
    <2> QED BY <2>1, <2>2, <2>3, <2>4, <1>2, TypeHalves, PTL DEF SessionInv
  <1>15. CASE Backoff
    <2>1. ControlType'
      BY <1>15 DEF Backoff, ControlType, loopVars, ctxVars, dataVars, envVars
    <2>2. LoopsOfJoined' /\ Places'
      BY <1>15, <1>1 DEF Backoff, ControlType, DataType, LoopsOfJoined, Places,
         loopVars, ctxVars, ioVars, dataVars
    <2>3. OneLiveSession'
      BY <1>15 DEF Backoff, ControlType, OneLiveSession, Places, loopVars, ctxVars
    <2>4. HealthTruthful'
      BY <1>15 DEF Backoff, ControlType, HealthTruthful, Places, loopVars, ctxVars,
         dataVars
    <2> QED BY <2>1, <2>2, <2>3, <2>4, <1>2, TypeHalves, PTL DEF SessionInv
  <1>16. CASE SaveConfig
    <2>1. ControlType'
      BY <1>16 DEF SaveConfig, ControlType, loopVars, ctxVars, dataVars, envVars
    <2>2. LoopsOfJoined' /\ Places'
      BY <1>16, <1>1 DEF SaveConfig, ControlType, DataType, LoopsOfJoined, Places,
         loopVars, ctxVars, ioVars, dataVars
    <2>3. OneLiveSession'
      BY <1>16 DEF SaveConfig, ControlType, OneLiveSession, Places, loopVars, ctxVars
    <2>4. HealthTruthful'
      BY <1>16 DEF SaveConfig, ControlType, HealthTruthful, Places, loopVars, ctxVars,
         dataVars
    <2> QED BY <2>1, <2>2, <2>3, <2>4, <1>2, TypeHalves, PTL DEF SessionInv
  <1>17. CASE Stop
    <2>1. ControlType'
      BY <1>17 DEF Stop, ControlType, loopVars, ctxVars, dataVars, envVars
    <2>2. LoopsOfJoined' /\ Places'
      BY <1>17, <1>1 DEF Stop, ControlType, DataType, LoopsOfJoined, Places,
         loopVars, ctxVars, ioVars, dataVars
    <2>3. OneLiveSession'
      BY <1>17 DEF Stop, ControlType, OneLiveSession, Places, loopVars, ctxVars
    <2>4. HealthTruthful'
      BY <1>17 DEF Stop, ControlType, HealthTruthful, Places, loopVars, ctxVars,
         dataVars
    <2> QED BY <2>1, <2>2, <2>3, <2>4, <1>2, TypeHalves, PTL DEF SessionInv
  <1> QED BY <1>3, <1>4, <1>5, <1>6, <1>7, <1>8, <1>9, <1>10, <1>11, <1>12, <1>13, <1>14, <1>15, <1>16, <1>17
LEMMA AppendType ==
    ASSUME NEW S, NEW q \in Seq(S), NEW e \in S
    PROVE  Append(q, e) \in Seq(S)
  OBVIOUS

\* TryPush keeps the channel within its capacity.
LEMMA TryPushType ==
    ASSUME NEW m \in Message, DataType, TryPush(m)
    PROVE  outCh' \in Seq(Message) /\ Len(outCh') <= QueueCap
  BY RelayAssumption DEF RelayAssumption, DataType, TryPush, Room

\* The steps that move messages or run the loops of the sessions.
LEMMA SessionLoops ==
    ASSUME SessionInv,
           \/ StartLoops \/ DrainOne \/ PushNote
           \/ \E s \in Sessions : \/ WriterStep(s) \/ ReadClose(s)
                                 \/ HandleClose(s) \/ ReadFail(s)
    PROVE  SessionInv'
  <1>0. ControlType /\ DataType /\ LoopsOfJoined /\ Places /\ OneLiveSession
        /\ HealthTruthful /\ Stamped /\ TypeOK
    BY TypeHalves DEF SessionInv
  <1> USE RelayAssumption, <1>0 DEF RelayAssumption, InSession, Sessions
  <1>1. CASE StartLoops
    <2>1. session \in Sessions /\ session <= MaxSessions /\ joinRef \in Sessions
          /\ Note(joinRef) \in Message
      BY <1>1 DEF StartLoops, ControlType, Places, Note, Message
    <2>2. ControlType'
      BY <1>1 DEF StartLoops, ControlType, ctxVars, envVars
    <2>3. outCh' \in Seq(Message) /\ Len(outCh') <= QueueCap
      BY <1>1, <2>1, TryPushType DEF StartLoops
    <2>4. DataType'
      BY <1>1, <2>1, <2>3 DEF StartLoops, DataType, ctxVars
    <2>5. LoopsOfJoined' /\ Places' /\ Stamped'
      BY <1>1, <2>1 DEF StartLoops, DataType, LoopsOfJoined, Places, Stamped, ctxVars
    <2>6. OneLiveSession' /\ HealthTruthful'
      BY <1>1 DEF StartLoops, OneLiveSession, HealthTruthful, ctxVars
    <2> QED BY <2>2, <2>4, <2>5, <2>6, TypeHalves, PTL DEF SessionInv
  <1>2. CASE DrainOne
    <2>1. ControlType' /\ LoopsOfJoined' /\ Places' /\ OneLiveSession'
          /\ HealthTruthful'
      BY <1>2 DEF DrainOne, ControlType, LoopsOfJoined, Places, OneLiveSession,
         HealthTruthful, loopVars, ctxVars, ioVars, envVars
    <2>2. DataType' /\ Stamped'
      BY <1>2, ReceiveType DEF DrainOne, DataType, ioVars
    <2> QED BY <2>1, <2>2, TypeHalves, PTL DEF SessionInv
  <1>3. CASE PushNote
    <2>1. Note(joinRef) \in Message
      BY <1>3 DEF PushNote, ControlType, Note, Message
    <2>2. outCh' \in Seq(Message) /\ Len(outCh') <= QueueCap
      BY <1>3, <2>1, TryPushType DEF PushNote
    <2>3. DataType' /\ Stamped'
      BY <1>3, <2>2 DEF PushNote, DataType, Stamped, ioVars
    <2>4. ControlType' /\ LoopsOfJoined' /\ Places' /\ OneLiveSession'
          /\ HealthTruthful'
      BY <1>3 DEF PushNote, ControlType, LoopsOfJoined, Places, OneLiveSession,
         HealthTruthful, loopVars, ctxVars, ioVars, envVars
    <2> QED BY <2>3, <2>4, TypeHalves, PTL DEF SessionInv
  <1>4. ASSUME NEW s \in Sessions, WriterTake(s)
        PROVE  SessionInv'
    <2>1. ControlType' /\ Places' /\ OneLiveSession' /\ HealthTruthful'
      BY <1>4 DEF WriterTake, ControlType, Places, OneLiveSession,
         HealthTruthful, loopVars, ctxVars, envVars
    <2>2. LoopsOfJoined'
      BY <1>4 DEF WriterTake, LoopsOfJoined, DataType, loopVars, ctxVars
    <2>3. DataType' /\ Stamped'
      BY <1>4, ReceiveType DEF WriterTake, DataType
    <2> QED BY <2>1, <2>2, <2>3, TypeHalves, PTL DEF SessionInv
  <1>5. ASSUME NEW s \in Sessions, WriterSend(s)
        PROVE  SessionInv'
    <2>1. ControlType' /\ Places' /\ OneLiveSession' /\ HealthTruthful' /\ Stamped'
      BY <1>5 DEF WriterSend, ControlType, Places, OneLiveSession,
         HealthTruthful, Stamped, loopVars, ctxVars, chanVars, envVars
    <2>2. LoopsOfJoined'
      BY <1>5 DEF WriterSend, LoopsOfJoined, DataType, loopVars, ctxVars
    <2>3. [conn |-> s, batch |-> inHand[s].batch] \in [conn : Sessions, batch : 0..Batches]
      BY DEF DataType, Message, NoMsg
    <2>4. delivered' \in [Runs -> Seq([conn : Sessions, batch : 0..Batches])]
      <3>1. CASE inHand[s].run = NoRun
        BY <1>5, <3>1 DEF WriterSend, DataType
      <3>2. CASE inHand[s].run # NoRun
        <4> DEFINE q == inHand[s].run
        <4>1. q \in Runs
          BY <3>2 DEF DataType, Message, NoMsg
        <4>2. Append(delivered[q], [conn |-> s, batch |-> inHand[s].batch])
                  \in Seq([conn : Sessions, batch : 0..Batches])
          <5>1. delivered[q] \in Seq([conn : Sessions, batch : 0..Batches])
            BY <4>1 DEF DataType
          <5> QED BY <2>3, <5>1, AppendType
        <4>3. delivered' = [delivered EXCEPT ![q] =
                  Append(@, [conn |-> s, batch |-> inHand[s].batch])]
          BY <1>5, <3>2 DEF WriterSend
        <4> QED BY <4>1, <4>2, <4>3 DEF DataType
      <3> QED BY <3>1, <3>2
    <2>5. DataType'
      BY <1>5, <2>4 DEF WriterSend, DataType, chanVars
    <2> QED BY <2>1, <2>2, <2>5, TypeHalves, PTL DEF SessionInv
  <1>6. ASSUME NEW s \in Sessions, WriterFail(s)
        PROVE  SessionInv'
    <2>1. ControlType' /\ Places' /\ OneLiveSession' /\ HealthTruthful' /\ Stamped'
      BY <1>6 DEF WriterFail, ControlType, Places, OneLiveSession,
         HealthTruthful, Stamped, loopVars, ctxVars, chanVars, envVars
    <2>2. LoopsOfJoined'
      BY <1>6 DEF WriterFail, LoopsOfJoined, DataType, loopVars, ctxVars
    <2>3. DataType'
      BY <1>6 DEF WriterFail, DataType, chanVars
    <2> QED BY <2>1, <2>2, <2>3, TypeHalves, PTL DEF SessionInv
  <1>7. ASSUME NEW s \in Sessions, WriterExit(s)
        PROVE  SessionInv'
    <2>1. ControlType' /\ Places' /\ OneLiveSession' /\ HealthTruthful' /\ Stamped'
      BY <1>7 DEF WriterExit, ControlType, Places, OneLiveSession,
         HealthTruthful, Stamped, loopVars, ctxVars, chanVars, envVars
    <2>2. LoopsOfJoined'
      BY <1>7 DEF WriterExit, LoopsOfJoined, DataType, loopVars, ctxVars
    <2>3. DataType'
      BY <1>7 DEF WriterExit, DataType, chanVars
    <2> QED BY <2>1, <2>2, <2>3, TypeHalves, PTL DEF SessionInv
  <1>8. ASSUME NEW s \in Sessions, ReadClose(s)
        PROVE  SessionInv'
    <2>1. ControlType' /\ Places' /\ OneLiveSession' /\ HealthTruthful' /\ Stamped'
      BY <1>8 DEF ReadClose, ControlType, Places, OneLiveSession,
         HealthTruthful, Stamped, loopVars, ctxVars, chanVars, envVars
    <2>2. LoopsOfJoined'
      BY <1>8 DEF ReadClose, LoopsOfJoined, DataType, loopVars, ctxVars
    <2>3. DataType'
      BY <1>8 DEF ReadClose, DataType, chanVars
    <2> QED BY <2>1, <2>2, <2>3, TypeHalves, PTL DEF SessionInv
  <1>9. ASSUME NEW s \in Sessions, HandleClose(s)
        PROVE  SessionInv'
    <2>0. session \in Sessions
      BY <1>9 DEF HandleClose, ControlType, LoopsOfJoined
    <2>1. ControlType'
      BY <1>9, <2>0 DEF HandleClose, ControlType, envVars
    <2>4. Places' /\ OneLiveSession' /\ HealthTruthful' /\ Stamped'
      BY <1>9 DEF HandleClose, Places, OneLiveSession, HealthTruthful, Stamped,
         chanVars
    <2>2. LoopsOfJoined'
      BY <1>9 DEF HandleClose, LoopsOfJoined, DataType, loopVars, ctxVars
    <2>3. DataType'
      BY <1>9 DEF HandleClose, DataType, chanVars
    <2> QED BY <2>1, <2>4, <2>2, <2>3, TypeHalves, PTL DEF SessionInv
  <1>10. ASSUME NEW s \in Sessions, ReadFail(s)
        PROVE  SessionInv'
    <2>1. ControlType' /\ Places' /\ OneLiveSession' /\ HealthTruthful' /\ Stamped'
      BY <1>10 DEF ReadFail, ControlType, Places, OneLiveSession,
         HealthTruthful, Stamped, loopVars, ctxVars, chanVars, envVars
    <2>2. LoopsOfJoined'
      BY <1>10 DEF ReadFail, LoopsOfJoined, DataType, loopVars, ctxVars
    <2>3. DataType'
      BY <1>10 DEF ReadFail, DataType, chanVars
    <2> QED BY <2>1, <2>2, <2>3, TypeHalves, PTL DEF SessionInv
  <1> QED BY <1>1, <1>2, <1>3, <1>4, <1>5, <1>6, <1>7, <1>8, <1>9, <1>10
          DEF WriterStep, Sessions

\* A message of a run keeps a sequence one of messages of runs.
LEMMA AppendRequest ==
    ASSUME NEW q \in Seq(Message), NEW m \in Message, m.run \in Runs,
           \A i \in DOMAIN q : q[i].run \in Runs
    PROVE  /\ Append(q, m) \in Seq(Message)
           /\ \A i \in DOMAIN Append(q, m) : Append(q, m)[i].run \in Runs
  OBVIOUS

\* The steps of the query goroutines.
LEMMA SessionWorkers ==
    ASSUME SessionInv, NEW r \in Runs,
           \/ PollQuery(r) \/ WorkerStep(r)
           \/ \E s \in Sessions : ReadQuery(s, r)
    PROVE  SessionInv'
  <1>0. ControlType /\ DataType /\ LoopsOfJoined /\ Places /\ OneLiveSession
        /\ HealthTruthful /\ Stamped
    BY TypeHalves DEF SessionInv
  <1> USE RelayAssumption, <1>0 DEF RelayAssumption, InSession, Sessions
  <1> DEFINE w == worker[r]
  <1>w. w \in WorkerType /\ worker \in [Runs -> WorkerType]
    BY DEF DataType
  <1>1. UNCHANGED <<loopVars, ctxVars, joinRef, ioVars, delivered, envVars>>
    BY DEF PollQuery, WorkerStep, ReadQuery, Acquire, QueryReturns, Capture,
       SendRows, SendError
  <1>2. ControlType' /\ LoopsOfJoined' /\ Places' /\ OneLiveSession'
        /\ HealthTruthful'
    BY <1>1 DEF ControlType, LoopsOfJoined, Places, OneLiveSession,
       HealthTruthful, loopVars, ctxVars, ioVars, envVars
  <1>3. SUFFICES /\ outCh' \in Seq(Message) /\ Len(outCh') <= QueueCap
                 /\ sendq' \in Seq(Message)
                 /\ \A i \in DOMAIN sendq' : sendq'[i].run \in Runs
                 /\ \E v \in WorkerType :
                        /\ v.pc = "send" => v.join # 0
                        /\ worker' = [worker EXCEPT ![r] = v]
    <2>1. PICK v \in WorkerType : /\ v.pc = "send" => v.join # 0
                                 /\ worker' = [worker EXCEPT ![r] = v]
      BY <1>3
    <2>2. worker' \in [Runs -> WorkerType]
      BY <1>w, <2>1
    <2>3. \A q \in Runs : worker'[q].pc = "send" => worker'[q].join # 0
      <3> TAKE q \in Runs
      <3>1. CASE q = r
        BY <1>w, <2>1, <3>1
      <3>2. CASE q # r
        BY <1>w, <2>1, <3>2 DEF Stamped
      <3> QED BY <3>1, <3>2
    <2>4. DataType'
      BY <1>1, <1>3, <2>2 DEF DataType, ioVars
    <2>5. Stamped'
      BY <1>3, <2>3 DEF Stamped
    <2> QED BY <1>2, <2>4, <2>5, TypeHalves, PTL DEF SessionInv
  <1>4. CASE PollQuery(r) \/ (\E s \in Sessions : ReadQuery(s, r)) \/ Acquire(r)
    <2>1. UNCHANGED chanVars
      BY <1>4 DEF PollQuery, ReadQuery, Acquire
    <2>2. \E p \in {"sem", "query"} : worker' = [worker EXCEPT ![r] = [w EXCEPT !.pc = p]]
      BY <1>4, <1>w DEF PollQuery, ReadQuery, Acquire, WorkerType
    <2>3. \A p \in {"sem", "query"} : /\ [w EXCEPT !.pc = p] \in WorkerType
                                    /\ [w EXCEPT !.pc = p].pc # "send"
      BY <1>w DEF WorkerType, Holding
    <2> QED BY <2>1, <2>2, <2>3 DEF chanVars, DataType, Stamped
  <1>5. CASE QueryReturns(r)
    <2>1. UNCHANGED chanVars
      BY <1>5 DEF QueryReturns
    <2>2. \E b \in {0, 1} : worker' = [worker EXCEPT ![r] =
                                    [w EXCEPT !.pc = "capture", !.batch = b]]
      BY <1>5, <1>w DEF QueryReturns, WorkerType
    <2>3. \A b \in {0, 1} :
             /\ [w EXCEPT !.pc = "capture", !.batch = b] \in WorkerType
             /\ [w EXCEPT !.pc = "capture", !.batch = b].pc # "send"
      <3> TAKE b \in {0, 1}
      <3>1. b \in 0..Batches
        OBVIOUS
      <3> QED BY <3>1, <1>w DEF WorkerType, Holding
    <2> QED BY <2>1, <2>2, <2>3 DEF chanVars, DataType, Stamped
  <1>6. CASE Capture(r)
    <2>1. UNCHANGED chanVars
      BY <1>6 DEF Capture
    <2>2. CASE joinRef = 0
      <3>1. worker' = [worker EXCEPT ![r] = NextBatch(w)]
        BY <1>6, <2>2 DEF Capture
      <3> QED BY <2>1, <3>1, <1>w, NextBatchType DEF chanVars, DataType, Stamped
    <2>3. CASE joinRef # 0
      <3>1. worker' = [worker EXCEPT ![r] = Stamp(w)]
        BY <1>6, <2>3 DEF Capture
      <3>2. Stamp(w) \in WorkerType /\ Stamp(w).join # 0
        BY <2>3, <1>w DEF Stamp, WorkerType, Holding, ControlType
      <3> QED BY <2>1, <3>1, <3>2 DEF chanVars, DataType, Stamped
    <2> QED BY <2>2, <2>3
  <1>7. ASSUME w.pc = "send"
        PROVE  Msg(r) \in Message
    <2>1. w.join # 0
      BY <1>7 DEF Stamped
    <2>2. w.join \in Sessions /\ w.batch \in 0..Batches
      BY <2>1, <1>w DEF WorkerType
    <2> QED BY <2>2 DEF Msg, Message
  <1>8. CASE SendRows(r)
    <2>1. Msg(r) \in Message /\ Msg(r).run = r
      BY <1>7, <1>8 DEF SendRows, Msg
    <2>2. CASE Room
      <3>1. /\ outCh' = Append(outCh, Msg(r))
            /\ worker' = [worker EXCEPT ![r] = NextBatch(w)]
            /\ sendq' = sendq
        BY <1>8, <2>2 DEF SendRows
      <3>2. outCh' \in Seq(Message) /\ Len(outCh') <= QueueCap
        BY <3>1, <2>1, <2>2 DEF Room, DataType
      <3> QED BY <3>1, <3>2, <1>w, NextBatchType DEF DataType, Stamped
    <2>3. CASE ~Room
      <3>1. /\ outCh' = outCh
            /\ worker' = [worker EXCEPT ![r] = [w EXCEPT !.pc = "blocked"]]
            /\ sendq' = Append(sendq, Msg(r))
        BY <1>8, <2>3, <1>w DEF SendRows, WorkerType
      <3>2. sendq' \in Seq(Message) /\ \A i \in DOMAIN sendq' : sendq'[i].run \in Runs
        <4>1. sendq \in Seq(Message) /\ \A i \in DOMAIN sendq : sendq[i].run \in Runs
          BY DEF DataType, Stamped
        <4> HIDE <1>0
        <4> QED BY <3>1, <2>1, <4>1, AppendRequest
      <3>3. [w EXCEPT !.pc = "blocked"] \in WorkerType
        BY <1>w DEF WorkerType, Holding
      <3>4. [w EXCEPT !.pc = "blocked"].pc # "send"
        BY <1>w DEF WorkerType
      <3>5. outCh' \in Seq(Message) /\ Len(outCh') <= QueueCap
        BY <3>1 DEF DataType
      <3> HIDE DEF w
      <3> QED BY <3>1, <3>2, <3>3, <3>4, <3>5
    <2> QED BY <2>2, <2>3
  <1>9. CASE SendError(r)
    <2>1. Msg(r) \in Message /\ TryPush(Msg(r)) /\ sendq' = sendq
          /\ worker' = [worker EXCEPT ![r] = NextBatch(w)]
      BY <1>7, <1>9 DEF SendError
    <2> QED BY <2>1, <1>w, TryPushType, NextBatchType DEF DataType, Stamped
  <1> QED BY <1>4, <1>5, <1>6, <1>8, <1>9 DEF WorkerStep

LEMMA SessionStep == SessionInv /\ [Next]_vars => SessionInv'
  <1> SUFFICES ASSUME SessionInv, [Next]_vars PROVE SessionInv'
    OBVIOUS
  <1>1. ControlType /\ DataType /\ LoopsOfJoined /\ Places /\ OneLiveSession
        /\ HealthTruthful /\ Stamped
    BY TypeHalves DEF SessionInv
  <1>2. CASE UNCHANGED vars
    <2> USE <1>1, <1>2 DEF vars, loopVars, ctxVars, dataVars, chanVars, ioVars,
                           envVars
    <2>1. ControlType' /\ OneLiveSession' /\ HealthTruthful'
      BY DEF ControlType, OneLiveSession, HealthTruthful
    <2>2. DataType' /\ Stamped'
      BY DEF DataType, Stamped
    <2>3. LoopsOfJoined' /\ Places'
      BY DEF LoopsOfJoined, Places
    <2> QED BY <2>1, <2>2, <2>3, TypeHalves, PTL DEF SessionInv
  <1>3. ASSUME NEW s \in Sessions, WriterStep(s) \/ ReaderStep(s)
        PROVE  SessionInv'
    <2>1. CASE \E r \in Runs : ReadQuery(s, r)
      BY <2>1, SessionWorkers
    <2>2. CASE WriterStep(s) \/ ReadClose(s) \/ HandleClose(s) \/ ReadFail(s)
      BY <2>2, SessionLoops
    <2> QED BY <1>3, <2>1, <2>2 DEF ReaderStep
  <1>4. ASSUME NEW r \in Runs, PollQuery(r) \/ WorkerStep(r)
        PROVE  SessionInv'
    BY <1>4, SessionWorkers
  <1>5. CASE LoopStep \/ MonitorTrips \/ SaveConfig \/ Stop \/ PushNote
    BY <1>5, SessionControl, SessionLoops DEF LoopStep
  <1>6. CASE Ended
    BY <1>2, <1>6 DEF Ended
  <1> QED BY <1>2, <1>3, <1>4, <1>5, <1>6 DEF Next

\* The invariant of the sessions, for every number of them: see its parts.
THEOREM SessionsCorrect == Spec => []SessionInv
  BY SessionInit, SessionStep, PTL DEF Spec

\* TypeOK: the state has its type, however the goroutines that push into outCh
\* and those that receive from it interleave.
THEOREM TypeCorrect == Spec => []TypeOK
  <1>1. SessionInv => TypeOK
    BY DEF SessionInv
  <1> QED BY <1>1, SessionsCorrect, PTL

\* OneLiveSession: no context of an earlier session is ever left uncancelled,
\* although Reconnect and a late phx_error cancel whatever r.cancel holds.
THEOREM OneSessionLives == Spec => []OneLiveSession
  <1>1. SessionInv => OneLiveSession
    BY DEF SessionInv
  <1> QED BY <1>1, SessionsCorrect, PTL

\* HealthTruthful: channelJoined is TRUE only with the joinRef of the session
\* that is running or has just ended, whichever goroutine last wrote it, and it
\* is TRUE while one runs that nobody has cancelled.
THEOREM HealthIsTruthful == Spec => []HealthTruthful
  <1>1. SessionInv => HealthTruthful
    BY DEF SessionInv
  <1> QED BY <1>1, SessionsCorrect, PTL

-----------------------------------------------------------------------------
(***************************************************************************)
(* The order in which the rows of a query reach the cloud.  Every step of  *)
(* the relay moves messages through outCh in one of two ways (QueueStep),  *)
(* and a goroutine only ever turns to later batches (Progress); from these *)
(* two facts the order of the channel, of what the live write loop holds   *)
(* and of what was delivered follows (OrderInv).                           *)
(***************************************************************************)

\* The goroutine of r is done with batch b: it turned to a later batch, or it
\* has ended.  Once it has answered with an error it never turns to rows.
Passed(r, b) ==
    /\ b < worker[r].batch \/ (b = worker[r].batch /\ worker[r].pc = "done")
    /\ b = 0 => worker[r].batch = 0

\* b is an earlier batch of r than any that waits in the channel.
Ahead(r, b) ==
    /\ Passed(r, b)
    /\ \A i \in DOMAIN outCh : outCh[i].run = r => b < outCh[i].batch

QueueOrder ==
    \A i, j \in DOMAIN outCh :
        i < j /\ outCh[i].run = outCh[j].run /\ outCh[i].run \in Runs
            => outCh[i].batch < outCh[j].batch

QueuePassed ==
    \A i \in DOMAIN outCh :
        outCh[i].run \in Runs => Passed(outCh[i].run, outCh[i].batch)

\* A goroutine waits in sendq with its current batch, and only once.
SendqWaits ==
    /\ \A i \in DOMAIN sendq : LET w == worker[sendq[i].run] IN
           w.pc = "blocked" /\ w.batch = sendq[i].batch /\ w.batch # 0
    /\ \A i, j \in DOMAIN sendq : sendq[i].run = sendq[j].run => i = j

Unanswered ==
    \A r \in Runs : worker[r].pc \in {"none", "sem", "query"} => worker[r].batch = 0

ChannelInv == QueueOrder /\ QueuePassed /\ SendqWaits /\ Unanswered

\* What has been delivered, and what the live write loop holds, comes before
\* everything of its run that is still in the channel.
DeliveredAhead ==
    \A r \in Runs : \A k \in DOMAIN delivered[r] :
        Ahead(r, delivered[r][k].batch) /\ delivered[r][k].conn <= session

HandAhead ==
    \A s \in Sessions : LET m == inHand[s] IN
        ConnOpen(s) /\ writer[s] = "busy" /\ m.run \in Runs =>
            /\ Ahead(m.run, m.batch)
            /\ \A k \in DOMAIN delivered[m.run] : delivered[m.run][k].batch < m.batch

OrderInv == ChannelInv /\ DeliveredAhead /\ HandAhead /\ RowsInOrder

\* What any step may do to the goroutine of r: stay at its batch, or turn to a
\* later one unless it has ended.
Progress(r) ==
    \/ /\ worker'[r].batch = worker[r].batch
       /\ worker[r].pc = "done" => worker'[r].pc = "done"
    \/ worker[r].pc # "done" /\ worker[r].batch < worker'[r].batch

\* A message on its way into the channel is the current batch of its run,
\* and the goroutine is through with it once it is in.
Fresh(m) ==
    m.run \in Runs => /\ worker[m.run].pc # "done"
                          /\ m.batch = worker[m.run].batch
                          /\ Passed(m.run, m.batch)'

\* What any step may do to the channel: take the head, put a fresh message.
QueueStep ==
    \E q \in {outCh, Tail(outCh)} :
        /\ q = outCh \/ outCh # <<>>
        /\ outCh' = q \/ \E m \in Message : Fresh(m) /\ outCh' = Append(q, m)

LEMMA NextBatchTurns ==
    ASSUME NEW w \in WorkerType
    PROVE  \/ NextBatch(w).pc = "done" /\ NextBatch(w).batch = w.batch
           \/ /\ NextBatch(w).pc = "capture" /\ w.batch # 0
              /\ w.batch < NextBatch(w).batch
  <1> w.batch \in Nat
    BY RelayAssumption DEF RelayAssumption, WorkerType
  <1>1. CASE w.batch \in {0, Batches}
    BY <1>1 DEF NextBatch, WorkerType
  <1>2. CASE w.batch \notin {0, Batches}
    BY <1>2 DEF NextBatch, WorkerType
  <1> QED BY <1>1, <1>2

LEMMA PassedStays ==
    ASSUME TypeOK, NEW r \in Runs, NEW b \in Nat, Progress(r), Passed(r, b),
           worker'[r].batch \in Nat
    PROVE  Passed(r, b)'
  <1>1. worker[r].batch \in Nat
    BY RelayAssumption DEF RelayAssumption, TypeOK
  <1> QED BY <1>1 DEF Progress, Passed

LEMMA SessionTypes ==
    ASSUME SessionInv
    PROVE  /\ worker \in [Runs -> WorkerType]
           /\ \A r \in Runs : worker[r] \in WorkerType /\ worker[r].batch \in Nat
           /\ outCh \in Seq(Message) /\ sendq \in Seq(Message)
           /\ \A m \in Message : m.batch \in Nat
           /\ \A i \in DOMAIN outCh : outCh[i] \in Message
           /\ \A i \in DOMAIN sendq : sendq[i] \in Message /\ sendq[i].run \in Runs
           /\ NoRun \notin Runs
  <1>1. DataType /\ Stamped
    BY TypeHalves DEF SessionInv
  <1>2. \A m \in Message : m.batch \in Nat
    BY RelayAssumption DEF RelayAssumption, Message
  <1>3. \A w \in WorkerType : w.batch \in Nat
    BY RelayAssumption DEF RelayAssumption, WorkerType
  <1>4. worker \in [Runs -> WorkerType] /\ \A r \in Runs : worker[r] \in WorkerType
    BY <1>1 DEF DataType
  <1>5. /\ outCh \in Seq(Message) /\ \A i \in DOMAIN outCh : outCh[i] \in Message
        /\ sendq \in Seq(Message) /\ \A i \in DOMAIN sendq : sendq[i] \in Message
    BY <1>1 DEF DataType
  <1> QED BY <1>1, <1>2, <1>3, <1>4, <1>5, RelayAssumption
          DEF RelayAssumption, Stamped

\* A receive moves the head of sendq, if any, into the channel.
LEMMA ReceiveSteps ==
    ASSUME SessionInv, ChannelInv, Receive
    PROVE  /\ \A r \in Runs : Progress(r)
           /\ QueueStep
           /\ outCh # <<>>
           /\ \/ outCh' = Tail(outCh)
              \/ \E m \in Message : Fresh(m) /\ outCh' = Append(Tail(outCh), m)
           /\ SendqWaits'
           /\ Unanswered'
  <1> USE SessionTypes
  <1>1. CASE sendq = <<>>
    <2>1. outCh # <<>> /\ outCh' = Tail(outCh) /\ sendq' = sendq /\ worker' = worker
      BY <1>1 DEF Receive
    <2> QED BY <2>1 DEF Progress, QueueStep, ChannelInv, SendqWaits, Unanswered
  <1>2. CASE sendq # <<>>
    <2>0. PICK m \in Message : m = Head(sendq)
      BY <1>2
    <2> DEFINE w == worker[m.run]
    <2>1. m = sendq[1] /\ m \in Message /\ m.run \in Runs /\ w \in WorkerType
          /\ 1 \in DOMAIN sendq
      BY <1>2, <2>0
    <2>2. w.pc = "blocked" /\ w.batch = m.batch /\ w.batch # 0
      BY <2>1 DEF ChannelInv, SendqWaits
    <2>3. /\ outCh # <<>> /\ outCh' = Append(Tail(outCh), m)
          /\ sendq' = Tail(sendq)
          /\ worker' = [worker EXCEPT ![m.run] = NextBatch(w)]
      BY <1>2, <2>0 DEF Receive
    <2>4. /\ worker'[m.run] = NextBatch(w)
          /\ \A r \in Runs : r # m.run => worker'[r] = worker[r]
      BY <2>1, <2>3
    <2>5. \A r \in Runs : Progress(r)
      BY <2>1, <2>2, <2>4, NextBatchTurns DEF Progress
    <2>6. Passed(m.run, m.batch)'
      BY <2>1, <2>2, <2>4, NextBatchTurns DEF Passed
    <2>7. Fresh(m)
      BY <2>2, <2>6 DEF Fresh
    <2>8. \A i \in DOMAIN Tail(sendq) :
             i + 1 \in DOMAIN sendq /\ Tail(sendq)[i] = sendq[i + 1] /\ i + 1 # 1
      BY <1>2
    <2>9. \A i \in DOMAIN sendq' : sendq'[i].run # m.run
      BY <2>1, <2>3, <2>8 DEF ChannelInv, SendqWaits
    <2>10. SendqWaits'
      <3>1. \A i \in DOMAIN sendq' : LET v == worker'[sendq'[i].run] IN
               v.pc = "blocked" /\ v.batch = sendq'[i].batch /\ v.batch # 0
        BY <2>3, <2>4, <2>8, <2>9 DEF ChannelInv, SendqWaits
      <3>2. \A i, j \in DOMAIN sendq' : sendq'[i].run = sendq'[j].run => i = j
        <4> SUFFICES ASSUME NEW i \in DOMAIN sendq', NEW j \in DOMAIN sendq',
                            sendq'[i].run = sendq'[j].run
                     PROVE  i = j
          OBVIOUS
        <4>1. i \in Nat /\ j \in Nat
          BY <1>2, <2>3
        <4>2. i + 1 = j + 1
          BY <2>3, <2>8 DEF ChannelInv, SendqWaits
        <4> QED BY <4>1, <4>2
      <3> QED BY <3>1, <3>2 DEF SendqWaits
    <2>11. Unanswered'
      BY <2>1, <2>4, NextBatchTurns DEF ChannelInv, Unanswered
    <2> QED BY <2>1, <2>3, <2>5, <2>7, <2>10, <2>11 DEF QueueStep
  <1> QED BY <1>1, <1>2

\* The steps of a query goroutine.
LEMMA WorkerSteps ==
    ASSUME SessionInv, ChannelInv, NEW r \in Runs,
           \/ PollQuery(r) \/ WorkerStep(r)
           \/ \E s \in Sessions : ReadQuery(s, r)
    PROVE  /\ \A q \in Runs : Progress(q)
           /\ QueueStep
           /\ SendqWaits'
           /\ Unanswered'
  <1> USE SessionTypes
  <1> DEFINE w == worker[r]
  <1>1. w \in WorkerType /\ w.batch \in Nat
    OBVIOUS
  <1>2. ASSUME NEW v, worker' = [worker EXCEPT ![r] = v], sendq' = sendq,
               w.pc # "blocked", v.pc \notin {"none", "sem", "query"} \/ v.batch = 0,
               \/ v.batch = w.batch /\ w.pc # "done"
               \/ w.pc # "done" /\ w.batch < v.batch
        PROVE  (\A q \in Runs : Progress(q)) /\ SendqWaits' /\ Unanswered'
    <2>1. /\ worker'[r] = v
          /\ \A q \in Runs : q # r => worker'[q] = worker[q]
      BY <1>2
    <2>2. \A q \in Runs : Progress(q)
      BY <1>2, <2>1 DEF Progress
    <2>3. SendqWaits'
      BY <1>2, <2>1 DEF ChannelInv, SendqWaits
    <2>4. Unanswered'
      BY <1>2, <2>1 DEF ChannelInv, Unanswered
    <2> QED BY <2>2, <2>3, <2>4
  <1>3. CASE PollQuery(r) \/ (\E s \in Sessions : ReadQuery(s, r)) \/ Acquire(r)
    <2>1. w.pc \in {"none", "sem"} /\ w.batch = 0
      BY <1>3 DEF PollQuery, ReadQuery, Acquire, ChannelInv, Unanswered
    <2>2. PICK p \in {"sem", "query"} : worker' = [worker EXCEPT ![r] = [w EXCEPT !.pc = p]]
      BY <1>3, <1>1 DEF PollQuery, ReadQuery, Acquire, WorkerType
    <2>3. [w EXCEPT !.pc = p].batch = 0
      BY <1>1, <2>1 DEF WorkerType
    <2>4. UNCHANGED <<outCh, sendq>>
      BY <1>3 DEF PollQuery, ReadQuery, Acquire, chanVars
    <2> QED BY <1>1, <1>2, <2>1, <2>2, <2>3, <2>4 DEF QueueStep
  <1>4. CASE QueryReturns(r)
    <2>1. w.pc = "query" /\ w.batch = 0 /\ UNCHANGED <<outCh, sendq>>
      BY <1>4 DEF QueryReturns, chanVars, ChannelInv, Unanswered
    <2>2. PICK b \in {0, 1} : worker' = [worker EXCEPT ![r] =
                                    [w EXCEPT !.pc = "capture", !.batch = b]]
      BY <1>4, <1>1 DEF QueryReturns, WorkerType
    <2>3. /\ [w EXCEPT !.pc = "capture", !.batch = b].batch = b
          /\ [w EXCEPT !.pc = "capture", !.batch = b].pc = "capture"
      BY <1>1 DEF WorkerType
    <2>4. (\A q \in Runs : Progress(q)) /\ SendqWaits' /\ Unanswered'
      <3> DEFINE v == [w EXCEPT !.pc = "capture", !.batch = b]
      <3>1. v.batch = w.batch \/ w.batch < v.batch
        BY <2>1, <2>3
      <3>2. v.pc = "capture" /\ worker' = [worker EXCEPT ![r] = v]
        BY <2>2, <2>3
      <3> HIDE DEF v
      <3> QED BY <1>2, <2>1, <3>1, <3>2
    <2> QED BY <2>1, <2>4 DEF QueueStep
  <1>5. ASSUME w.pc \in {"capture", "send"}, sendq' = sendq,
               worker' = [worker EXCEPT ![r] = NextBatch(w)]
        PROVE  (\A q \in Runs : Progress(q)) /\ SendqWaits' /\ Unanswered'
    BY <1>1, <1>2, <1>5, NextBatchTurns
  <1>6. CASE Capture(r)
    <2>1. w.pc = "capture" /\ UNCHANGED <<outCh, sendq>>
      BY <1>6 DEF Capture, chanVars
    <2>2. CASE joinRef = 0
      BY <1>5, <1>6, <2>1, <2>2 DEF Capture, QueueStep
    <2>3. CASE joinRef # 0
      <3>1. worker' = [worker EXCEPT ![r] = Stamp(w)]
        BY <1>6, <2>3 DEF Capture
      <3>2. Stamp(w).pc = "send" /\ Stamp(w).batch = w.batch
        BY <1>1 DEF Stamp, WorkerType
      <3> QED BY <1>2, <2>1, <3>1, <3>2 DEF QueueStep
    <2> QED BY <2>2, <2>3
  <1>7. ASSUME w.pc = "send", worker' = [worker EXCEPT ![r] = NextBatch(w)]
        PROVE  \E m \in Message : m = Msg(r) /\ Fresh(m)
    <2>1. PICK m \in Message : m = Msg(r)
      <3>1. w.join # 0
        BY <1>7 DEF SessionInv, Stamped
      <3>2. w.join \in Sessions /\ w.batch \in 0..Batches
        BY <3>1, <1>1, RelayAssumption DEF RelayAssumption, WorkerType, Sessions
      <3> QED BY <3>2 DEF Msg, Message
    <2>2. m.run = r /\ m.batch = w.batch
      BY <2>1 DEF Msg
    <2>3. worker'[r] = NextBatch(w)
      BY <1>7
    <2>4. Passed(m.run, m.batch)'
      BY <1>1, <2>2, <2>3, NextBatchTurns DEF Passed
    <2> QED BY <1>7, <2>1, <2>2, <2>4 DEF Fresh
  <1>8. CASE SendRows(r)
    <2>1. w.pc = "send" /\ w.batch # 0
      BY <1>8 DEF SendRows
    <2>2. CASE Room
      <3>1. /\ outCh' = Append(outCh, Msg(r)) /\ sendq' = sendq
            /\ worker' = [worker EXCEPT ![r] = NextBatch(w)]
        BY <1>8, <2>2 DEF SendRows
      <3>2. QueueStep
        BY <1>7, <2>1, <3>1 DEF QueueStep
      <3> QED BY <1>5, <2>1, <3>1, <3>2
    <2>3. CASE ~Room
      <3> DEFINE v == [w EXCEPT !.pc = "blocked"]
      <3>1. /\ outCh' = outCh /\ sendq' = Append(sendq, Msg(r))
            /\ worker' = [worker EXCEPT ![r] = v]
        BY <1>8, <1>1, <2>3 DEF SendRows, WorkerType
      <3>2. v.pc = "blocked" /\ v.batch = w.batch
        BY <1>1 DEF WorkerType
      <3>3. /\ worker'[r] = v
            /\ \A q \in Runs : q # r => worker'[q] = worker[q]
        BY <3>1
      <3>4. \A i \in DOMAIN sendq : sendq[i].run # r /\ sendq[i].run \in Runs
        BY <2>1 DEF ChannelInv, SendqWaits
      <3>5. \A i \in DOMAIN sendq' :
               \/ i \in DOMAIN sendq /\ sendq'[i] = sendq[i]
               \/ i = Len(sendq) + 1 /\ sendq'[i] = Msg(r)
        BY <3>1
      <3>6. Msg(r).run = r /\ Msg(r).batch = w.batch
        BY DEF Msg
      <3>7. \A i \in DOMAIN sendq' : LET u == worker'[sendq'[i].run] IN
               u.pc = "blocked" /\ u.batch = sendq'[i].batch /\ u.batch # 0
        <4> SUFFICES ASSUME NEW i \in DOMAIN sendq'
                     PROVE  LET u == worker'[sendq'[i].run] IN
                            u.pc = "blocked" /\ u.batch = sendq'[i].batch /\ u.batch # 0
          OBVIOUS
        <4>1. CASE i \in DOMAIN sendq /\ sendq'[i] = sendq[i]
          BY <4>1, <3>3, <3>4 DEF ChannelInv, SendqWaits
        <4>2. CASE sendq'[i] = Msg(r)
          <5>1. sendq'[i].run = r /\ sendq'[i].batch = w.batch
            BY <3>6, <4>2
          <5>2. worker'[sendq'[i].run] = v
            BY <3>3, <5>1
          <5> HIDE DEF v
          <5> QED BY <2>1, <3>2, <5>1, <5>2
        <4> QED BY <3>5, <4>1, <4>2
      <3>8. \A i, j \in DOMAIN sendq' : sendq'[i].run = sendq'[j].run => i = j
        BY <3>4, <3>5, <3>6 DEF ChannelInv, SendqWaits
      <3>9. SendqWaits'
        BY <3>7, <3>8 DEF SendqWaits
      <3>10. (\A q \in Runs : Progress(q)) /\ Unanswered'
        BY <2>1, <3>2, <3>3 DEF Progress, ChannelInv, Unanswered
      <3> QED BY <3>1, <3>9, <3>10 DEF QueueStep
    <2> QED BY <2>2, <2>3
  <1>9. CASE SendError(r)
    <2>1. /\ w.pc = "send" /\ sendq' = sendq
          /\ worker' = [worker EXCEPT ![r] = NextBatch(w)]
          /\ outCh' = outCh \/ outCh' = Append(outCh, Msg(r))
      BY <1>9 DEF SendError, TryPush
    <2>2. QueueStep
      BY <1>7, <2>1 DEF QueueStep
    <2> QED BY <1>5, <2>1, <2>2
  <1> QED BY <1>3, <1>4, <1>6, <1>8, <1>9 DEF WorkerStep

\* Every other step leaves the goroutines and sendq alone, and puts into the
\* channel only a message that belongs to no run.
LEMMA OtherSteps ==
    ASSUME SessionInv, ChannelInv, UNCHANGED <<sendq, worker>>,
           outCh' = outCh \/ \E m \in Message : m.run = NoRun /\ outCh' = Append(outCh, m)
    PROVE  /\ \A q \in Runs : Progress(q)
           /\ QueueStep
           /\ SendqWaits'
           /\ Unanswered'
  BY SessionTypes DEF Progress, QueueStep, Fresh, ChannelInv, SendqWaits, Unanswered

\* So every step of the relay does one of these things to the channel.
LEMMA AllSteps ==
    ASSUME SessionInv, ChannelInv, [Next]_vars
    PROVE  /\ \A q \in Runs : Progress(q)
           /\ QueueStep
           /\ SendqWaits'
           /\ Unanswered'
  <1>1. ControlType /\ Places
    BY TypeHalves DEF SessionInv
  <1>2. ASSUME joinRef # 0, NEW m \in {Note(joinRef)}, TryPush(m), UNCHANGED <<sendq, worker>>
        PROVE  outCh' = outCh \/ \E n \in Message : n.run = NoRun /\ outCh' = Append(outCh, n)
    <2>1. m \in Message /\ m.run = NoRun
      BY <1>1, <1>2, RelayAssumption
      DEF RelayAssumption, ControlType, Note, Message, Sessions
    <2> QED BY <1>2, <2>1 DEF TryPush
  <1>3. CASE StartLoops \/ PushNote
    <2>1. joinRef # 0 /\ TryPush(Note(joinRef)) /\ UNCHANGED <<sendq, worker>>
      BY <1>1, <1>3 DEF StartLoops, PushNote, Places
    <2> QED BY <1>2, <2>1, OtherSteps
  <1>4. CASE DrainOne \/ \E s \in Sessions : WriterTake(s)
    BY <1>4, ReceiveSteps DEF DrainOne, WriterTake
  <1>5. ASSUME NEW r \in Runs, \/ PollQuery(r) \/ WorkerStep(r)
                                  \/ \E s \in Sessions : ReadQuery(s, r)
        PROVE  /\ \A q \in Runs : Progress(q)
               /\ QueueStep /\ SendqWaits' /\ Unanswered'
    BY <1>5, WorkerSteps
  <1>6. CASE UNCHANGED <<outCh, sendq, worker>>
    BY <1>6, OtherSteps
  <1>7. ASSUME NEW s \in Sessions, \/ WriterSend(s) \/ WriterFail(s) \/ WriterExit(s)
                                  \/ ReadClose(s) \/ HandleClose(s) \/ ReadFail(s)
        PROVE  UNCHANGED <<outCh, sendq, worker>>
    BY <1>7 DEF WriterSend, WriterFail, WriterExit, ReadClose, HandleClose,
       ReadFail, chanVars
  <1>8. ASSUME \/ Start \/ Unpark \/ LoopTop \/ BuildURL \/ NewSession \/ DialOk
               \/ SessionFails \/ JoinOk \/ LoopReturned \/ MonitorTrips
               \/ AfterSession \/ DrainDone \/ Backoff \/ SaveConfig \/ Stop
               \/ Ended \/ UNCHANGED vars
        PROVE  UNCHANGED <<outCh, sendq, worker>>
    BY <1>8 DEF Start, Unpark, LoopTop, BuildURL, NewSession, DialOk,
       SessionFails, JoinOk, LoopReturned, MonitorTrips, EndSession,
       AfterSession, DrainDone, Backoff, SaveConfig, Stop, Ended, vars,
       dataVars, chanVars
  <1> QED BY <1>3, <1>4, <1>5, <1>6, <1>7, <1>8
          DEF Next, LoopStep, WriterStep, ReaderStep

\* A batch ahead of what is left of the channel stays ahead when a message
\* is put behind it.
LEMMA AheadOfRest ==
    ASSUME SessionInv, SessionInv', NEW r \in Runs, Progress(r), NEW b \in Nat,
           Passed(r, b), NEW q \in Seq(Message),
           \A i \in DOMAIN q : q[i].run = r => b < q[i].batch,
           outCh' = q \/ \E m \in Message : Fresh(m) /\ outCh' = Append(q, m)
    PROVE  Ahead(r, b)'
  <1> USE SessionTypes
  <1>1. worker'[r].batch \in Nat /\ TypeOK
    <2>1. DataType'
      BY TypeHalves, PTL DEF SessionInv
    <2> QED BY <2>1, RelayAssumption DEF RelayAssumption, DataType, WorkerType, SessionInv
  <1>2. Passed(r, b)'
    BY <1>1, PassedStays
  <1>3. \A m \in Message : Fresh(m) /\ m.run = r => b < m.batch
    BY DEF Fresh, Passed
  <1>4. ASSUME NEW i \in DOMAIN outCh', outCh'[i].run = r
        PROVE  b < outCh'[i].batch
    <2>1. CASE outCh' = q
      BY <1>4, <2>1
    <2>2. ASSUME NEW m \in Message, Fresh(m), outCh' = Append(q, m)
          PROVE  b < outCh'[i].batch
      <3>1. (i \in DOMAIN q /\ outCh'[i] = q[i]) \/ outCh'[i] = m
        BY <2>2
      <3> QED BY <1>3, <1>4, <2>2, <3>1
    <2> QED BY <2>1, <2>2
  <1> QED BY <1>2, <1>4 DEF Ahead

\* What a step leaves in the channel keeps its order.
LEMMA TailOf ==
    ASSUME SessionInv, NEW q \in {outCh, Tail(outCh)}, q = outCh \/ outCh # <<>>
    PROVE  /\ q \in Seq(Message)
           /\ \E d \in {0, 1} : \A i \in DOMAIN q :
                 i \in Nat /\ i + d \in DOMAIN outCh /\ q[i] = outCh[i + d]
  <1> USE SessionTypes
  <1>1. CASE q = outCh
    <2>1. \A i \in DOMAIN q : i \in Nat /\ i + 0 = i
      BY <1>1
    <2> QED BY <1>1, <2>1
  <1>2. CASE q = Tail(outCh) /\ outCh # <<>>
    <2>1. \A i \in DOMAIN q : i \in Nat /\ i + 1 \in DOMAIN outCh /\ q[i] = outCh[i + 1]
      BY <1>2
    <2> QED BY <1>2, <2>1
  <1> QED BY <1>1, <1>2

\* A batch that is ahead of the channel stays ahead of it.
LEMMA AheadStays ==
    ASSUME SessionInv, SessionInv', QueueStep, NEW r \in Runs, Progress(r),
           NEW b \in Nat, Ahead(r, b)
    PROVE  Ahead(r, b)'
  <1>1. PICK q \in {outCh, Tail(outCh)} :
           /\ q = outCh \/ outCh # <<>>
           /\ outCh' = q \/ \E m \in Message : Fresh(m) /\ outCh' = Append(q, m)
    BY DEF QueueStep
  <1>2. q \in Seq(Message) /\ \A i \in DOMAIN q : \E j \in DOMAIN outCh : q[i] = outCh[j]
    BY <1>1, TailOf
  <1>3. Passed(r, b) /\ \A i \in DOMAIN q : q[i].run = r => b < q[i].batch
    BY <1>2 DEF Ahead
  <1> QED BY <1>1, <1>2, <1>3, AheadOfRest

LEMMA ChannelStep ==
    ASSUME SessionInv, SessionInv', ChannelInv, [Next]_vars
    PROVE  ChannelInv'
  <1> USE SessionTypes
  <1>1. /\ \A r \in Runs : Progress(r)
        /\ QueueStep /\ SendqWaits' /\ Unanswered'
    BY AllSteps
  <1>2. TypeOK /\ \A r \in Runs : worker'[r].batch \in Nat
    <2>1. DataType'
      BY TypeHalves, PTL DEF SessionInv
    <2> QED BY <2>1, RelayAssumption DEF RelayAssumption, DataType, WorkerType, SessionInv
  <1>3. PICK q \in {outCh, Tail(outCh)} :
           /\ q = outCh \/ outCh # <<>>
           /\ outCh' = q \/ \E m \in Message : Fresh(m) /\ outCh' = Append(q, m)
    BY <1>1 DEF QueueStep
  <1>4. PICK d \in {0, 1} : \A i \in DOMAIN q :
           i \in Nat /\ i + d \in DOMAIN outCh /\ q[i] = outCh[i + d]
    BY <1>3, TailOf
  <1>5. q \in Seq(Message) /\ \A i \in DOMAIN q : q[i] \in Message
    BY <1>3, <1>4, TailOf
  <1>6. \A i, j \in DOMAIN q :
           i < j /\ q[i].run = q[j].run /\ q[i].run \in Runs
               => q[i].batch < q[j].batch
    <2> SUFFICES ASSUME NEW i \in DOMAIN q, NEW j \in DOMAIN q, i < j,
                        q[i].run = q[j].run, q[i].run \in Runs
                 PROVE  q[i].batch < q[j].batch
      OBVIOUS
    <2>1. /\ i \in Nat /\ i + d \in DOMAIN outCh /\ q[i] = outCh[i + d]
          /\ j \in Nat /\ j + d \in DOMAIN outCh /\ q[j] = outCh[j + d]
      BY <1>4
    <2>2. i + d < j + d
      BY <2>1
    <2> QED BY <2>1, <2>2 DEF ChannelInv, QueueOrder
  <1>7. \A i \in DOMAIN q : q[i].run \in Runs => Passed(q[i].run, q[i].batch)
    BY <1>4 DEF ChannelInv, QueuePassed
  <1>8. ASSUME NEW m \in Message, m.run \in Runs, \E i \in DOMAIN q : m = q[i]
        PROVE  Passed(m.run, m.batch)'
    <2>1. m.batch \in Nat /\ Passed(m.run, m.batch)
      BY <1>7, <1>8
    <2>2. Progress(m.run) /\ worker'[m.run].batch \in Nat
      BY <1>1, <1>2, <1>8
    <2> QED BY <1>2, <1>8, <2>1, <2>2, PassedStays
  <1>9. ASSUME \A i \in DOMAIN outCh' : \E m \in Message :
                   m = outCh'[i] /\ (m.run \in Runs => Passed(m.run, m.batch)')
        PROVE  QueuePassed'
    BY <1>9 DEF QueuePassed, Passed
  <1>10. CASE outCh' = q
    <2>1. QueueOrder'
      BY <1>6, <1>10 DEF QueueOrder
    <2>2. QueuePassed'
      <3> SUFFICES ASSUME NEW i \in DOMAIN q
                   PROVE  \E m \in Message :
                             m = q[i] /\ (m.run \in Runs => Passed(m.run, m.batch)')
        BY <1>9, <1>10
      <3>1. PICK m \in Message : m = q[i]
        BY <1>5
      <3> QED BY <1>8, <3>1
    <2> QED BY <1>1, <2>1, <2>2 DEF ChannelInv
  <1>11. ASSUME NEW m \in Message, Fresh(m), outCh' = Append(q, m)
         PROVE  ChannelInv'
    <2>1. \A i \in DOMAIN outCh' :
             \/ i \in DOMAIN q /\ outCh'[i] = q[i]
             \/ i = Len(q) + 1 /\ outCh'[i] = m
      BY <1>5, <1>11
    <2>2. \A i \in DOMAIN q : q[i].run = m.run /\ m.run \in Runs => q[i].batch < m.batch
      BY <1>5, <1>7, <1>11 DEF Fresh, Passed
    <2>3. \A i \in DOMAIN q : i \in Nat /\ i < Len(q) + 1
      BY <1>5
    <2>4. QueueOrder'
      <3> SUFFICES ASSUME NEW i \in DOMAIN outCh', NEW j \in DOMAIN outCh', i < j,
                          outCh'[i].run = outCh'[j].run, outCh'[i].run \in Runs
                   PROVE  outCh'[i].batch < outCh'[j].batch
        BY DEF QueueOrder
      <3>1. i \in DOMAIN q /\ outCh'[i] = q[i]
        <4>1. i \in Nat /\ j \in Nat /\ Len(q) \in Nat
          BY <1>5, <2>1, <2>3
        <4>2. i # Len(q) + 1
          BY <2>1, <2>3, <4>1
        <4> QED BY <2>1, <4>2
      <3> QED BY <1>6, <2>1, <2>2, <3>1
    <2>5. QueuePassed'
      <3> SUFFICES ASSUME NEW i \in DOMAIN outCh'
                   PROVE  \E n \in Message :
                             n = outCh'[i] /\ (n.run \in Runs => Passed(n.run, n.batch)')
        BY <1>9
      <3>1. CASE outCh'[i] = m
        BY <1>11, <3>1 DEF Fresh
      <3>2. CASE i \in DOMAIN q /\ outCh'[i] = q[i]
        <4>1. PICK n \in Message : n = q[i]
          BY <1>5, <3>2
        <4> QED BY <1>8, <3>2, <4>1
      <3> QED BY <2>1, <3>1, <3>2
    <2> QED BY <1>1, <2>4, <2>5 DEF ChannelInv
  <1> QED BY <1>3, <1>10, <1>11

\* The parts of the invariants the steps below need, in the forms they need.
LEMMA DeliveredTypes ==
    ASSUME SessionInv
    PROVE  /\ delivered \in [Runs -> Seq([conn : Sessions, batch : 0..Batches])]
           /\ \A r \in Runs :
                 /\ delivered[r] \in Seq([conn : Sessions, batch : 0..Batches])
                 /\ \A k \in DOMAIN delivered[r] :
                       delivered[r][k].batch \in Nat /\ delivered[r][k].conn \in Nat
           /\ session \in Nat
  <1>1. DataType /\ ControlType
    BY TypeHalves DEF SessionInv
  <1>2. \A e \in [conn : Sessions, batch : 0..Batches] : e.batch \in Nat /\ e.conn \in Nat
    BY RelayAssumption DEF RelayAssumption, Sessions
  <1>3. session \in Nat
    BY <1>1, RelayAssumption DEF RelayAssumption, ControlType
  <1>4. \A r \in Runs : delivered[r] \in Seq([conn : Sessions, batch : 0..Batches])
    BY <1>1 DEF DataType
  <1>5. \A r \in Runs : \A k \in DOMAIN delivered[r] :
           delivered[r][k] \in [conn : Sessions, batch : 0..Batches]
    <2> SUFFICES ASSUME NEW r \in Runs, NEW k \in DOMAIN delivered[r]
                 PROVE  delivered[r][k] \in [conn : Sessions, batch : 0..Batches]
      OBVIOUS
    <2> DEFINE E == [conn : Sessions, batch : 0..Batches]
    <2>1. delivered[r] \in Seq(E)
      BY <1>4
    <2> HIDE DEF E
    <2>2. delivered[r][k] \in E
      BY <2>1
    <2> QED BY <2>2 DEF E
  <1>6. delivered \in [Runs -> Seq([conn : Sessions, batch : 0..Batches])]
    BY <1>1 DEF DataType
  <1> QED BY <1>2, <1>3, <1>4, <1>5, <1>6

LEMMA OrderInit == Init => OrderInv
  <1> SUFFICES ASSUME Init PROVE OrderInv
    OBVIOUS
  <1>1. ChannelInv
    BY DEF Init, ChannelInv, QueueOrder, QueuePassed, SendqWaits, Unanswered
  <1>2. DeliveredAhead /\ RowsInOrder
    BY DEF Init, DeliveredAhead, RowsInOrder
  <1>3. HandAhead
    BY DEF Init, HandAhead, ConnOpen
  <1> QED BY <1>1, <1>2, <1>3 DEF OrderInv

\* A step that delivers nothing and takes nothing from the channel for the
\* live write loop.
LEMMA QuietStep ==
    ASSUME SessionInv, SessionInv', OrderInv, [Next]_vars, delivered' = delivered,
           session <= session',
           \A s \in Sessions : (ConnOpen(s) /\ writer[s] = "busy")' =>
               ConnOpen(s) /\ writer[s] = "busy" /\ inHand'[s] = inHand[s]
    PROVE  OrderInv'
  <1> USE SessionTypes, DeliveredTypes
  <1>1. ChannelInv' /\ QueueStep /\ \A r \in Runs : Progress(r)
    BY ChannelStep, AllSteps DEF OrderInv
  <1>2. ASSUME NEW r \in Runs, NEW b \in Nat, Ahead(r, b)
        PROVE  Ahead(r, b)'
    BY <1>1, <1>2, AheadStays
  <1>3. RowsInOrder'
    BY DEF OrderInv, RowsInOrder
  <1>4. session' \in Nat
    <2>1. ControlType'
      BY TypeHalves, PTL DEF SessionInv
    <2> QED BY <2>1, RelayAssumption DEF RelayAssumption, ControlType
  <1>5. DeliveredAhead'
    <2> SUFFICES ASSUME NEW r \in Runs, NEW k \in DOMAIN delivered[r]
                 PROVE  Ahead(r, delivered[r][k].batch)' /\ delivered'[r][k].conn <= session'
      BY DEF DeliveredAhead
    <2>1. PICK b \in Nat : b = delivered[r][k].batch
      OBVIOUS
    <2>2. Ahead(r, b) /\ delivered[r][k].conn <= session
      BY <2>1 DEF OrderInv, DeliveredAhead
    <2>3. Ahead(r, b)'
      BY <1>2, <2>2
    <2> QED BY <1>4, <2>1, <2>2, <2>3
  <1>6. HandAhead'
    <2> SUFFICES ASSUME NEW s \in Sessions, (ConnOpen(s) /\ writer[s] = "busy")',
                        NEW m, m = inHand'[s], m.run \in Runs
                 PROVE  /\ Ahead(m.run, m.batch)'
                        /\ \A k \in DOMAIN delivered'[m.run] :
                              delivered'[m.run][k].batch < m.batch
      BY DEF HandAhead
    <2>1. ConnOpen(s) /\ writer[s] = "busy" /\ inHand[s] = m
      OBVIOUS
    <2>2. Ahead(m.run, m.batch)
          /\ \A k \in DOMAIN delivered[m.run] : delivered[m.run][k].batch < m.batch
      BY <2>1 DEF OrderInv, HandAhead
    <2>3. m.batch \in Nat
      BY <2>1, RelayAssumption, TypeHalves
      DEF SessionInv, DataType, NoMsg, Message, RelayAssumption
    <2> QED BY <1>2, <2>2, <2>3
  <1> QED BY <1>1, <1>3, <1>5, <1>6 DEF OrderInv

\* The live write loop takes the head: it was delivered after everything of
\* its run, and is ahead of the rest of the channel.
LEMMA TakeStep ==
    ASSUME SessionInv, SessionInv', OrderInv, NEW s \in Sessions, WriterTake(s)
    PROVE  OrderInv'
  <1> USE SessionTypes, DeliveredTypes
  <1>0. /\ Receive /\ delivered' = delivered /\ session' = session /\ loop' = loop
        /\ inHand' = [inHand EXCEPT ![s] = Head(outCh)]
        /\ writer' = [writer EXCEPT ![s] = "busy"]
        /\ [Next]_vars
    BY DEF WriterTake, loopVars, ctxVars, Next, WriterStep
  <1>1. ChannelInv' /\ QueueStep /\ \A r \in Runs : Progress(r)
    BY <1>0, ChannelStep, AllSteps DEF OrderInv
  <1>2. ASSUME NEW r \in Runs, NEW b \in Nat, Ahead(r, b)
        PROVE  Ahead(r, b)'
    BY <1>1, <1>2, AheadStays
  <1>3. RowsInOrder'
    BY <1>0 DEF OrderInv, RowsInOrder
  <1>4. DeliveredAhead'
    <2> SUFFICES ASSUME NEW r \in Runs, NEW k \in DOMAIN delivered[r]
                 PROVE  Ahead(r, delivered[r][k].batch)' /\ delivered'[r][k].conn <= session'
      BY <1>0 DEF DeliveredAhead
    <2>1. PICK b \in Nat : b = delivered[r][k].batch
      OBVIOUS
    <2>2. Ahead(r, b) /\ delivered[r][k].conn <= session
      BY <2>1 DEF OrderInv, DeliveredAhead
    <2>3. Ahead(r, b)'
      BY <1>2, <2>2
    <2> QED BY <1>0, <2>1, <2>2, <2>3
  <1>5. PICK m \in Message : m = outCh[1]
    BY ReceiveSteps, <1>0 DEF OrderInv
  <1>6. ASSUME m.run \in Runs
        PROVE  /\ Ahead(m.run, m.batch)'
               /\ \A k \in DOMAIN delivered[m.run] : delivered[m.run][k].batch < m.batch
    <2>1. /\ outCh # <<>>
          /\ \/ outCh' = Tail(outCh)
             \/ \E n \in Message : Fresh(n) /\ outCh' = Append(Tail(outCh), n)
      BY <1>0, ReceiveSteps DEF OrderInv
    <2>2. Tail(outCh) \in Seq(Message) /\ 1 \in DOMAIN outCh
          /\ \A i \in DOMAIN Tail(outCh) : /\ i + 1 \in DOMAIN outCh /\ 1 < i + 1
                                           /\ Tail(outCh)[i] = outCh[i + 1]
      BY <2>1
    <2>3. Passed(m.run, m.batch)
      BY <1>5, <1>6, <2>2 DEF OrderInv, ChannelInv, QueuePassed
    <2>4. \A i \in DOMAIN Tail(outCh) :
             Tail(outCh)[i].run = m.run => m.batch < Tail(outCh)[i].batch
      BY <1>5, <1>6, <2>2 DEF OrderInv, ChannelInv, QueueOrder
    <2>5. Ahead(m.run, m.batch)'
      <3>1. m.batch \in Nat /\ Progress(m.run)
        BY <1>1, <1>6
      <3>2. PICK q \in Seq(Message) : q = Tail(outCh)
        BY <2>2
      <3> QED BY <1>6, <2>1, <2>3, <2>4, <3>1, <3>2, AheadOfRest
    <2>6. \A k \in DOMAIN delivered[m.run] : delivered[m.run][k].batch < m.batch
      BY <1>5, <1>6, <2>2 DEF OrderInv, DeliveredAhead, Ahead
    <2> QED BY <2>5, <2>6
  <1>7. HandAhead'
    <2> SUFFICES ASSUME NEW z \in Sessions, (ConnOpen(z) /\ writer[z] = "busy")',
                        NEW n, n = inHand'[z], n.run \in Runs
                 PROVE  /\ Ahead(n.run, n.batch)'
                        /\ \A k \in DOMAIN delivered'[n.run] :
                              delivered'[n.run][k].batch < n.batch
      BY DEF HandAhead
    <2>1. inHand \in [Sessions -> Message \cup {NoMsg}] /\ DOMAIN writer = Sessions
      BY TypeHalves DEF SessionInv, DataType
    <2>2. CASE z = s
      <3>1. n = m
        BY <1>0, <1>5, <2>1, <2>2, SessionTypes DEF Receive
      <3> QED BY <1>0, <1>6, <3>1
    <2>3. CASE z # s
      <3>1. ConnOpen(z) /\ writer[z] = "busy" /\ inHand[z] = n
        BY <1>0, <2>1, <2>3 DEF ConnOpen
      <3>2. Ahead(n.run, n.batch)
            /\ \A k \in DOMAIN delivered[n.run] : delivered[n.run][k].batch < n.batch
        BY <3>1 DEF OrderInv, HandAhead
      <3>3. n.batch \in Nat
        BY <2>1, <3>1, RelayAssumption DEF NoMsg, Message, RelayAssumption
      <3> QED BY <1>0, <1>2, <3>2, <3>3
    <2> QED BY <2>2, <2>3
  <1> QED BY <1>1, <1>3, <1>4, <1>7 DEF OrderInv

\* What the live write loop sends comes after everything that was delivered.
LEMMA SendsNext ==
    ASSUME SessionInv, OrderInv, NEW s \in Sessions, NEW m \in Message \cup {NoMsg},
           ConnOpen(s), writer[s] = "busy", m = inHand[s], m.run \in Runs
    PROVE  \A k \in DOMAIN delivered[m.run] :
               /\ delivered[m.run][k].batch # 0
               /\ delivered[m.run][k].batch < m.batch
               /\ delivered[m.run][k].conn <= s
  <1> USE SessionTypes, DeliveredTypes
  <1>1. /\ Ahead(m.run, m.batch)
        /\ \A k \in DOMAIN delivered[m.run] : delivered[m.run][k].batch < m.batch
    BY DEF OrderInv, HandAhead
  <1>2. m.batch \in Nat
    BY DEF NoMsg
  <1>3. \A k \in DOMAIN delivered[m.run] :
           Passed(m.run, delivered[m.run][k].batch) /\ delivered[m.run][k].conn <= s
    BY DEF OrderInv, DeliveredAhead, Ahead, ConnOpen
  <1>4. ASSUME NEW k \in DOMAIN delivered[m.run], delivered[m.run][k].batch = 0
        PROVE  FALSE
    <2>1. worker[m.run].batch = 0
      BY <1>3, <1>4 DEF Passed
    <2>2. m.batch <= 0
      BY <1>1, <1>2, <2>1 DEF Ahead, Passed
    <2> QED BY <1>1, <1>2, <1>4, <2>2
  <1> QED BY <1>1, <1>3, <1>4

\* The live write loop sends what it holds.
LEMMA SendStep ==
    ASSUME SessionInv, SessionInv', OrderInv, NEW s \in Sessions, WriterSend(s)
    PROVE  OrderInv'
  <1> USE SessionTypes, DeliveredTypes
  <1>0. /\ ConnOpen(s) /\ writer[s] = "busy" /\ session = s
        /\ session' = session /\ loop' = loop
        /\ writer' = [writer EXCEPT ![s] = "idle"]
        /\ UNCHANGED <<outCh, worker>>
        /\ [Next]_vars
    BY DEF WriterSend, ConnOpen, loopVars, ctxVars, chanVars, Next, WriterStep
  <1>1. ChannelInv'
    BY <1>0, ChannelStep DEF OrderInv
  <1>2. HandAhead'
    <2>1. DOMAIN writer = Sessions
      BY TypeHalves DEF SessionInv, DataType
    <2>2. \A z \in Sessions : ~(ConnOpen(z) /\ writer[z] = "busy")'
      BY <1>0, <2>1 DEF ConnOpen
    <2> QED BY <2>2 DEF HandAhead
  <1>3. PICK m \in Message \cup {NoMsg} : m = inHand[s]
    BY TypeHalves DEF SessionInv, DataType
  <1>4. CASE m.run = NoRun
    <2>1. delivered' = delivered
      BY <1>3, <1>4 DEF WriterSend
    <2>2. DeliveredAhead' /\ RowsInOrder'
      BY <1>0, <2>1 DEF OrderInv, DeliveredAhead, RowsInOrder, Ahead, Passed
    <2> QED BY <1>1, <1>2, <2>2 DEF OrderInv
  <1>5. CASE m.run # NoRun
    <2> DEFINE r == m.run
               e == [conn |-> s, batch |-> m.batch]
    <2>1. r \in Runs /\ m.batch \in Nat
      BY <1>3, <1>5 DEF Message, NoMsg
    <2>2. /\ Ahead(r, m.batch)
          /\ \A k \in DOMAIN delivered[r] : delivered[r][k].batch < m.batch
      BY <1>0, <1>3, <2>1 DEF OrderInv, HandAhead
    <2>3. delivered' = [delivered EXCEPT ![r] = Append(delivered[r], e)]
      BY <1>3, <1>5 DEF WriterSend
    <2>4. /\ delivered'[r] = Append(delivered[r], e)
          /\ \A q \in Runs : q # r => delivered'[q] = delivered[q]
      BY <2>1, <2>3
    <2>5. \A k \in DOMAIN delivered'[r] :
             \/ k \in DOMAIN delivered[r] /\ delivered'[r][k] = delivered[r][k]
             \/ k = Len(delivered[r]) + 1 /\ delivered'[r][k] = e
      BY <2>1, <2>4
    <2>6. e.conn = session /\ e.batch = m.batch
      BY <1>0
    <2>7. \A k \in DOMAIN delivered[r] :
             delivered[r][k].conn <= session /\ delivered[r][k].batch # 0
      BY <1>0, <1>3, <2>1, SendsNext
    <2> HIDE DEF e
    <2>8. DeliveredAhead'
      <3>1. ASSUME NEW q \in Runs, NEW k \in DOMAIN delivered'[q]
            PROVE  \E b \in Nat : /\ b = delivered'[q][k].batch /\ Ahead(q, b)
                                  /\ delivered'[q][k].conn <= session
        <4>1. CASE q # r \/ (k \in DOMAIN delivered[r] /\ delivered'[r][k] = delivered[r][k])
          BY <2>1, <2>4, <3>1, <4>1 DEF OrderInv, DeliveredAhead
        <4>2. CASE q = r /\ delivered'[r][k] = e
          BY <2>1, <2>2, <2>6, <4>2
        <4> QED BY <2>5, <3>1, <4>1, <4>2
      <3>2. \A q \in Runs, b \in Nat : Ahead(q, b) => Ahead(q, b)'
        BY <1>0 DEF Ahead, Passed
      <3>3. ASSUME NEW q \in Runs, NEW k \in DOMAIN delivered'[q]
            PROVE  \E b \in Nat : /\ b = delivered'[q][k].batch /\ Ahead(q, b)'
                                  /\ delivered'[q][k].conn <= session'
        BY <1>0, <3>1, <3>2, <3>3
      <3> QED BY <3>3 DEF DeliveredAhead, Ahead, Passed
    <2>9. RowsInOrder'
      <3> SUFFICES ASSUME NEW q \in Runs, NEW i \in DOMAIN delivered'[q],
                          NEW j \in DOMAIN delivered'[q], i < j
                   PROVE  /\ delivered'[q][i].batch < delivered'[q][j].batch
                          /\ delivered'[q][i].conn <= delivered'[q][j].conn
                          /\ delivered'[q][i].batch # 0
        BY DEF RowsInOrder
      <3>1. CASE q # r
        BY <2>4, <3>1 DEF OrderInv, RowsInOrder
      <3>2. CASE q = r
        <4>1. i \in Nat /\ j \in Nat /\ i <= Len(delivered[r])
          BY <2>1, <2>4, <3>2
        <4>2. i \in DOMAIN delivered[r] /\ delivered'[r][i] = delivered[r][i]
          BY <2>1, <2>5, <3>2, <4>1
        <4> QED BY <2>1, <2>2, <2>5, <2>6, <2>7, <3>2, <4>2 DEF OrderInv, RowsInOrder
      <3> QED BY <3>1, <3>2
    <2> QED BY <1>1, <1>2, <2>8, <2>9 DEF OrderInv
  <1> QED BY <1>4, <1>5

LEMMA OrderStep == SessionInv /\ SessionInv' /\ OrderInv /\ [Next]_vars => OrderInv'
  <1> SUFFICES ASSUME SessionInv, SessionInv', OrderInv, [Next]_vars PROVE OrderInv'
    OBVIOUS
  <1> USE DeliveredTypes
  <1>t. ControlType /\ DataType
    BY TypeHalves DEF SessionInv
  <1>1. CASE \E s \in Sessions : WriterTake(s) \/ WriterSend(s)
    BY <1>1, TakeStep, SendStep
  <1>2. ASSUME delivered' = delivered, session' = session, writer' = writer,
               inHand' = inHand, loop' = "running" => loop = "running"
        PROVE  OrderInv'
    BY <1>2, QuietStep DEF ConnOpen
  <1>3. ASSUME NEW s \in Sessions, WriterFail(s) \/ WriterExit(s)
        PROVE  OrderInv'
    <2>1. /\ delivered' = delivered /\ session' = session /\ loop' = loop
          /\ writer' = [writer EXCEPT ![s] = "exited"]
          /\ \A z \in Sessions : z # s => inHand'[z] = inHand[z]
      BY <1>3, <1>t DEF WriterFail, WriterExit, loopVars, ctxVars, DataType
    <2>2. DOMAIN writer = Sessions
      BY <1>t DEF DataType
    <2> QED BY <2>1, <2>2, QuietStep DEF ConnOpen
  <1>4. CASE StartLoops
    <2>1. /\ delivered' = delivered /\ session' = session /\ inHand' = inHand
          /\ writer' = [writer EXCEPT ![session] = "idle"]
      BY <1>4 DEF StartLoops, ctxVars
    <2>2. DOMAIN writer = Sessions
      BY <1>t DEF DataType
    <2>3. \A s \in Sessions : ~(ConnOpen(s) /\ writer[s] = "busy")'
      BY <2>1, <2>2 DEF ConnOpen
    <2> QED BY <2>1, <2>3, QuietStep
  <1>5. CASE NewSession
    <2>1. delivered' = delivered /\ loop' = "dialing" /\ session <= session'
      BY <1>5 DEF NewSession, dataVars
    <2> QED BY <2>1, QuietStep DEF ConnOpen
  <1>6. CASE \/ Start \/ Unpark \/ LoopTop \/ BuildURL \/ DialOk \/ SessionFails
             \/ JoinOk \/ LoopReturned \/ MonitorTrips \/ AfterSession \/ DrainOne
             \/ DrainDone \/ Backoff \/ PushNote \/ SaveConfig \/ Stop \/ Ended
             \/ UNCHANGED vars
    BY <1>2, <1>6 DEF Start, Unpark, LoopTop, BuildURL, DialOk, SessionFails,
       JoinOk, LoopReturned, MonitorTrips, EndSession, AfterSession, DrainOne,
       DrainDone, Backoff, PushNote, SaveConfig, Stop, Ended, vars, loopVars,
       ctxVars, dataVars, ioVars, chanVars
  <1>7. ASSUME NEW s \in Sessions, ReaderStep(s)
        PROVE  OrderInv'
    BY <1>2, <1>7 DEF ReaderStep, ReadQuery, ReadClose, HandleClose, ReadFail,
       loopVars, ctxVars, ioVars
  <1>8. ASSUME NEW r \in Runs, PollQuery(r) \/ WorkerStep(r)
        PROVE  OrderInv'
    BY <1>2, <1>8 DEF WorkerStep, PollQuery, Acquire, QueryReturns, Capture,
       SendRows, SendError, loopVars, ctxVars, ioVars
  <1> QED BY <1>1, <1>3, <1>4, <1>5, <1>6, <1>7, <1>8 DEF Next, LoopStep, WriterStep

LEMMA OrderCorrect == Spec => [](SessionInv /\ OrderInv)
  <1>1. Init => SessionInv /\ OrderInv
    BY SessionInit, OrderInit
  <1>2. SessionInv /\ OrderInv /\ [Next]_vars => (SessionInv /\ OrderInv)'
    BY SessionStep, OrderStep, PTL
  <1> QED BY <1>1, <1>2, PTL DEF Spec

\* RowsInOrder: whatever sessions come and go, connectLoop drains or a write
\* loop loses, the cloud sees the batches of each run of a query in order, each
\* at most once, never on an older connection than an earlier one, none after
\* an error.
THEOREM RowsOrdered == Spec => []RowsInOrder
  <1>1. OrderInv => RowsInOrder
    BY DEF OrderInv
  <1> QED BY <1>1, OrderCorrect, PTL

\* The runs that have begun, and that a run does not become one that has not.
Begun == {r \in Runs : worker[r].pc # "none"}
Begins(r) == worker'[r].pc = "none" <=> worker[r].pc = "none"

\* Taking from the channel only lets a goroutine go on that was waiting.
LEMMA ReceiveBegins ==
    ASSUME SessionInv, ChannelInv, Receive
    PROVE  \A r \in Runs : Begins(r)
  <1> USE SessionTypes
  <1>1. CASE sendq = <<>>
    BY <1>1 DEF Receive, Begins
  <1>2. CASE sendq # <<>>
    <2>1. 1 \in DOMAIN sendq /\ Head(sendq) = sendq[1]
      BY <1>2
    <2>2. PICK q \in Runs : q = Head(sendq).run
      BY <2>1
    <2>3. worker[q].pc = "blocked" /\ worker[q] \in WorkerType
      BY <2>1, <2>2 DEF ChannelInv, SendqWaits
    <2>4. worker' = [worker EXCEPT ![q] = NextBatch(worker[q])]
      BY <1>2, <2>2 DEF Receive
    <2>5. NextBatch(worker[q]).pc # "none"
      BY <2>3, NextBatchTurns
    <2> QED BY <2>3, <2>4, <2>5 DEF Begins
  <1> QED BY <1>1, <1>2

\* A query goroutine that goes on has begun and stays so.
LEMMA WorkerBegins ==
    ASSUME SessionInv, NEW q \in Runs, WorkerStep(q)
    PROVE  \A r \in Runs : Begins(r)
  <1> USE SessionTypes
  <1>1. worker[q].pc # "none"
    BY DEF WorkerStep, Acquire, QueryReturns, Capture, SendRows, SendError
  <1>2. NextBatch(worker[q]).pc # "none"
    BY NextBatchTurns
  <1>3. \A r \in Runs : r # q => worker'[r] = worker[r]
    BY DEF WorkerStep, Acquire, QueryReturns, Capture, SendRows, SendError
  <1>4. worker'[q].pc # "none"
    <2>1. CASE Acquire(q) \/ QueryReturns(q)
      BY <2>1 DEF Acquire, QueryReturns, WorkerType
    <2>2. CASE Capture(q)
      BY <1>2, <2>2 DEF Capture, Stamp, WorkerType
    <2>3. CASE SendRows(q) \/ SendError(q)
      BY <1>2, <2>3 DEF SendRows, SendError, WorkerType
    <2> QED BY <2>1, <2>2, <2>3 DEF WorkerStep
  <1> QED BY <1>1, <1>3, <1>4 DEF Begins

\* Only a query that is handed over begins a run; no run is ever forgotten.
LEMMA BegunStep ==
    ASSUME SessionInv, ChannelInv, [Next]_vars
    PROVE  Begun' = Begun \/ \E r \in Runs : Begun' = Begun \cup {r}
  <1> USE SessionTypes
  <1>1. (\A r \in Runs : Begins(r)) => Begun' = Begun
    BY DEF Begun, Begins
  <1>2. ASSUME NEW q \in Runs, PollQuery(q) \/ \E s \in Sessions : ReadQuery(s, q)
        PROVE  Begun' = Begun \cup {q}
    <2>1. worker' = [worker EXCEPT ![q].pc = "sem"]
      BY <1>2 DEF PollQuery, ReadQuery
    <2>2. worker'[q].pc = "sem" /\ \A r \in Runs : r # q => worker'[r] = worker[r]
      BY <2>1 DEF WorkerType
    <2> QED BY <2>2 DEF Begun
  <1>3. CASE DrainOne \/ \E s \in Sessions : WriterTake(s)
    BY <1>1, <1>3, ReceiveBegins DEF DrainOne, WriterTake
  <1>4. CASE \E r \in Runs : WorkerStep(r)
    BY <1>1, <1>4, WorkerBegins
  <1>5. worker' = worker => Begun' = Begun
    BY DEF Begun
  <1>6. CASE \E s \in Sessions : \/ WriterSend(s) \/ WriterFail(s) \/ WriterExit(s)
                                \/ ReadClose(s) \/ HandleClose(s) \/ ReadFail(s)
    BY <1>5, <1>6 DEF WriterSend, WriterFail, WriterExit, ReadClose, HandleClose,
       ReadFail
  <1>7. CASE \/ Start \/ Unpark \/ LoopTop \/ BuildURL \/ NewSession \/ DialOk
             \/ SessionFails \/ JoinOk \/ StartLoops \/ LoopReturned
             \/ MonitorTrips \/ AfterSession \/ DrainDone \/ Backoff
             \/ PushNote \/ SaveConfig \/ Stop \/ Ended \/ UNCHANGED vars
    BY <1>5, <1>7 DEF Start, Unpark, LoopTop, BuildURL, NewSession, DialOk,
       SessionFails, JoinOk, StartLoops, LoopReturned, MonitorTrips, EndSession,
       AfterSession, DrainDone, Backoff, PushNote, SaveConfig, Stop, Ended,
       vars, dataVars
  <1> QED BY <1>2, <1>3, <1>4, <1>6, <1>7
          DEF Next, LoopStep, WriterStep, ReaderStep

\* Only the running session adds a frame, one that may follow: the next of a
\* run that has begun, on the latest connection there is.
LEMMA FrameStep ==
    ASSUME SessionInv, OrderInv, NEW s \in Sessions, WriterSend(s)
    PROVE  \/ delivered' = delivered
           \/ \E r \in Runs, e \in Rows!Frame :
                /\ worker[r].pc # "none"
                /\ Rows!Follows(e, delivered[r]) /\ Rows!Latest(e)
                /\ delivered' = [delivered EXCEPT ![r] = Append(delivered[r], e)]
  <1> USE SessionTypes, DeliveredTypes
  <1>1. ConnOpen(s) /\ writer[s] = "busy" /\ session = s
    BY DEF WriterSend, ConnOpen
  <1>2. PICK m \in Message \cup {NoMsg} : m = inHand[s]
    BY TypeHalves DEF SessionInv, DataType
  <1>3. CASE m.run = NoRun
    BY <1>2, <1>3 DEF WriterSend
  <1>4. CASE m.run # NoRun
    <2>1. PICK r \in Runs : r = m.run
      BY <1>2, <1>4 DEF Message, NoMsg
    <2>2. m \in Message /\ m.batch \in Nat
      BY <1>2, <1>4 DEF NoMsg
    <2>3. PICK e \in Rows!Frame : e = [conn |-> s, batch |-> m.batch]
      BY <2>2 DEF Rows!Frame, Message
    <2>4. e.conn = s /\ e.batch = m.batch
      BY <2>3
    <2>5. delivered' = [delivered EXCEPT ![r] = Append(delivered[r], e)]
      BY <1>2, <1>4, <2>1, <2>3 DEF WriterSend
    <2>6. Rows!Follows(e, delivered[r])
      <3>1. ASSUME delivered[r] # <<>>
            PROVE  Len(delivered[r]) \in DOMAIN delivered[r]
        BY <3>1
      <3> QED BY <1>1, <1>2, <2>1, <2>4, <3>1, SendsNext DEF Rows!Follows
    <2>7. Rows!Latest(e)
      BY <1>1, <2>4 DEF Rows!Latest, OrderInv, DeliveredAhead
    <2>8. Passed(r, m.batch)
      BY <1>1, <1>2, <2>1 DEF OrderInv, HandAhead, Ahead
    <2>9. worker[r].pc # "none"
      BY <2>2, <2>8 DEF Passed, OrderInv, ChannelInv, Unanswered
    <2> QED BY <2>5, <2>6, <2>7, <2>9
  <1> QED BY <1>3, <1>4

\* No other step adds a frame.
LEMMA NoFrame ==
    ASSUME [Next]_vars, ~\E s \in Sessions : WriterSend(s)
    PROVE  delivered' = delivered
  <1>1. CASE \E s \in Sessions : \/ WriterTake(s) \/ WriterFail(s) \/ WriterExit(s)
                                \/ ReaderStep(s)
    BY <1>1 DEF WriterTake, WriterFail, WriterExit, ReaderStep, ReadQuery,
       ReadClose, HandleClose, ReadFail
  <1>2. CASE \E r \in Runs : PollQuery(r) \/ WorkerStep(r)
    BY <1>2 DEF WorkerStep, PollQuery, Acquire, QueryReturns, Capture, SendRows,
       SendError
  <1>3. CASE LoopStep
    BY <1>3 DEF LoopStep, Start, Unpark, LoopTop, BuildURL, NewSession, DialOk,
       SessionFails, JoinOk, StartLoops, LoopReturned, EndSession, AfterSession,
       DrainOne, DrainDone, Backoff, dataVars
  <1>4. CASE MonitorTrips \/ PushNote \/ SaveConfig \/ Stop \/ Ended \/ UNCHANGED vars
    BY <1>4 DEF MonitorTrips, EndSession, PushNote, SaveConfig, Stop, Ended,
       vars, dataVars
  <1> QED BY <1>1, <1>2, <1>3, <1>4 DEF Next, WriterStep

\* Each step asks for runs, delivers the next frame of one, or changes neither.
LEMMA RowStep ==
    ASSUME SessionInv, OrderInv, [Next]_vars
    PROVE  [Rows!Next]_<<Begun, delivered>>
  <1> USE SessionTypes
  <1>1. ASSUME NEW s \in Sessions, WriterSend(s)
        PROVE  [Rows!Next]_<<Begun, delivered>>
    <2>1. Begun' = Begun
      BY <1>1 DEF WriterSend, Begun
    <2>2. CASE delivered' = delivered
      BY <2>1, <2>2
    <2>3. CASE delivered' # delivered
      <3>1. PICK r \in Runs, e \in Rows!Frame :
              /\ worker[r].pc # "none"
              /\ Rows!Follows(e, delivered[r]) /\ Rows!Latest(e)
              /\ delivered' = [delivered EXCEPT ![r] = Append(delivered[r], e)]
        BY <1>1, <2>3, FrameStep
      <3>2. Rows!Deliver(r, e)
        BY <2>1, <3>1 DEF Rows!Deliver, Begun
      <3> QED BY <3>2 DEF Rows!Next
    <2> QED BY <2>2, <2>3
  <1>2. ASSUME ~\E s \in Sessions : WriterSend(s)
        PROVE  [Rows!Next]_<<Begun, delivered>>
    <2>1. delivered' = delivered
      BY <1>2, NoFrame
    <2>2. Begun' = Begun \/ \E r \in Runs : Begun' = Begun \cup {r}
      BY BegunStep DEF OrderInv
    <2> QED BY <2>1, <2>2 DEF Rows!Next, Rows!Ask, Begun
  <1> QED BY <1>1, <1>2

\* IsRowStream: the relay implements RowStream.  Every step hands over a query,
\* adds one frame that may follow or does neither, whatever sessions end and
\* begin and however often a request is handed over; this is where the order of
\* outCh, of its waiting senders and of the write loops pays off.
THEOREM RelayIsRowStream == Spec => IsRowStream
  <1>1. Init => Rows!Init
    BY DEF Init, Rows!Init
  <1>2. SessionInv /\ OrderInv /\ [Next]_vars => [Rows!Next]_<<Begun, delivered>>
    BY RowStep
  <1> QED BY <1>1, <1>2, OrderCorrect, PTL DEF Spec, IsRowStream, Rows!Spec, Begun

-----------------------------------------------------------------------------
(***************************************************************************)
(* What is missing of the rows of a query.  A goroutine is done with its   *)
(* batches one by one and leaves each in the channel (OneByOne), so that   *)
(* the channel has no hole (ChannelWhole).  Unless a loop outlives a       *)
(* backoff only the write loop of the running session takes from it        *)
(* (SoleWriter), and a write loop that loses a message sends nothing any   *)
(* more; so what it holds, or takes next, follows the last frame of the    *)
(* run on its connection (HandWhole, RestWhole).                           *)
(***************************************************************************)

\* Batch b of r waits in the channel.
InChannel(r, b) == \E i \in DOMAIN outCh : outCh[i].run = r /\ outCh[i].batch = b

\* Whatever the goroutine of r is done with after batch b is in the channel.
Followed(r, b) == \A n \in 1..Batches : b < n /\ Passed(r, n) => InChannel(r, n)

\* The channel has no hole: nothing was lost between a message and the place
\* its goroutine has come to.
ChannelWhole ==
    \A i \in DOMAIN outCh :
        outCh[i].run \in Runs => Followed(outCh[i].run, outCh[i].batch)

\* Unless a loop outlives a backoff, only the write loop of the latest session
\* takes from the channel, and none while the next one is being set up.
SoleWriter ==
    ~overlap =>
        \A s \in Sessions : writer[s] \in {"idle", "busy"} =>
            s = session /\ loop \in {"running", "ended", "draining", "backoff",
                                     "exited", "restarting"}

\* The joinRef is that of the last session that started its loops, or of the
\* one that is about to; before it there is nothing to send.
JoinRefKnown ==
    /\ joinRef <= session
    /\ joinRef # 0 => loop = "reporting" \/ writer[joinRef] # "unborn"
    /\ joinRef = 0 => outCh = <<>> /\ \A r \in Runs : worker[r].pc # "send"
    /\ \A r \in Runs : /\ worker[r].first <= joinRef
                       /\ worker[r].first # 0 => worker[r].batch # 0

\* A frame left on a session that had its loops, not before the one its first
\* batch was stamped for.
FramesKnown ==
    \A r \in Runs : \A k \in DOMAIN delivered[r] :
        LET s == delivered[r][k].conn IN
            writer[s] # "unborn" /\ worker[r].first <= s

\* The frames of r on the running session s: what the write loop holds, or the
\* next it can take, follows the last one without a hole, and if r began on s,
\* then it is the first, second, ... of r.
Holds(s, r) == writer[s] = "busy" /\ inHand[s].run = r
LastBatch(r) == delivered[r][Len(delivered[r])].batch
LastOn(s, r) == delivered[r] # <<>> /\ delivered[r][Len(delivered[r])].conn = s
Serving(s) == ~overlap /\ ConnOpen(s) /\ writer[s] \in {"idle", "busy"}
Opening(s) == ~overlap /\ loop = "reporting" /\ session = s

HandWhole ==
    \A s \in Sessions, r \in Runs :
        Serving(s) /\ Holds(s, r) =>
            LET b == inHand[s].batch IN
            /\ Followed(r, b)
            /\ LastOn(s, r) => b = LastBatch(r) + 1
            /\ worker[r].first = s => b = Len(delivered[r]) + 1

RestWhole ==
    \A s \in Sessions, r \in Runs :
        /\ Serving(s) /\ ~Holds(s, r) /\ LastOn(s, r) =>
              Followed(r, LastBatch(r))
        /\ (Serving(s) /\ ~Holds(s, r)) \/ Opening(s) =>
              (worker[r].first = s => Followed(r, Len(delivered[r])))

WholeInv == /\ ChannelWhole /\ SoleWriter /\ JoinRefKnown /\ FramesKnown
            /\ HandWhole /\ RestWhole
            /\ GaplessOnASession /\ WholeFromFirstSession

LEMMA NextBatchPassed ==
    ASSUME NEW w \in WorkerType, NEW n \in 1..Batches,
           \/ n < NextBatch(w).batch
           \/ n = NextBatch(w).batch /\ NextBatch(w).pc = "done"
    PROVE  n < w.batch \/ n = w.batch
  <1> w.batch \in Nat /\ n \in Nat
    BY RelayAssumption DEF RelayAssumption, WorkerType
  <1>1. CASE w.batch \in {0, Batches}
    BY <1>1 DEF NextBatch, WorkerType
  <1>2. CASE w.batch \notin {0, Batches}
    BY <1>2 DEF NextBatch, WorkerType
  <1> QED BY <1>1, <1>2

\* A message put behind a channel is in it, and so is what was there before.
LEMMA PutIn ==
    ASSUME NEW q \in Seq(Message), NEW m \in Message, outCh' = Append(q, m)
    PROVE  /\ InChannel(m.run, m.batch)'
           /\ \A r, b : (\E i \in DOMAIN q : q[i].run = r /\ q[i].batch = b)
                 => InChannel(r, b)'
  <1>1. /\ Len(q) + 1 \in DOMAIN outCh' /\ outCh'[Len(q) + 1] = m
        /\ \A i \in DOMAIN q : i \in DOMAIN outCh' /\ outCh'[i] = q[i]
    OBVIOUS
  <1> QED BY <1>1 DEF InChannel

\* A goroutine is done with one batch at a time, and a batch it is done with is
\* then in the channel, unless there was no session yet to send it to.
LEMMA OneByOne ==
    ASSUME SessionInv, ChannelInv, [Next]_vars, NEW r \in Runs,
           NEW n \in 1..Batches, Passed(r, n)'
    PROVE  \/ Passed(r, n)
           \/ n = worker[r].batch /\ (InChannel(r, n)' \/ joinRef = 0)
  <1> USE SessionTypes
  <1> DEFINE w == worker[r]
             Goal == \/ Passed(r, n)
                     \/ n = w.batch /\ (InChannel(r, n)' \/ joinRef = 0)
  <1>0. w \in WorkerType /\ w.batch \in Nat /\ n \in Nat /\ n # 0
    BY RelayAssumption DEF RelayAssumption
  <1>1. ASSUME worker'[r].batch = w.batch, worker'[r].pc = "done" => w.pc = "done"
        PROVE  Goal
    BY <1>0, <1>1 DEF Passed
  <1>2. ASSUME worker'[r] = NextBatch(w), n = w.batch => InChannel(r, n)' \/ joinRef = 0
        PROVE  Goal
    <2>1. n < w.batch \/ n = w.batch
      BY <1>0, <1>2, NextBatchPassed DEF Passed
    <2> QED BY <1>0, <1>2, <2>1 DEF Passed
  <1>3. CASE Receive
    <2>1. CASE sendq = <<>>
      BY <1>1, <1>3, <2>1 DEF Receive
    <2>2. CASE sendq # <<>>
      <3>0. PICK m \in Message : m = Head(sendq)
        BY <2>2
      <3>1. m = sendq[1] /\ m.run \in Runs /\ 1 \in DOMAIN sendq
        BY <2>2, <3>0
      <3>2. worker[m.run].batch = m.batch
        BY <3>1 DEF ChannelInv, SendqWaits
      <3>3. /\ outCh # <<>> /\ outCh' = Append(Tail(outCh), m)
            /\ worker' = [worker EXCEPT ![m.run] = NextBatch(worker[m.run])]
        BY <1>3, <2>2, <3>0 DEF Receive
      <3>4. InChannel(m.run, m.batch)'
        <4>1. Tail(outCh) \in Seq(Message)
          BY <3>3
        <4> QED BY <3>3, <4>1, PutIn
      <3>5. CASE r = m.run
        BY <1>2, <3>1, <3>2, <3>3, <3>4, <3>5
      <3>6. CASE r # m.run
        BY <1>1, <3>3, <3>6
      <3> QED BY <3>5, <3>6
    <2> QED BY <2>1, <2>2
  <1>4. ASSUME NEW q \in Runs, NEW v, worker' = [worker EXCEPT ![q] = v],
               q = r => v.batch = w.batch /\ (v.pc = "done" => w.pc = "done")
        PROVE  Goal
    <2>1. worker'[r] = IF q = r THEN v ELSE w
      BY <1>4
    <2> QED BY <1>1, <1>4, <2>1
  <1>5. ASSUME NEW q \in Runs,
               \/ PollQuery(q) \/ Acquire(q) \/ (\E s \in Sessions : ReadQuery(s, q))
        PROVE  Goal
    <2>1. PICK p \in {"sem", "query"} :
             worker' = [worker EXCEPT ![q] = [worker[q] EXCEPT !.pc = p]]
      BY <1>5 DEF PollQuery, ReadQuery, Acquire, WorkerType
    <2>2. LET v == [worker[q] EXCEPT !.pc = p] IN v.batch = worker[q].batch /\ v.pc = p
      BY DEF WorkerType
    <2> QED BY <1>4, <2>1, <2>2
  <1>6. ASSUME NEW q \in Runs, QueryReturns(q)
        PROVE  Goal
    <2>1. PICK b \in {0, 1} : worker' = [worker EXCEPT ![q] =
                                    [worker[q] EXCEPT !.pc = "capture", !.batch = b]]
      BY <1>6 DEF QueryReturns, WorkerType
    <2>2. CASE q = r
      <3>1. worker'[r].batch = b /\ worker'[r].pc = "capture"
        BY <2>1, <2>2 DEF WorkerType
      <3>2. n < b
        BY <3>1 DEF Passed
      <3> QED BY <1>0, <3>2
    <2>3. CASE q # r
      BY <1>1, <2>1, <2>3
    <2> QED BY <2>2, <2>3
  <1>7. ASSUME NEW q \in Runs, worker' = [worker EXCEPT ![q] = NextBatch(worker[q])],
               \/ worker[q].batch = 0 \/ joinRef = 0
               \/ r = q /\ n = worker[q].batch => InChannel(r, n)'
        PROVE  Goal
    <2>1. CASE q # r
      BY <1>1, <1>7, <2>1
    <2>2. CASE q = r /\ w.batch = 0
      <3>1. worker'[r].batch = 0
        BY <1>0, <1>7, <2>2 DEF NextBatch, WorkerType
      <3> QED BY <1>0, <3>1 DEF Passed
    <2>3. CASE q = r /\ w.batch # 0
      BY <1>2, <1>7, <2>3
    <2> QED BY <2>1, <2>2, <2>3
  <1>8. ASSUME NEW q \in Runs, Capture(q)
        PROVE  Goal
    <2>1. CASE joinRef = 0
      BY <1>7, <1>8, <2>1 DEF Capture
    <2>2. CASE joinRef # 0
      <3>1. worker' = [worker EXCEPT ![q] = Stamp(worker[q])]
        BY <1>8, <2>2 DEF Capture
      <3>2. Stamp(worker[q]).pc = "send" /\ Stamp(worker[q]).batch = worker[q].batch
        BY DEF Stamp, WorkerType
      <3> QED BY <1>4, <3>1, <3>2
    <2> QED BY <2>1, <2>2
  <1>9. ASSUME NEW q \in Runs, SendRows(q)
        PROVE  Goal
    <2>1. worker[q].pc = "send"
      BY <1>9 DEF SendRows
    <2>2. CASE Room
      <3>1. /\ outCh' = Append(outCh, Msg(q))
            /\ worker' = [worker EXCEPT ![q] = NextBatch(worker[q])]
        BY <1>9, <2>2 DEF SendRows
      <3>2. Msg(q) \in Message /\ Msg(q).run = q /\ Msg(q).batch = worker[q].batch
        <4>1. worker[q].join # 0
          BY <2>1 DEF SessionInv, Stamped
        <4>2. worker[q].join \in Sessions /\ worker[q].batch \in 0..Batches
          BY <4>1, RelayAssumption DEF RelayAssumption, WorkerType, Sessions
        <4> QED BY <4>2 DEF Msg, Message
      <3> QED BY <1>7, <3>1, <3>2, PutIn
    <2>3. CASE ~Room
      <3>1. worker' = [worker EXCEPT ![q] = [worker[q] EXCEPT !.pc = "blocked"]]
        BY <1>9, <2>3 DEF SendRows, WorkerType
      <3>2. LET v == [worker[q] EXCEPT !.pc = "blocked"] IN
            v.batch = worker[q].batch /\ v.pc = "blocked"
        BY DEF WorkerType
      <3> QED BY <1>4, <3>1, <3>2
    <2> QED BY <2>2, <2>3
  <1>10. ASSUME NEW q \in Runs, SendError(q)
         PROVE  Goal
    BY <1>7, <1>10 DEF SendError
  <1>11. CASE worker' = worker
    BY <1>1, <1>11
  <1>12. CASE \/ Start \/ Unpark \/ LoopTop \/ BuildURL \/ NewSession \/ DialOk
              \/ SessionFails \/ JoinOk \/ StartLoops \/ LoopReturned \/ MonitorTrips
              \/ AfterSession \/ DrainDone \/ Backoff \/ PushNote \/ SaveConfig
              \/ Stop \/ Ended \/ UNCHANGED vars
    BY <1>11, <1>12 DEF Start, Unpark, LoopTop, BuildURL, NewSession, DialOk,
       SessionFails, JoinOk, StartLoops, LoopReturned, MonitorTrips, EndSession,
       AfterSession, DrainDone, Backoff, PushNote, SaveConfig, Stop, Ended, vars,
       dataVars
  <1>13. ASSUME NEW s \in Sessions, \/ WriterSend(s) \/ WriterFail(s) \/ WriterExit(s)
                                   \/ ReadClose(s) \/ HandleClose(s) \/ ReadFail(s)
         PROVE  worker' = worker
    BY <1>13 DEF WriterSend, WriterFail, WriterExit, ReadClose, HandleClose, ReadFail
  <1>14. DrainOne \/ (\E s \in Sessions : WriterTake(s)) => Receive
    BY DEF DrainOne, WriterTake
  <1> QED BY <1>3, <1>5, <1>6, <1>8, <1>9, <1>10, <1>11, <1>12, <1>13, <1>14
          DEF Next, LoopStep, WriterStep, ReaderStep, WorkerStep
\* What is left of the channel when a step takes its head or nothing.
Left(q) == \/ q = outCh
           \/ q = Tail(outCh) /\ outCh # <<>>
Becomes(q) == outCh' = q \/ \E m \in Message : Fresh(m) /\ outCh' = Append(q, m)

LEMMA Leaves ==
    ASSUME SessionInv, ChannelInv, [Next]_vars
    PROVE  \E q \in Seq(Message) : Left(q) /\ Becomes(q)
  <1>1. PICK q \in {outCh, Tail(outCh)} :
           /\ q = outCh \/ outCh # <<>>
           /\ outCh' = q \/ \E m \in Message : Fresh(m) /\ outCh' = Append(q, m)
    BY AllSteps DEF QueueStep
  <1>2. q \in Seq(Message)
    BY <1>1, TailOf
  <1> QED BY <1>1, <1>2 DEF Left, Becomes

\* What a step leaves of the channel is in it afterwards.
LEMMA Remains ==
    ASSUME NEW q \in Seq(Message), Becomes(q), NEW j \in DOMAIN q
    PROVE  \A r, n : r = q[j].run /\ n = q[j].batch => InChannel(r, n)'
  <1>1. CASE outCh' = q
    BY <1>1 DEF InChannel
  <1>2. CASE \E m \in Message : outCh' = Append(q, m)
    BY <1>2, PutIn
  <1> QED BY <1>1, <1>2 DEF Becomes

\* Nothing of r is missing after batch b if nothing was before the step, and
\* the step takes none of the batches after b from the channel.
LEMMA FollowedStays ==
    ASSUME SessionInv, ChannelInv, [Next]_vars, joinRef # 0,
           NEW r \in Runs, NEW b \in Nat, Followed(r, b),
           \A n \in 1..Batches : b < n /\ InChannel(r, n) => InChannel(r, n)'
    PROVE  Followed(r, b)'
  <1> SUFFICES ASSUME NEW n \in 1..Batches, b < n, Passed(r, n)'
               PROVE  InChannel(r, n)'
    BY DEF Followed
  <1>1. CASE Passed(r, n)
    BY <1>1 DEF Followed
  <1>2. CASE ~Passed(r, n)
    BY <1>2, OneByOne
  <1> QED BY <1>1, <1>2

LEMMA ChannelStaysWhole ==
    ASSUME SessionInv, ChannelInv, ChannelWhole, [Next]_vars,
           joinRef = 0 => outCh' = <<>>
    PROVE  ChannelWhole'
  <1> USE SessionTypes
  <1>1. CASE joinRef = 0
    BY <1>1 DEF ChannelWhole
  <1>2. CASE joinRef # 0
    <2> SUFFICES ASSUME NEW i \in DOMAIN outCh', NEW m, m = outCh'[i], m.run \in Runs
                 PROVE  Followed(m.run, m.batch)'
      BY DEF ChannelWhole
    <2>1. PICK q \in Seq(Message) : Left(q) /\ Becomes(q)
      BY Leaves
    <2>2. q \in {outCh, Tail(outCh)} /\ (q = outCh \/ outCh # <<>>)
      BY <2>1 DEF Left
    <2>3. PICK d \in {0, 1} : \A k \in DOMAIN q :
             k \in Nat /\ k + d \in DOMAIN outCh /\ q[k] = outCh[k + d]
      BY <2>2, TailOf
    <2>4. \A j \in DOMAIN outCh :
             \/ \E k \in DOMAIN q : q[k] = outCh[j]
             \/ j = 1
      <3>1. CASE q = outCh
        BY <3>1
      <3>2. CASE q = Tail(outCh) /\ outCh # <<>>
        <4> SUFFICES ASSUME NEW j \in DOMAIN outCh, j # 1
                     PROVE  \E k \in DOMAIN q : q[k] = outCh[j]
          OBVIOUS
        <4>1. j - 1 \in DOMAIN q /\ q[j - 1] = outCh[j]
          BY <3>2
        <4> QED BY <4>1
      <3> QED BY <2>1, <3>1, <3>2 DEF Left
    <2>5. ASSUME NEW k \in DOMAIN q, m = q[k]
          PROVE  Followed(m.run, m.batch)'
      <3>2. k \in Nat /\ k + d \in DOMAIN outCh /\ m = outCh[k + d] /\ m.batch \in Nat
        BY <2>3, <2>5
      <3>3. Followed(m.run, m.batch)
        BY <3>2 DEF ChannelWhole
      <3>4. ASSUME NEW j \in DOMAIN outCh, outCh[j].run = m.run, m.batch < outCh[j].batch
            PROVE  \E z \in DOMAIN q : q[z] = outCh[j]
        <4>1. CASE j = 1 /\ q # outCh
          <5>1. CASE k + d = 1
            <6>1. outCh[j] = m
              BY <3>2, <4>1, <5>1
            <6> QED BY <3>2, <3>4, <6>1
          <5>2. CASE k + d # 1
            <6>1. 1 < k + d
              BY <3>2, <5>2, <2>3
            <6>2. outCh[j].batch < m.batch
              BY <3>2, <3>4, <4>1, <6>1 DEF ChannelInv, QueueOrder
            <6> QED BY <3>2, <3>4, <6>2
          <5> QED BY <5>1, <5>2
        <4> QED BY <2>4, <4>1
      <3>5. PICK b \in Nat : b = m.batch
        BY <3>2
      <3>6. PICK r \in Runs : r = m.run
        OBVIOUS
      <3>7. Followed(r, b)'
        <4>1. Followed(r, b)
          BY <3>3, <3>5, <3>6
        <4>2. ASSUME NEW n \in 1..Batches, b < n, InChannel(r, n)
              PROVE  InChannel(r, n)'
          <5>1. PICK j \in DOMAIN outCh : outCh[j].run = r /\ outCh[j].batch = n
            BY <4>2 DEF InChannel
          <5>2. PICK z \in DOMAIN q : q[z] = outCh[j]
            BY <3>4, <3>5, <3>6, <4>2, <5>1
          <5> QED BY <2>1, <5>1, <5>2, Remains
        <4> QED BY <1>2, <4>1, <4>2, FollowedStays
      <3> QED BY <3>5, <3>6, <3>7
    <2>6. ASSUME m \in Message, Fresh(m)
          PROVE  Followed(m.run, m.batch)'
      <3>0. PICK r \in Runs, b \in Nat : r = m.run /\ b = m.batch
        BY <2>6
      <3>1. worker[r].batch = b
        BY <2>6, <3>0 DEF Fresh
      <3>2. ASSUME NEW n \in 1..Batches, b < n, Passed(r, n)'
            PROVE  FALSE
        <4>1. Passed(r, n) \/ n = b
          BY <3>1, <3>2, OneByOne
        <4> QED BY <3>1, <3>2, <4>1 DEF Passed
      <3>3. Followed(r, b)'
        BY <3>2 DEF Followed
      <3> QED BY <3>0, <3>3
    <2>7. CASE outCh' = q
      BY <2>5, <2>7
    <2>8. ASSUME NEW p \in Message, Fresh(p), outCh' = Append(q, p)
          PROVE  Followed(m.run, m.batch)'
      <3>1. (i \in DOMAIN q /\ outCh'[i] = q[i]) \/ outCh'[i] = p
        BY <2>8
      <3> QED BY <2>5, <2>6, <2>8, <3>1
    <2> QED BY <2>1, <2>7, <2>8 DEF Becomes
  <1> QED BY <1>1, <1>2

\* What a step may do to the goroutine of r.
LEMMA Turns ==
    ASSUME SessionInv, [Next]_vars, NEW r \in Runs
    PROVE  LET w == worker[r] IN
           \/ worker'[r] = w
           \/ \E p \in {"sem", "query", "blocked"} : worker'[r] = [w EXCEPT !.pc = p]
           \/ \E b \in {0, 1} : worker'[r] = [w EXCEPT !.pc = "capture", !.batch = b]
           \/ worker'[r] = NextBatch(w)
           \/ w.pc = "capture" /\ joinRef # 0 /\ worker'[r] = Stamp(w)
  <1> USE SessionTypes
  <1> DEFINE w == worker[r]
             Goal == \/ worker'[r] = w
                     \/ \E p \in {"sem", "query", "blocked"} :
                           worker'[r] = [w EXCEPT !.pc = p]
                     \/ \E b \in {0, 1} :
                           worker'[r] = [w EXCEPT !.pc = "capture", !.batch = b]
                     \/ worker'[r] = NextBatch(w)
                     \/ w.pc = "capture" /\ joinRef # 0 /\ worker'[r] = Stamp(w)
  <1>1. CASE Receive
    <2>1. worker' = worker \/ \E q \in Runs : worker' = [worker EXCEPT ![q] = NextBatch(worker[q])]
      <3>1. sendq # <<>> => Head(sendq).run \in Runs
        OBVIOUS
      <3> QED BY <1>1, <3>1 DEF Receive
    <2> QED BY <2>1
  <1>2. ASSUME NEW q \in Runs,
               \/ PollQuery(q) \/ Acquire(q) \/ (\E s \in Sessions : ReadQuery(s, q))
        PROVE  Goal
    <2>1. PICK p \in {"sem", "query"} :
             worker' = [worker EXCEPT ![q] = [worker[q] EXCEPT !.pc = p]]
      BY <1>2 DEF PollQuery, ReadQuery, Acquire, WorkerType
    <2> QED BY <2>1
  <1>3. ASSUME NEW q \in Runs, QueryReturns(q)
        PROVE  Goal
    <2>1. PICK b \in {0, 1} : worker' = [worker EXCEPT ![q] =
                                    [worker[q] EXCEPT !.pc = "capture", !.batch = b]]
      BY <1>3 DEF QueryReturns, WorkerType
    <2> QED BY <2>1
  <1>4. ASSUME NEW q \in Runs, Capture(q)
        PROVE  Goal
    <2>1. CASE joinRef = 0
      BY <1>4, <2>1 DEF Capture
    <2>2. CASE joinRef # 0
      BY <1>4, <2>2 DEF Capture
    <2> QED BY <2>1, <2>2
  <1>5. ASSUME NEW q \in Runs, SendRows(q) \/ SendError(q)
        PROVE  Goal
    <2>1. PICK v \in {NextBatch(worker[q]), [worker[q] EXCEPT !.pc = "blocked"]} :
             worker' = [worker EXCEPT ![q] = v]
      BY <1>5 DEF SendRows, SendError, WorkerType
    <2> QED BY <2>1
  <1>6. CASE \/ Start \/ Unpark \/ LoopTop \/ BuildURL \/ NewSession \/ DialOk
             \/ SessionFails \/ JoinOk \/ StartLoops \/ LoopReturned \/ MonitorTrips
             \/ AfterSession \/ DrainDone \/ Backoff \/ PushNote \/ SaveConfig
             \/ Stop \/ Ended \/ UNCHANGED vars
    BY <1>6 DEF Start, Unpark, LoopTop, BuildURL, NewSession, DialOk,
       SessionFails, JoinOk, StartLoops, LoopReturned, MonitorTrips, EndSession,
       AfterSession, DrainDone, Backoff, PushNote, SaveConfig, Stop, Ended, vars,
       dataVars
  <1>7. ASSUME NEW s \in Sessions, \/ WriterSend(s) \/ WriterFail(s) \/ WriterExit(s)
                                   \/ ReadClose(s) \/ HandleClose(s) \/ ReadFail(s)
         PROVE  worker' = worker
    BY <1>7 DEF WriterSend, WriterFail, WriterExit, ReadClose, HandleClose, ReadFail
  <1>8. DrainOne \/ (\E s \in Sessions : WriterTake(s)) => Receive
    BY DEF DrainOne, WriterTake
  <1> QED BY <1>1, <1>2, <1>3, <1>4, <1>5, <1>6, <1>7, <1>8
          DEF Next, LoopStep, WriterStep, ReaderStep, WorkerStep

\* "first" is set once, when the first batch is stamped; nobody gets to sending
\* before the first session has joined.
LEMMA FirstTurns ==
    ASSUME SessionInv, [Next]_vars, NEW r \in Runs
    PROVE  /\ \/ worker'[r].first = worker[r].first
              \/ /\ worker[r].pc = "capture" /\ worker[r].batch = 1 /\ joinRef # 0
                 /\ worker'[r].first = joinRef
                 /\ worker'[r].batch = 1 /\ worker'[r].pc = "send"
           /\ worker'[r].pc = "send" => worker[r].pc = "send" \/ joinRef # 0
  <1> USE SessionTypes
  <1> DEFINE w == worker[r]
  <1>1. \A p \in STRING : LET v == [w EXCEPT !.pc = p] IN v.first = w.first /\ v.pc = p
    BY DEF WorkerType
  <1>2. \A b \in {0, 1} : LET v == [w EXCEPT !.pc = "capture", !.batch = b] IN
                          v.first = w.first /\ v.pc = "capture"
    BY DEF WorkerType
  <1>3. NextBatch(w).first = w.first /\ NextBatch(w).pc # "send"
    BY NextBatchType DEF NextBatch, WorkerType
  <1>4. Stamp(w).pc = "send" /\ Stamp(w).batch = w.batch
        /\ Stamp(w).first = IF w.batch = 1 THEN joinRef ELSE w.first
    BY DEF Stamp, WorkerType
  <1>5. CASE worker'[r] = w
    BY <1>5
  <1>6. CASE \E p \in {"sem", "query", "blocked"} : worker'[r] = [w EXCEPT !.pc = p]
    BY <1>1, <1>6
  <1>7. CASE \E b \in {0, 1} : worker'[r] = [w EXCEPT !.pc = "capture", !.batch = b]
    BY <1>2, <1>7
  <1>8. CASE worker'[r] = NextBatch(w)
    BY <1>3, <1>8
  <1>9. CASE w.pc = "capture" /\ joinRef # 0 /\ worker'[r] = Stamp(w)
    BY <1>4, <1>9
  <1> QED BY <1>5, <1>6, <1>7, <1>8, <1>9, Turns

\* The fields of the sessions and what a step may do to them.
Ending == {"running", "ended", "draining", "backoff", "exited", "restarting"}

LEMMA JoinRefStep ==
    ASSUME SessionInv, SessionInv', ChannelInv, JoinRefKnown, [Next]_vars
    PROVE  JoinRefKnown' /\ (joinRef = 0 => outCh' = <<>>)
  <1> USE SessionTypes, DeliveredTypes
  <1>0. /\ ControlType /\ DataType /\ Places /\ LoopsOfJoined
        /\ session \in Nat /\ joinRef \in Nat
    BY TypeHalves, RelayAssumption DEF SessionInv, ControlType, RelayAssumption
  <1>1. ASSUME joinRef = 0
        PROVE  outCh' = <<>>
    <2>1. outCh = <<>> /\ \A r \in Runs : worker[r].pc # "send"
      BY <1>1 DEF JoinRefKnown
    <2>2. ~(StartLoops \/ PushNote) /\ ~Receive
          /\ \A r \in Runs : ~SendRows(r) /\ ~SendError(r)
      BY <1>0, <1>1, <2>1 DEF StartLoops, PushNote, Receive, SendRows, SendError, Places
    <2>3. ~DrainOne /\ \A s \in Sessions : ~WriterTake(s)
      BY <2>2 DEF DrainOne, WriterTake
    <2>4. CASE \E r \in Runs : PollQuery(r) \/ WorkerStep(r)
      BY <2>1, <2>2, <2>4 DEF PollQuery, WorkerStep, Acquire, QueryReturns, Capture,
         chanVars
    <2>5. CASE \E s \in Sessions : WriterStep(s) \/ ReaderStep(s)
      BY <2>1, <2>3, <2>5 DEF WriterStep, ReaderStep, WriterSend, WriterFail,
         WriterExit, ReadQuery, ReadClose, HandleClose, ReadFail, chanVars
    <2>6. CASE LoopStep \/ MonitorTrips \/ PushNote \/ SaveConfig \/ Stop \/ Ended
               \/ UNCHANGED vars
      BY <2>1, <2>2, <2>3, <2>6 DEF LoopStep, Start, Unpark, LoopTop, BuildURL,
         NewSession, DialOk, SessionFails, JoinOk, LoopReturned, MonitorTrips,
         EndSession, AfterSession, DrainDone, Backoff, SaveConfig, Stop, Ended,
         vars, dataVars, chanVars
    <2> QED BY <2>4, <2>5, <2>6 DEF Next
  <1>2. \A r \in Runs : worker[r].batch \in Nat /\ worker'[r].batch \in Nat
           /\ worker[r].first \in Nat
    <2>1. DataType'
      BY TypeHalves, PTL DEF SessionInv
    <2> QED BY <2>1, RelayAssumption DEF RelayAssumption, DataType, WorkerType
  <1>3. ASSUME joinRef' = joinRef \/ (joinRef < joinRef'), NEW r \in Runs
        PROVE  /\ worker'[r].first <= joinRef'
               /\ worker'[r].first # 0 => worker'[r].batch # 0
    <2>1. Progress(r)
      BY AllSteps
    <2>2. joinRef' \in Nat
      <3>1. ControlType'
        BY TypeHalves, PTL DEF SessionInv
      <3> QED BY <3>1, RelayAssumption DEF ControlType, RelayAssumption
    <2>3. worker[r].first <= joinRef /\ (worker[r].first # 0 => worker[r].batch # 0)
      BY DEF JoinRefKnown
    <2>4. worker'[r].first <= joinRef'
      <3>1. worker'[r].first = worker[r].first \/ worker'[r].first = joinRef
        BY FirstTurns
      <3> QED BY <1>0, <1>2, <1>3, <2>2, <2>3, <3>1
    <2>5. worker'[r].first # 0 => worker'[r].batch # 0
      <3>1. worker'[r].first = worker[r].first \/ worker'[r].batch = 1
        BY FirstTurns
      <3>2. worker[r].batch # 0 => worker'[r].batch # 0
        BY <1>2, <2>1 DEF Progress
      <3> QED BY <2>3, <3>1, <3>2
    <2> QED BY <2>4, <2>5
  <1>4. ASSUME joinRef' = joinRef, session <= session', session' \in Nat,
               \/ loop' = "reporting" \/ loop # "reporting"
               \/ writer'[session] # "unborn",
               \A s \in Sessions : writer[s] # "unborn" => writer'[s] # "unborn"
        PROVE  JoinRefKnown'
    <2>1. joinRef' <= session'
      BY <1>0, <1>4 DEF JoinRefKnown
    <2>2. joinRef' # 0 => loop' = "reporting" \/ writer'[joinRef'] # "unborn"
      <3>1. joinRef # 0 => joinRef \in Sessions
        BY <1>0, RelayAssumption DEF ControlType, Sessions, RelayAssumption
      <3>2. loop = "reporting" => joinRef = session
        BY <1>0 DEF Places
      <3> QED BY <1>4, <3>1, <3>2 DEF JoinRefKnown
    <2>3. joinRef' = 0 => outCh' = <<>> /\ \A r \in Runs : worker'[r].pc # "send"
      BY <1>1, <1>4, FirstTurns DEF JoinRefKnown
    <2> QED BY <1>3, <1>4, <2>1, <2>2, <2>3 DEF JoinRefKnown
  <1>5. CASE JoinOk
    <2>1. /\ joinRef' = session /\ session' = session /\ loop' = "reporting"
          /\ session # 0
      BY <1>0, <1>5 DEF JoinOk, ctxVars, Places, InSession
    <2>2. joinRef' = joinRef \/ joinRef < joinRef'
      BY <1>0, <2>1 DEF JoinRefKnown
    <2>3. joinRef' <= session' /\ joinRef' # 0
      BY <1>0, <2>1
    <2> QED BY <1>1, <1>3, <2>1, <2>2, <2>3 DEF JoinRefKnown
  <1>6. CASE NewSession
    <2>1. session <= session' /\ session' \in Nat
      BY <1>0, <1>6 DEF NewSession
    <2>2. joinRef' = joinRef /\ writer' = writer /\ loop # "reporting"
      BY <1>6 DEF NewSession, dataVars, ioVars
    <2> QED BY <1>1, <1>4, <2>1, <2>2
  <1>7. CASE StartLoops
    <2>1. /\ joinRef' = joinRef /\ session' = session /\ session \in Sessions
          /\ writer' = [writer EXCEPT ![session] = "idle"]
      <3>1. session \in Sessions
        BY <1>0, <1>7, RelayAssumption
        DEF StartLoops, Places, InSession, ControlType, Sessions, RelayAssumption
      <3> QED BY <1>7, <3>1 DEF StartLoops, ctxVars
    <2>2. /\ writer'[session] # "unborn"
          /\ \A s \in Sessions : writer[s] # "unborn" => writer'[s] # "unborn"
      BY <1>0, <2>1 DEF DataType
    <2>3. session <= session' /\ session' \in Nat
      BY <1>0, <2>1
    <2> QED BY <1>1, <1>4, <2>1, <2>2, <2>3
  <1>12. ASSUME joinRef' = joinRef, session' = session, writer' = writer,
               loop # "reporting" \/ loop' = loop
        PROVE  JoinRefKnown'
    <2>1. session <= session' /\ session' \in Nat
      BY <1>0, <1>12
    <2> QED BY <1>4, <1>12, <2>1
  <1>8. CASE \/ Start \/ Unpark \/ LoopTop \/ BuildURL \/ DialOk \/ SessionFails
             \/ LoopReturned \/ MonitorTrips \/ AfterSession \/ DrainOne
             \/ DrainDone \/ Backoff \/ PushNote \/ SaveConfig \/ Stop \/ Ended
             \/ UNCHANGED vars
    <2>1. /\ joinRef' = joinRef /\ session' = session /\ writer' = writer
          /\ loop # "reporting" \/ loop' = loop
      BY <1>8 DEF Start, Unpark, LoopTop, BuildURL, DialOk, SessionFails,
         LoopReturned, MonitorTrips, EndSession, AfterSession, DrainOne, DrainDone,
         Backoff, PushNote, SaveConfig, Stop, Ended, vars, loopVars, ctxVars,
         dataVars, ioVars
    <2> QED BY <1>1, <1>12, <2>1
  <1>9. ASSUME NEW s \in Sessions, ReaderStep(s)
        PROVE  JoinRefKnown'
    <2>1. /\ joinRef' = joinRef /\ session' = session /\ writer' = writer
          /\ loop' = loop
      BY <1>9 DEF ReaderStep, ReadQuery, ReadClose, HandleClose, ReadFail,
         loopVars, ctxVars, ioVars
    <2> QED BY <1>1, <1>12, <2>1
  <1>10. ASSUME NEW r \in Runs, PollQuery(r) \/ WorkerStep(r)
         PROVE  JoinRefKnown'
    <2>1. /\ joinRef' = joinRef /\ session' = session /\ writer' = writer
          /\ loop' = loop
      BY <1>10 DEF WorkerStep, PollQuery, Acquire, QueryReturns, Capture,
         SendRows, SendError, loopVars, ctxVars, ioVars
    <2> QED BY <1>1, <1>12, <2>1
  <1>11. ASSUME NEW s \in Sessions, WriterStep(s)
         PROVE  JoinRefKnown'
    <2>1. /\ joinRef' = joinRef /\ session' = session /\ loop' = loop
          /\ \E p \in {"idle", "busy", "exited"} : writer' = [writer EXCEPT ![s] = p]
      BY <1>11 DEF WriterStep, WriterTake, WriterSend, WriterFail, WriterExit,
         loopVars, ctxVars
    <2>2. \A z \in Sessions : writer[z] # "unborn" => writer'[z] # "unborn"
      BY <1>0, <2>1 DEF DataType
    <2>3. session <= session' /\ session' \in Nat
      BY <1>0, <2>1
    <2>4. loop' = "reporting" \/ loop # "reporting"
      BY <2>1
    <2> QED BY <1>4, <2>1, <2>2, <2>3, <2>4
  <1> QED BY <1>1, <1>5, <1>6, <1>7, <1>8, <1>9, <1>10, <1>11 DEF Next, LoopStep

\* A step that leaves the write loops and what they sent alone.
Quiet ==
    /\ UNCHANGED <<writer, inHand, delivered>>
    /\ overlap => overlap'
    /\ session' = session \/ loop' = "dialing"
    /\ loop' = "running" => loop = "running"
    /\ loop' = "reporting" => loop = "reporting" \/ JoinOk
    /\ \/ outCh' = outCh \/ loop' = "draining"
       \/ \E m \in Message : outCh' = Append(outCh, m)

LEMMA Quiets ==
    ASSUME SessionInv, [Next]_vars
    PROVE  Quiet \/ StartLoops \/ \E s \in Sessions : WriterStep(s)
  <1> USE SessionTypes
  <1>0. ControlType
    BY TypeHalves DEF SessionInv
  <1>1. CASE \/ Start \/ Unpark \/ LoopTop \/ BuildURL \/ NewSession \/ DialOk
             \/ SessionFails \/ JoinOk \/ LoopReturned \/ MonitorTrips
             \/ AfterSession \/ DrainDone \/ Backoff \/ SaveConfig \/ Stop \/ Ended
             \/ UNCHANGED vars
    <2>1. UNCHANGED <<writer, inHand, delivered, outCh>>
      BY <1>1 DEF Start, Unpark, LoopTop, BuildURL, NewSession, DialOk,
         SessionFails, JoinOk, LoopReturned, MonitorTrips, EndSession,
         AfterSession, DrainDone, Backoff, SaveConfig, Stop, Ended, vars,
         dataVars, ioVars, chanVars
    <2>3. overlap => overlap'
      <3>1. CASE Backoff
        BY <3>1, Zenon DEF Backoff
      <3>2. CASE ~Backoff
        <4>1. overlap' = overlap
          BY <1>1, <3>2 DEF Start, Unpark, LoopTop, BuildURL, NewSession, DialOk,
             SessionFails, JoinOk, LoopReturned, MonitorTrips, EndSession,
             AfterSession, DrainDone, SaveConfig, Stop, Ended, vars, envVars
        <4> QED BY <4>1
      <3> QED BY <3>1, <3>2
    <2>2. /\ session' = session \/ loop' = "dialing"
          /\ loop' = "running" => loop = "running"
          /\ loop' = "reporting" => loop = "reporting" \/ JoinOk
      BY <1>1 DEF Start, Unpark, LoopTop, BuildURL, NewSession, DialOk,
         SessionFails, LoopReturned, MonitorTrips, EndSession, JoinOk,
         AfterSession, DrainDone, Backoff, SaveConfig, Stop, Ended, vars,
         loopVars, ctxVars
    <2> QED BY <2>1, <2>2, <2>3 DEF Quiet
  <1>2. ASSUME UNCHANGED <<loop, session, overlap, writer, inHand, delivered>>,
               outCh' = outCh \/ \E m \in Message : outCh' = Append(outCh, m)
        PROVE  Quiet
    BY <1>2 DEF Quiet
  <1>3. CASE DrainOne
    BY <1>3 DEF DrainOne, Quiet, loopVars, ctxVars, ioVars, envVars
  <1>4. CASE PushNote
    <2>1. Note(joinRef) \in Message
      BY <1>0, <1>4, RelayAssumption
      DEF PushNote, Note, Message, ControlType, Sessions, RelayAssumption
    <2>2. UNCHANGED <<loop, session, overlap, writer, inHand, delivered>>
      BY <1>4 DEF PushNote, loopVars, ctxVars, ioVars, envVars
    <2>3. outCh' = outCh \/ outCh' = Append(outCh, Note(joinRef))
      BY <1>4 DEF PushNote, TryPush
    <2> QED BY <1>2, <2>1, <2>2, <2>3
  <1>5. ASSUME NEW s \in Sessions, ReaderStep(s)
        PROVE  Quiet
    BY <1>2, <1>5 DEF ReaderStep, ReadQuery, ReadClose, HandleClose, ReadFail,
       loopVars, ctxVars, ioVars, chanVars, envVars
  <1>6. ASSUME NEW r \in Runs, PollQuery(r) \/ WorkerStep(r)
        PROVE  Quiet
    <2>1. UNCHANGED <<loop, session, overlap, writer, inHand, delivered>>
      BY <1>6 DEF WorkerStep, PollQuery, Acquire, QueryReturns, Capture, SendRows,
         SendError, loopVars, ctxVars, ioVars, envVars
    <2>2. \/ outCh' = outCh
          \/ worker[r].pc = "send" /\ outCh' = Append(outCh, Msg(r))
      BY <1>6 DEF WorkerStep, PollQuery, Acquire, QueryReturns, Capture, SendRows,
         SendError, TryPush, chanVars
    <2>3. worker[r].pc = "send" => Msg(r) \in Message
      <3>1. worker[r].pc = "send" => worker[r].join # 0
        BY DEF SessionInv, Stamped
      <3>2. worker[r].pc = "send" => worker[r].join \in Sessions
        BY <3>1, RelayAssumption DEF RelayAssumption, WorkerType, Sessions
      <3>3. worker[r].batch \in 0..Batches
        BY DEF WorkerType
      <3> QED BY <3>2, <3>3 DEF Msg, Message
    <2> QED BY <1>2, <2>1, <2>2, <2>3
  <1> QED BY <1>1, <1>3, <1>4, <1>5, <1>6 DEF Next, LoopStep

LEMMA SoleStep ==
    ASSUME SessionInv, SoleWriter, [Next]_vars
    PROVE  SoleWriter'
  <1>0. DataType /\ LoopsOfJoined
    BY TypeHalves DEF SessionInv
  <1>1. ASSUME UNCHANGED <<overlap, session>>, loop \in Ending => loop' \in Ending,
               \A s \in Sessions : writer'[s] \in {"idle", "busy"} =>
                                      writer[s] \in {"idle", "busy"}
        PROVE  SoleWriter'
    BY <1>1 DEF SoleWriter, Ending
  <1>2. CASE \/ Start \/ Unpark \/ LoopTop \/ BuildURL \/ DialOk \/ SessionFails
             \/ JoinOk \/ LoopReturned \/ MonitorTrips \/ AfterSession \/ DrainOne
             \/ DrainDone \/ PushNote \/ SaveConfig \/ Stop \/ Ended
             \/ UNCHANGED vars
    <2>1. /\ UNCHANGED <<overlap, session, writer>>
          /\ loop \in Ending => loop' \in Ending
      BY <1>2 DEF Start, Unpark, LoopTop, BuildURL, DialOk, SessionFails, JoinOk,
         LoopReturned, MonitorTrips, EndSession, AfterSession, DrainOne, DrainDone,
         PushNote, SaveConfig, Stop, Ended, vars, loopVars, ctxVars, dataVars,
         ioVars, envVars, Ending
    <2> QED BY <1>1, <2>1
  <1>3. CASE Backoff
    <2>1. /\ UNCHANGED writer
          /\ ~overlap' => \A s \in Sessions : writer[s] \notin {"idle", "busy"}
      BY <1>3 DEF Backoff, dataVars, ioVars
    <2> QED BY <2>1 DEF SoleWriter
  <1>4. CASE NewSession
    <2>1. loop = "ready" /\ UNCHANGED <<overlap, writer>>
      BY <1>4 DEF NewSession, dataVars, ioVars, envVars
    <2> QED BY <2>1 DEF SoleWriter
  <1>5. CASE StartLoops
    <2>1. /\ loop = "reporting" /\ loop' = "running" /\ UNCHANGED <<overlap, session>>
          /\ writer' = [writer EXCEPT ![session] = "idle"]
      BY <1>5 DEF StartLoops, ctxVars, envVars
    <2>2. \A s \in Sessions : s # session => writer'[s] = writer[s]
      BY <1>0, <2>1 DEF DataType
    <2> QED BY <2>1, <2>2 DEF SoleWriter
  <1>6. ASSUME NEW s \in Sessions, WriterStep(s)
        PROVE  SoleWriter'
    <2>1. /\ UNCHANGED <<overlap, session, loop>>
          /\ writer[s] \in {"idle", "busy"}
          /\ \E p \in {"idle", "busy", "exited"} : writer' = [writer EXCEPT ![s] = p]
      BY <1>6 DEF WriterStep, WriterTake, WriterSend, WriterFail, WriterExit,
         loopVars, ctxVars, envVars
    <2>2. \A z \in Sessions : z # s => writer'[z] = writer[z]
      BY <1>0, <2>1 DEF DataType
    <2> QED BY <1>1, <2>1, <2>2
  <1>7. ASSUME NEW s \in Sessions, ReaderStep(s)
        PROVE  SoleWriter'
    <2>1. UNCHANGED <<overlap, session, loop, writer>>
      BY <1>7 DEF ReaderStep, ReadQuery, ReadClose, HandleClose, ReadFail,
         loopVars, ctxVars, ioVars, envVars
    <2> QED BY <1>1, <2>1
  <1>8. ASSUME NEW r \in Runs, PollQuery(r) \/ WorkerStep(r)
        PROVE  SoleWriter'
    <2>1. UNCHANGED <<overlap, session, loop, writer>>
      BY <1>8 DEF WorkerStep, PollQuery, Acquire, QueryReturns, Capture, SendRows,
         SendError, loopVars, ctxVars, ioVars, envVars
    <2> QED BY <1>1, <2>1
  <1> QED BY <1>2, <1>3, <1>4, <1>5, <1>6, <1>7, <1>8 DEF Next, LoopStep

\* When the first batch is stamped, nothing of the run has gone anywhere.
LEMMA NothingYet ==
    ASSUME SessionInv, OrderInv, NEW r \in Runs,
           worker[r].pc = "capture", worker[r].batch = 1
    PROVE  delivered[r] = <<>> /\ \A b \in Nat : ~Passed(r, b)
  <1>1. \A b \in Nat : ~Passed(r, b)
    BY DEF Passed
  <1>2. delivered[r] \in Seq([conn : Sessions, batch : 0..Batches])
        /\ \A k \in DOMAIN delivered[r] : delivered[r][k].batch \in Nat
    BY DeliveredTypes
  <1>3. \A k \in DOMAIN delivered[r] : FALSE
    BY <1>1, <1>2 DEF OrderInv, DeliveredAhead, Ahead
  <1> QED BY <1>1, <1>2, <1>3

LEMMA FramesStep ==
    ASSUME SessionInv, OrderInv, JoinRefKnown, FramesKnown, [Next]_vars
    PROVE  FramesKnown'
  <1> USE SessionTypes, DeliveredTypes
  <1>0. /\ DataType /\ Places /\ ControlType
    BY TypeHalves DEF SessionInv
  <1>1. \A s \in Sessions : writer[s] # "unborn" => writer'[s] # "unborn"
    <2>1. CASE Quiet
      BY <2>1 DEF Quiet
    <2>2. CASE StartLoops
      BY <1>0, <2>2 DEF StartLoops, DataType
    <2>3. CASE \E s \in Sessions : WriterStep(s)
      BY <1>0, <2>3 DEF WriterStep, WriterTake, WriterSend, WriterFail, WriterExit,
         DataType
    <2> QED BY <2>1, <2>2, <2>3, Quiets
  <1>2. \A r \in Runs : worker'[r].first = worker[r].first \/ delivered[r] = <<>>
    BY FirstTurns, NothingYet
  <1>3. \A r \in Runs : \A k \in DOMAIN delivered[r] :
           /\ delivered[r][k].conn \in Sessions
           /\ writer[delivered[r][k].conn] # "unborn"
           /\ worker[r].first <= delivered[r][k].conn
    <2> SUFFICES ASSUME NEW r \in Runs, NEW k \in DOMAIN delivered[r]
                 PROVE  delivered[r][k].conn \in Sessions
      BY DEF FramesKnown
    <2> DEFINE F == [conn : Sessions, batch : 0..Batches]
    <2>1. delivered[r] \in Seq(F)
      OBVIOUS
    <2>2. delivered[r][k] \in F
      <3> HIDE DEF F
      <3> QED BY <2>1
    <2> QED BY <2>2
  <1>4. ASSUME NEW r \in Runs, NEW k \in DOMAIN delivered[r]
        PROVE  /\ writer'[delivered[r][k].conn] # "unborn"
               /\ worker'[r].first <= delivered[r][k].conn
    <2>1. delivered[r] # <<>>
      BY <1>4
    <2> QED BY <1>1, <1>2, <1>3, <2>1
  <1>5. CASE delivered' = delivered
    BY <1>4, <1>5 DEF FramesKnown
  <1>6. ASSUME NEW s \in Sessions, WriterSend(s)
        PROVE  FramesKnown'
    <2>1. /\ ConnOpen(s) /\ UNCHANGED worker
          /\ writer' = [writer EXCEPT ![s] = "idle"]
      BY <1>6 DEF WriterSend
    <2>2. PICK m \in Message \cup {NoMsg} : m = inHand[s]
      BY <1>0 DEF DataType
    <2>3. CASE m.run = NoRun
      BY <1>5, <1>6, <2>2, <2>3 DEF WriterSend
    <2>4. CASE m.run # NoRun
      <3> DEFINE e == [conn |-> s, batch |-> m.batch]
      <3>1. m.run \in Runs
        BY <2>2, <2>4 DEF Message, NoMsg
      <3>2. delivered' = [delivered EXCEPT ![m.run] = Append(delivered[m.run], e)]
        BY <1>6, <2>2, <2>4 DEF WriterSend
      <3>3. e.conn = s /\ writer'[s] # "unborn"
        BY <1>0, <2>1 DEF DataType
      <3>4. worker'[m.run].first <= s
        BY <1>0, <2>1, <3>1 DEF ConnOpen, Places, JoinRefKnown
      <3> HIDE DEF e
      <3> SUFFICES ASSUME NEW r \in Runs, NEW k \in DOMAIN delivered'[r]
                   PROVE  \E c \in {delivered'[r][k].conn} :
                             writer'[c] # "unborn" /\ worker'[r].first <= c
        BY DEF FramesKnown
      <3>5. \/ k \in DOMAIN delivered[r] /\ delivered'[r][k] = delivered[r][k]
            \/ r = m.run /\ delivered'[r][k] = e
        BY <3>1, <3>2
      <3> QED BY <1>4, <3>3, <3>4, <3>5
    <2> QED BY <2>3, <2>4
  <1>7. delivered' = delivered \/ \E s \in Sessions : WriterSend(s)
    BY Quiets DEF Quiet, StartLoops, WriterStep, WriterTake, WriterFail, WriterExit
  <1> QED BY <1>5, <1>6, <1>7

\* A write loop that takes the head of a channel that misses nothing after
\* batch b takes the next batch.
LEMMA HeadIsNext ==
    ASSUME SessionInv, ChannelInv, NEW m \in Message, NEW r \in Runs,
           1 \in DOMAIN outCh, outCh[1] = m, m.run = r,
           NEW b \in Nat, b < m.batch, Followed(r, b)
    PROVE  m.batch = b + 1
  <1> USE SessionTypes
  <1>1. Passed(r, m.batch)
    BY DEF ChannelInv, QueuePassed
  <1>2. m.batch \in 0..Batches /\ worker[r].batch \in Nat
    BY DEF Message
  <1>3. ASSUME b + 1 # m.batch
        PROVE  FALSE
    <2>1. b + 1 < m.batch /\ b + 1 \in 1..Batches
      BY <1>2, <1>3, RelayAssumption DEF RelayAssumption
    <2>2. Passed(r, b + 1)
      BY <1>1, <1>2, <2>1 DEF Passed
    <2>3. PICK i \in DOMAIN outCh : outCh[i].run = r /\ outCh[i].batch = b + 1
      BY <2>1, <2>2 DEF Followed, InChannel
    <2>4. i # 1 /\ 1 < i
      BY <1>3, <2>3
    <2>5. m.batch < b + 1
      BY <2>3, <2>4 DEF ChannelInv, QueueOrder
    <2> QED BY <1>2, <2>1, <2>5
  <1> QED BY <1>3

\* Whatever "first" becomes, what is asked for a run that began on s holds
\* for one that begins now: nothing of it has gone anywhere.
LEMMA FirstWhole ==
    ASSUME SessionInv, OrderInv, [Next]_vars, NEW r \in Runs,
           worker'[r].first # worker[r].first
    PROVE  /\ delivered[r] = <<>>
           /\ \A b \in Nat : ~Passed(r, b) /\ Followed(r, b)'
  <1>1. /\ worker[r].pc = "capture" /\ worker[r].batch = 1
        /\ worker'[r].batch = 1 /\ worker'[r].pc = "send"
    BY FirstTurns
  <1>2. delivered[r] = <<>> /\ \A b \in Nat : ~Passed(r, b)
    BY <1>1, NothingYet
  <1>3. \A n \in 1..Batches : ~Passed(r, n)'
    BY <1>1, RelayAssumption DEF Passed, RelayAssumption
  <1> QED BY <1>2, <1>3 DEF Followed

\* Steps that deliver nothing keep what was delivered without a hole.
LEMMA SameFrames ==
    ASSUME SessionInv, OrderInv, GaplessOnASession, WholeFromFirstSession,
           [Next]_vars, delivered' = delivered, overlap => overlap'
    PROVE  GaplessOnASession' /\ WholeFromFirstSession'
  <1>1. GaplessOnASession'
    BY DEF GaplessOnASession
  <1>2. \A r \in Runs : worker'[r].first = worker[r].first \/ delivered[r] = <<>>
    BY FirstWhole
  <1>3. WholeFromFirstSession'
    <2> SUFFICES ASSUME ~overlap', NEW r \in Runs, NEW i \in DOMAIN delivered[r],
                        delivered[r][i].conn = worker'[r].first
                 PROVE  delivered[r][i].batch = i
      BY DEF WholeFromFirstSession
    <2>1. delivered[r] # <<>>
      OBVIOUS
    <2> QED BY <1>2, <2>1 DEF WholeFromFirstSession
  <1> QED BY <1>1, <1>3

\* The types of what the invariant compares.
LEMMA WholeTypes ==
    ASSUME SessionInv
    PROVE  /\ \A r \in Runs : Len(delivered[r]) \in Nat
           /\ \A r \in Runs : delivered[r] # <<>> =>
                 /\ Len(delivered[r]) \in DOMAIN delivered[r]
                 /\ LastBatch(r) \in Nat
           /\ \A s \in Sessions : inHand[s].batch \in Nat
  <1>1. \A r \in Runs : delivered[r] # <<>> => Len(delivered[r]) \in DOMAIN delivered[r]
    BY DeliveredTypes
  <1>2. \A s \in Sessions : inHand[s] \in Message \cup {NoMsg}
    BY TypeHalves DEF SessionInv, DataType
  <1>3. \A s \in Sessions : inHand[s].batch \in Nat
    BY <1>2, SessionTypes DEF NoMsg
  <1> QED BY <1>1, <1>3, DeliveredTypes DEF LastBatch

LEMMA QuietWhole ==
    ASSUME SessionInv, OrderInv, JoinRefKnown, HandWhole, RestWhole, [Next]_vars, Quiet
    PROVE  HandWhole' /\ RestWhole'
  <1> USE SessionTypes, WholeTypes
  <1>0. /\ ControlType /\ Places /\ LoopsOfJoined /\ ChannelInv
        /\ joinRef \in Nat /\ session \in Nat
        /\ \A r \in Runs : worker[r].first \in Nat
    BY TypeHalves, RelayAssumption
    DEF SessionInv, OrderInv, ControlType, RelayAssumption, WorkerType
  <1>1. UNCHANGED <<writer, inHand, delivered>>
    BY DEF Quiet
  <1>2. ASSUME NEW s \in Sessions, Serving(s)'
        PROVE  Serving(s) /\ joinRef # 0
    BY <1>0, <1>1, <1>2 DEF Quiet, Serving, ConnOpen, Places
  <1>3. ASSUME NEW s \in Sessions, Opening(s)', NEW r \in Runs
        PROVE  (Opening(s) /\ joinRef # 0) \/ worker'[r].first # s
    <2>1. CASE loop = "reporting"
      BY <1>0, <1>3, <2>1 DEF Quiet, Opening, Places
    <2>2. CASE JoinOk
      <3>1. /\ loop = "joining" /\ session = s /\ worker' = worker
        BY <1>3, <2>2 DEF JoinOk, Opening, ctxVars
      <3>2. writer[s] = "unborn"
        BY <1>0, <3>1 DEF LoopsOfJoined
      <3>3. joinRef # s /\ joinRef <= s /\ worker[r].first <= joinRef
        BY <3>1, <3>2, RelayAssumption DEF JoinRefKnown, Sessions, RelayAssumption
      <3> QED BY <1>0, <3>1, <3>3
    <2> QED BY <1>3, <2>1, <2>2 DEF Quiet, Opening
  <1>4. ASSUME NEW s \in Sessions, Serving(s)' \/ Opening(s)', joinRef # 0,
               NEW r \in Runs, NEW b \in Nat, Followed(r, b)
        PROVE  Followed(r, b)'
    <2>1. outCh' = outCh \/ \E m \in Message : outCh' = Append(outCh, m)
      BY <1>4 DEF Quiet, Serving, Opening, ConnOpen
    <2>2. \A n : InChannel(r, n) => InChannel(r, n)'
      <3>1. CASE outCh' = outCh
        BY <3>1 DEF InChannel
      <3>2. CASE \E m \in Message : outCh' = Append(outCh, m)
        <4>1. PICK m \in Message : outCh' = Append(outCh, m)
          BY <3>2
        <4>2. \A c, n : (\E i \in DOMAIN outCh : outCh[i].run = c /\ outCh[i].batch = n)
                 => InChannel(c, n)'
          BY <4>1, PutIn
        <4> QED BY <4>2 DEF InChannel
      <3> QED BY <2>1, <3>1, <3>2
    <2> QED BY <1>0, <1>4, <2>2, FollowedStays
  <1>5. \A s, r : Holds(s, r)' <=> Holds(s, r)
    BY <1>1 DEF Holds
  <1>6. \A s, r : LastOn(s, r)' <=> LastOn(s, r)
    BY <1>1 DEF LastOn
  <1>7. \A r : LastBatch(r)' = LastBatch(r)
    BY <1>1 DEF LastBatch
  <1>8. HandWhole'
    <2> SUFFICES ASSUME NEW s \in Sessions, NEW r \in Runs, Serving(s)', Holds(s, r),
                        NEW b \in Nat, b = inHand[s].batch
                 PROVE  /\ Followed(r, b)'
                        /\ LastOn(s, r) => b = LastBatch(r) + 1
                        /\ worker'[r].first = s => b = Len(delivered[r]) + 1
      BY <1>1, <1>5, <1>6, <1>7 DEF HandWhole, Followed, Passed, InChannel
    <2>1. Serving(s) /\ joinRef # 0
      BY <1>2
    <2>2. /\ Followed(r, b)
          /\ LastOn(s, r) => b = LastBatch(r) + 1
          /\ worker[r].first = s => b = Len(delivered[r]) + 1
      BY <2>1 DEF HandWhole
    <2>3. Followed(r, b)'
      BY <1>4, <2>1, <2>2
    <2>4. Passed(r, b)
      BY <2>1 DEF OrderInv, HandAhead, Ahead, Serving, Holds
    <2>5. worker'[r].first = worker[r].first
      BY <2>4, FirstWhole
    <2> QED BY <2>2, <2>3, <2>5
  <1>9. RestWhole'
    <2>1. ASSUME NEW s \in Sessions, NEW r \in Runs, Serving(s)', ~Holds(s, r),
                 LastOn(s, r), NEW b \in Nat, b = LastBatch(r)
          PROVE  Followed(r, b)'
      BY <1>2, <1>4, <2>1 DEF RestWhole
    <2>2. ASSUME NEW s \in Sessions, NEW r \in Runs,
                 (Serving(s)' /\ ~Holds(s, r)) \/ Opening(s)', worker'[r].first = s,
                 NEW b \in Nat, b = Len(delivered[r])
          PROVE  Followed(r, b)'
      <3>1. CASE worker'[r].first = worker[r].first
        <4>1. /\ (Serving(s) /\ ~Holds(s, r)) \/ Opening(s)
              /\ joinRef # 0
          BY <1>2, <1>3, <2>2
        <4>2. Followed(r, b)
          BY <2>2, <3>1, <4>1 DEF RestWhole
        <4> QED BY <1>4, <2>2, <4>1, <4>2
      <3>2. CASE worker'[r].first # worker[r].first
        BY <3>2, FirstWhole
      <3> QED BY <3>1, <3>2
    <2>3. ASSUME NEW s \in Sessions, NEW r \in Runs
          PROVE  /\ Serving(s)' /\ ~Holds(s, r)' /\ LastOn(s, r)' =>
                       \E b \in Nat : b = LastBatch(r)' /\ Followed(r, b)'
                 /\ (Serving(s)' /\ ~Holds(s, r)') \/ Opening(s)' =>
                       (worker'[r].first = s =>
                          \E b \in Nat : b = Len(delivered'[r]) /\ Followed(r, b)')
      <3>1. LastOn(s, r) => LastBatch(r) \in Nat
        BY DEF LastOn
      <3> QED BY <1>1, <1>5, <1>6, <1>7, <2>1, <2>2, <3>1
    <2> QED BY <2>3 DEF RestWhole, Followed, Passed, InChannel
  <1> QED BY <1>8, <1>9

LEMMA StartWhole ==
    ASSUME SessionInv, OrderInv, JoinRefKnown, FramesKnown, RestWhole, [Next]_vars,
           StartLoops
    PROVE  HandWhole' /\ RestWhole'
  <1> USE SessionTypes, WholeTypes
  <1>0. /\ ControlType /\ DataType /\ Places /\ LoopsOfJoined /\ ChannelInv
    BY TypeHalves DEF SessionInv, OrderInv
  <1>1. /\ loop = "reporting" /\ loop' = "running" /\ joinRef # 0
        /\ UNCHANGED <<session, overlap, worker, delivered>>
        /\ writer[session] = "unborn"
        /\ writer' = [writer EXCEPT ![session] = "idle"]
        /\ TryPush(Note(joinRef))
    BY <1>0 DEF StartLoops, Places, LoopsOfJoined, ctxVars, envVars
  <1>2. ASSUME NEW s \in Sessions, Serving(s)'
        PROVE  /\ Opening(s) /\ writer'[s] = "idle"
               /\ \A r \in Runs : ~LastOn(s, r)'
    <2>1. Opening(s) /\ s = session
      BY <1>1, <1>2 DEF Serving, Opening, ConnOpen
    <2>2. writer'[s] = "idle" /\ writer[s] = "unborn"
      BY <1>0, <1>1, <2>1 DEF DataType
    <2>3. \A r \in Runs : ~LastOn(s, r)
      BY <2>2 DEF LastOn, FramesKnown
    <2> QED BY <1>1, <2>1, <2>2, <2>3 DEF LastOn
  <1>3. ASSUME NEW s \in Sessions, NEW r \in Runs, Serving(s)', worker[r].first = s,
               NEW b \in Nat, b = Len(delivered[r])
        PROVE  Followed(r, b)'
    <2>1. Followed(r, b)
      BY <1>2, <1>3 DEF RestWhole
    <2>2. \A n : InChannel(r, n) => InChannel(r, n)'
      <3>1. CASE outCh' = outCh
        BY <3>1 DEF InChannel
      <3>2. CASE outCh' = Append(outCh, Note(joinRef))
        <4>1. Note(joinRef) \in Message
          BY <1>0, <1>1, RelayAssumption
          DEF Note, Message, ControlType, Sessions, RelayAssumption
        <4>2. \A n : (\E i \in DOMAIN outCh : outCh[i].run = r /\ outCh[i].batch = n)
                 => InChannel(r, n)'
          BY <3>2, <4>1, PutIn
        <4> QED BY <4>2 DEF InChannel
      <3> QED BY <1>1, <3>1, <3>2 DEF TryPush
    <2> QED BY <1>0, <1>1, <2>1, <2>2, FollowedStays
  <1>4. HandWhole'
    BY <1>2 DEF HandWhole, Holds
  <1>5. ASSUME NEW s \in Sessions, NEW r \in Runs
        PROVE  /\ ~(Serving(s)' /\ LastOn(s, r)')
               /\ ~Opening(s)'
               /\ Serving(s)' /\ worker'[r].first = s =>
                     \E b \in Nat : b = Len(delivered'[r]) /\ Followed(r, b)'
    BY <1>1, <1>2, <1>3 DEF Opening
  <1>6. RestWhole'
    BY <1>5 DEF RestWhole, Followed, Passed, InChannel
  <1> QED BY <1>4, <1>6

\* A write loop that ends keeps nothing; the others' state is as it was.
LEMMA EndWhole ==
    ASSUME SessionInv, HandWhole, RestWhole, NEW s \in Sessions,
           WriterFail(s) \/ WriterExit(s)
    PROVE  HandWhole' /\ RestWhole'
  <1>0. DataType
    BY TypeHalves DEF SessionInv
  <1>1. /\ UNCHANGED <<loop, session, overlap, outCh, worker, delivered>>
        /\ writer'[s] = "exited"
        /\ \A z \in Sessions : z # s => writer'[z] = writer[z] /\ inHand'[z] = inHand[z]
    BY <1>0 DEF WriterFail, WriterExit, loopVars, ctxVars, chanVars, envVars, DataType
  <1>2. \A z \in Sessions : /\ Serving(z)' => Serving(z) /\ z # s
                            /\ Opening(z)' <=> Opening(z)
    BY <1>1 DEF Serving, Opening, ConnOpen
  <1>3. \A z \in Sessions, r \in Runs : z # s => (Holds(z, r)' <=> Holds(z, r))
    BY <1>1 DEF Holds
  <1>4. HandWhole'
    <2> SUFFICES ASSUME NEW z \in Sessions, NEW r \in Runs,
                        Serving(z)' /\ Holds(z, r)', NEW b, b = inHand'[z].batch
                 PROVE  /\ Followed(r, b)'
                        /\ LastOn(z, r)' => b = LastBatch(r)' + 1
                        /\ worker'[r].first = z => b = Len(delivered'[r]) + 1
      BY DEF HandWhole
    <2>1. Serving(z) /\ Holds(z, r) /\ inHand'[z] = inHand[z]
      BY <1>1, <1>2, <1>3
    <2> QED BY <1>1, <2>1 DEF HandWhole, Followed, Passed, InChannel, LastOn, LastBatch
  <1>5. RestWhole'
    BY <1>1, <1>2, <1>3 DEF RestWhole, Followed, Passed, InChannel, LastOn, LastBatch
  <1> QED BY <1>4, <1>5

\* The write loop of the running session takes the head of the channel.
LEMMA TakeWhole ==
    ASSUME SessionInv, OrderInv, WholeInv, [Next]_vars, NEW s \in Sessions,
           WriterTake(s)
    PROVE  HandWhole' /\ RestWhole'
  <1> USE SessionTypes, WholeTypes
  <1>0. /\ ControlType /\ DataType /\ Places /\ ChannelInv /\ OrderInv /\ ChannelWhole
        /\ joinRef \in Nat /\ session \in Nat
        /\ \A r \in Runs : worker[r].first \in Nat
    BY TypeHalves, RelayAssumption
    DEF SessionInv, OrderInv, WholeInv, ControlType, RelayAssumption, WorkerType
  <1>1. /\ Receive /\ writer[s] = "idle"
        /\ UNCHANGED <<loop, session, overlap, joinRef, delivered>>
        /\ writer' = [writer EXCEPT ![s] = "busy"]
        /\ inHand' = [inHand EXCEPT ![s] = Head(outCh)]
    BY DEF WriterTake, loopVars, ctxVars, envVars
  <1>2. ASSUME NEW z \in Sessions, Serving(z)' \/ Opening(z)'
        PROVE  z = s /\ Serving(s) /\ joinRef # 0 /\ session = s /\ ~Opening(z)'
    <2>1. ~overlap /\ s = session /\ loop # "reporting"
      BY <1>0, <1>1, <1>2 DEF Serving, Opening, SoleWriter, WholeInv
    <2>2. z = s /\ Serving(s)
      BY <1>1, <1>2, <2>1 DEF Serving, Opening, ConnOpen
    <2> QED BY <1>0, <1>1, <2>1, <2>2 DEF Serving, ConnOpen, Places, Opening
  <1>3. PICK m \in Message : m = outCh[1] /\ 1 \in DOMAIN outCh /\ inHand'[s] = m
    BY <1>0, <1>1 DEF Receive, DataType
  <1>4. writer'[s] = "busy"
    BY <1>0, <1>1 DEF DataType
  <1>5. \A r : Holds(s, r)' <=> r = m.run
    BY <1>3, <1>4 DEF Holds
  <1>6. \A z, r : (LastOn(z, r)' <=> LastOn(z, r)) /\ LastBatch(r)' = LastBatch(r)
    BY <1>1 DEF LastOn, LastBatch
  <1>7. ASSUME joinRef # 0, NEW r \in Runs, NEW b \in Nat, Followed(r, b),
               r = m.run => m.batch <= b
        PROVE  Followed(r, b)'
    <2>1. PICK q \in Seq(Message) : q = Tail(outCh) /\ Becomes(q)
      <3>1. /\ outCh # <<>>
            /\ \/ outCh' = Tail(outCh)
               \/ \E n \in Message : Fresh(n) /\ outCh' = Append(Tail(outCh), n)
        BY <1>0, <1>1, ReceiveSteps
      <3>2. Tail(outCh) \in Seq(Message)
        BY <3>1
      <3> QED BY <3>1, <3>2 DEF Becomes
    <2>2. ASSUME NEW n \in 1..Batches, b < n, InChannel(r, n)
          PROVE  InChannel(r, n)'
      <3>1. PICK i \in DOMAIN outCh : outCh[i].run = r /\ outCh[i].batch = n
        BY <2>2 DEF InChannel
      <3>2. i # 1
        BY <1>3, <1>7, <2>2, <3>1
      <3>3. i - 1 \in DOMAIN q /\ q[i - 1] = outCh[i]
        BY <1>1, <2>1, <3>2 DEF Receive
      <3> QED BY <2>1, <3>1, <3>3, Remains
    <2> QED BY <1>0, <1>7, <2>2, FollowedStays
  <1>8. ASSUME Serving(s)', m.run \in Runs
        PROVE  LET r == m.run
                   b == m.batch
               IN  /\ Followed(r, b)'
                   /\ LastOn(s, r) => b = LastBatch(r) + 1
                   /\ worker'[r].first = s => b = Len(delivered[r]) + 1
    <2> DEFINE r == m.run
               b == m.batch
    <2>0. r \in Runs /\ b \in Nat /\ joinRef # 0 /\ Serving(s) /\ ~Holds(s, r)
      BY <1>1, <1>2, <1>8 DEF Holds
    <2>1. Followed(m.run, m.batch)'
      <3>1. PICK c \in Runs, n \in Nat : c = m.run /\ n = m.batch
        BY <1>8
      <3>2. Followed(c, n)
        BY <1>0, <1>3, <3>1 DEF ChannelWhole
      <3>3. Followed(c, n)'
        BY <1>7, <2>0, <3>1, <3>2
      <3> QED BY <3>1, <3>3
    <2>2. Passed(r, b)
      BY <1>0, <1>3, <1>8 DEF ChannelInv, QueuePassed
    <2>3. \A k \in DOMAIN delivered[r] : delivered[r][k].batch < b
      BY <1>0, <1>3, <1>8 DEF OrderInv, DeliveredAhead, Ahead
    <2>4. ASSUME LastOn(s, r)
          PROVE  b = LastBatch(r) + 1
      <3>1. Followed(r, LastBatch(r)) /\ LastBatch(r) \in Nat
        BY <2>0, <2>4 DEF WholeInv, RestWhole, LastOn
      <3>2. LastBatch(r) < b
        BY <2>0, <2>3, <2>4 DEF LastOn, LastBatch
      <3> HIDE DEF r, b
      <3> QED BY <1>0, <1>3, <2>0, <3>1, <3>2, HeadIsNext DEF r, b
    <2>5. ASSUME worker'[r].first = s
          PROVE  b = Len(delivered[r]) + 1
      <3>1. worker[r].first = s
        BY <1>0, <2>0, <2>2, <2>5, FirstWhole
      <3>2. Followed(r, Len(delivered[r])) /\ Len(delivered[r]) \in Nat
        BY <2>0, <3>1 DEF WholeInv, RestWhole
      <3>3. b # 0
        <4>1. worker[r].first # 0
          BY <3>1, RelayAssumption DEF Sessions, RelayAssumption
        <4>2. worker[r].batch # 0
          BY <2>0, <4>1 DEF WholeInv, JoinRefKnown
        <4> QED BY <2>2, <4>2 DEF Passed
      <3>4. ASSUME delivered[r] # <<>>
            PROVE  Len(delivered[r]) < b
        <4>1. PICK k \in DOMAIN delivered[r] : k = Len(delivered[r])
          BY <2>0, <3>4
        <4>2. delivered[r][k].conn <= s
          BY <1>2, <1>8, <2>0, <1>0 DEF OrderInv, DeliveredAhead
        <4>3. s <= delivered[r][k].conn
          BY <2>0, <3>1 DEF WholeInv, FramesKnown
        <4>4. delivered[r][k].conn = s
          BY <2>0, <4>2, <4>3, DeliveredTypes DEF Sessions
        <4>5. delivered[r][k].batch = k
          BY <2>0, <3>1, <4>4 DEF WholeInv, WholeFromFirstSession, Serving
        <4> QED BY <2>3, <4>1, <4>5
      <3>5. Len(delivered[r]) < b
        <4>1. delivered[r] = <<>> => Len(delivered[r]) = 0
          OBVIOUS
        <4> QED BY <2>0, <3>3, <3>4, <4>1
      <3> HIDE DEF r, b
      <3> QED BY <1>0, <1>3, <2>0, <3>2, <3>5, HeadIsNext DEF r, b
    <2> QED BY <2>1, <2>4, <2>5
  <1>9. HandWhole'
    <2> SUFFICES ASSUME NEW z \in Sessions, NEW r \in Runs,
                        Serving(z)' /\ Holds(z, r)', NEW b, b = inHand'[z].batch
                 PROVE  /\ Followed(r, b)'
                        /\ LastOn(z, r)' => b = LastBatch(r)' + 1
                        /\ worker'[r].first = z => b = Len(delivered'[r]) + 1
      BY DEF HandWhole
    <2>1. z = s /\ r = m.run
      BY <1>2, <1>5
    <2> QED BY <1>1, <1>3, <1>6, <1>8, <2>1 DEF Followed, Passed, InChannel
  <1>10. RestWhole'
    <2>1. ASSUME NEW r \in Runs, Serving(s)', r # m.run, LastOn(s, r),
                 NEW b \in Nat, b = LastBatch(r)
          PROVE  Followed(r, b)'
      <3>1. Serving(s) /\ ~Holds(s, r) /\ joinRef # 0
        BY <1>1, <1>2, <2>1 DEF Holds
      <3> QED BY <1>7, <2>1, <3>1 DEF WholeInv, RestWhole
    <2>2. ASSUME NEW r \in Runs, Serving(s)', r # m.run, worker'[r].first = s,
                 NEW b \in Nat, b = Len(delivered[r])
          PROVE  Followed(r, b)'
      <3>1. Serving(s) /\ ~Holds(s, r) /\ joinRef # 0
        BY <1>1, <1>2, <2>2 DEF Holds
      <3>2. CASE worker'[r].first = worker[r].first
        BY <1>7, <2>2, <3>1, <3>2 DEF WholeInv, RestWhole
      <3>3. CASE worker'[r].first # worker[r].first
        BY <1>0, <3>3, FirstWhole
      <3> QED BY <3>2, <3>3
    <2>3. ASSUME NEW z \in Sessions, NEW r \in Runs
          PROVE  /\ Serving(z)' /\ ~Holds(z, r)' /\ LastOn(z, r)' =>
                       \E b \in Nat : b = LastBatch(r)' /\ Followed(r, b)'
                 /\ (Serving(z)' /\ ~Holds(z, r)') \/ Opening(z)' =>
                       (worker'[r].first = z =>
                          \E b \in Nat : b = Len(delivered'[r]) /\ Followed(r, b)')
      <3>1. LastOn(z, r) => LastBatch(r) \in Nat
        BY DEF LastOn
      <3>2. Serving(z)' \/ Opening(z)' => z = s /\ Serving(s)' /\ ~Opening(z)'
        BY <1>2
      <3>3. ~Holds(s, r)' => r # m.run
        BY <1>5
      <3> QED BY <1>1, <1>6, <2>1, <2>2, <3>1, <3>2, <3>3
    <2> QED BY <2>3 DEF RestWhole, Followed, Passed, InChannel
  <1> QED BY <1>9, <1>10

\* The write loop of the running session sends what it holds.
LEMMA SendWhole ==
    ASSUME SessionInv, OrderInv, WholeInv, NEW s \in Sessions, WriterSend(s)
    PROVE  HandWhole' /\ RestWhole' /\ GaplessOnASession' /\ WholeFromFirstSession'
  <1> USE SessionTypes, WholeTypes, DeliveredTypes
  <1>0. DataType
    BY TypeHalves DEF SessionInv
  <1>1. /\ ConnOpen(s) /\ writer[s] = "busy"
        /\ UNCHANGED <<loop, session, overlap, outCh, worker>>
        /\ writer' = [writer EXCEPT ![s] = "idle"]
    BY DEF WriterSend, loopVars, ctxVars, chanVars, envVars
  <1>2. PICK m \in Message \cup {NoMsg} : m = inHand[s]
    BY <1>0 DEF DataType
  <1>3. \A r \in Runs : \A b : Followed(r, b)' <=> Followed(r, b)
    BY <1>1 DEF Followed, Passed, InChannel
  <1>4. ASSUME NEW z \in Sessions, Serving(z)' \/ Opening(z)'
        PROVE  z = s /\ Serving(s) /\ ~Opening(z)' /\ \A r : ~Holds(z, r)'
    <2>1. z = s
      BY <1>1, <1>4 DEF Serving, Opening, ConnOpen
    <2>2. writer'[s] = "idle"
      BY <1>0, <1>1 DEF DataType
    <2> QED BY <1>1, <1>4, <2>1, <2>2 DEF Serving, Opening, ConnOpen, Holds
  <1>5. HandWhole'
    BY <1>4 DEF HandWhole
  <1>6. ASSUME NEW r \in Runs, r # m.run, delivered'[r] = delivered[r]
        PROVE  \A z \in Sessions :
                 /\ Serving(z)' /\ LastOn(z, r)' => Followed(r, LastBatch(r))'
                 /\ Serving(z)' => (worker'[r].first = z => Followed(r, Len(delivered[r]))')
    <2>1. ASSUME Serving(s)
          PROVE  /\ LastOn(s, r) => Followed(r, LastBatch(r))
                 /\ worker[r].first = s => Followed(r, Len(delivered[r]))
      <3>1. ~Holds(s, r)
        BY <1>2, <1>6 DEF Holds
      <3> QED BY <2>1, <3>1 DEF WholeInv, RestWhole
    <2>2. /\ LastOn(s, r)' <=> LastOn(s, r)
          /\ LastBatch(r)' = LastBatch(r) /\ Len(delivered[r])' = Len(delivered[r])
      BY <1>6 DEF LastOn, LastBatch
    <2>3. /\ Followed(r, LastBatch(r)) => Followed(r, LastBatch(r))'
          /\ Followed(r, Len(delivered[r])) => Followed(r, Len(delivered[r]))'
      BY <1>1, <2>2, Zenon DEF Followed, Passed, InChannel
    <2>4. \A z \in Sessions : Serving(z)' => z = s /\ Serving(s)
      BY <1>4
    <2>5. worker'[r].first = worker[r].first
      BY <1>1
    <2> QED BY <2>1, <2>2, <2>3, <2>4, <2>5
  <1>7. CASE m.run = NoRun
    <2>1. delivered' = delivered
      BY <1>2, <1>7 DEF WriterSend
    <2>2. RestWhole'
      BY <1>1, <1>4, <1>6, <1>7, <2>1 DEF RestWhole
    <2>3. GaplessOnASession' /\ WholeFromFirstSession'
      BY <1>1, <2>1 DEF WholeInv, GaplessOnASession, WholeFromFirstSession
    <2> QED BY <1>5, <2>2, <2>3
  <1>8. CASE m.run # NoRun
    <2>0. PICK p \in Runs : p = m.run
      BY <1>2, <1>8 DEF Message, NoMsg
    <2>1. PICK b \in Nat : b = m.batch
      BY <1>2
    <2>2. PICK e : e = [conn |-> s, batch |-> b]
      OBVIOUS
    <2>3. delivered' = [delivered EXCEPT ![p] = Append(delivered[p], e)]
      BY <1>2, <1>8, <2>0, <2>1, <2>2 DEF WriterSend
    <2>4. /\ \A r \in Runs : r # p => delivered'[r] = delivered[r]
          /\ delivered'[p] = Append(delivered[p], e)
      BY <2>3
    <2>5. /\ Len(delivered'[p]) = Len(delivered[p]) + 1
          /\ delivered'[p][Len(delivered[p]) + 1] = e
          /\ \A k \in DOMAIN delivered'[p] :
                \/ k \in DOMAIN delivered[p] /\ delivered'[p][k] = delivered[p][k]
                \/ k = Len(delivered[p]) + 1 /\ delivered'[p][k] = e
          /\ \A k \in DOMAIN delivered[p] : delivered'[p][k] = delivered[p][k]
                                           /\ k <= Len(delivered[p]) /\ k \in Nat
      BY <2>4
    <2>6. e.conn = s /\ e.batch = b
      BY <2>2
    <2>7. ASSUME ~overlap
          PROVE  /\ Followed(p, b)
                 /\ LastOn(s, p) => b = LastBatch(p) + 1
                 /\ worker[p].first = s => b = Len(delivered[p]) + 1
      BY <1>1, <1>2, <2>0, <2>1, <2>7 DEF WholeInv, HandWhole, Serving, Holds
    <2>8. LastBatch(p)' = b
      BY <2>5, <2>6 DEF LastBatch
    <2>9. RestWhole'
      <3>1. ASSUME NEW z \in Sessions, NEW r \in Runs, r # p
            PROVE  /\ Serving(z)' /\ LastOn(z, r)' => Followed(r, LastBatch(r))'
                   /\ Serving(z)' => (worker'[r].first = z => Followed(r, Len(delivered[r]))')
        BY <1>6, <2>0, <2>4, <3>1
      <3>2. ASSUME NEW z \in Sessions, Serving(z)'
            PROVE  /\ Followed(p, LastBatch(p))'
                   /\ worker'[p].first = z => Followed(p, Len(delivered[p]))'
        <4>1. z = s /\ ~overlap
          BY <1>4, <3>2 DEF Serving
        <4>2. Followed(p, b)
          BY <2>7, <4>1
        <4>3. Followed(p, b)'
          BY <1>3, <4>2
        <4>4. worker'[p].first = s => Len(delivered'[p]) = b
          BY <1>1, <2>5, <2>7, <4>1
        <4> QED BY <2>8, <4>1, <4>3, <4>4 DEF Followed, Passed, InChannel
      <3>3. \A z \in Sessions : ~Opening(z)'
        BY <1>4
      <3> QED BY <2>4, <3>1, <3>2, <3>3 DEF RestWhole
    <2>10. GaplessOnASession'
      <3> SUFFICES ASSUME ~overlap, NEW r \in Runs, NEW i \in DOMAIN delivered'[r],
                          i > 1, delivered'[r][i - 1].conn = delivered'[r][i].conn
                   PROVE  delivered'[r][i].batch = delivered'[r][i - 1].batch + 1
        BY <1>1 DEF GaplessOnASession
      <3>1. CASE r # p
        BY <2>4, <3>1 DEF WholeInv, GaplessOnASession
      <3>2. CASE r = p /\ i \in DOMAIN delivered[p]
        <4>1. i - 1 \in DOMAIN delivered[p]
          BY <3>2
        <4>2. delivered'[p][i] = delivered[p][i] /\ delivered'[p][i - 1] = delivered[p][i - 1]
          BY <2>5, <3>2, <4>1
        <4> QED BY <3>2, <4>2 DEF WholeInv, GaplessOnASession
      <3>3. CASE r = p /\ i = Len(delivered[p]) + 1
        <4>1. /\ delivered[p] # <<>> /\ i - 1 = Len(delivered[p])
              /\ i - 1 \in DOMAIN delivered[p]
          BY <3>3
        <4>2. /\ delivered'[p][i - 1] = delivered[p][i - 1]
              /\ delivered'[p][i] = e
          BY <2>5, <3>3, <4>1
        <4>3. LastOn(s, p) /\ LastBatch(p) = delivered[p][i - 1].batch
          BY <2>6, <3>3, <4>1, <4>2 DEF LastOn, LastBatch
        <4> QED BY <2>6, <2>7, <3>3, <4>2, <4>3
      <3> QED BY <2>5, <3>1, <3>2, <3>3
    <2>11. WholeFromFirstSession'
      <3> SUFFICES ASSUME ~overlap, NEW r \in Runs, NEW i \in DOMAIN delivered'[r],
                          delivered'[r][i].conn = worker[r].first
                   PROVE  delivered'[r][i].batch = i
        BY <1>1 DEF WholeFromFirstSession
      <3>1. CASE r # p
        BY <2>4, <3>1 DEF WholeInv, WholeFromFirstSession
      <3>2. CASE r = p /\ i \in DOMAIN delivered[p]
        BY <2>5, <3>2 DEF WholeInv, WholeFromFirstSession
      <3>3. CASE r = p /\ i = Len(delivered[p]) + 1
        BY <2>5, <2>6, <2>7, <3>3
      <3> QED BY <2>5, <3>1, <3>2, <3>3
    <2> QED BY <1>5, <2>9, <2>10, <2>11
  <1> QED BY <1>7, <1>8

LEMMA WholeInit == Init => WholeInv
  <1> SUFFICES ASSUME Init PROVE WholeInv
    OBVIOUS
  <1> USE RelayAssumption DEF RelayAssumption, Init
  <1>1. ChannelWhole /\ SoleWriter /\ JoinRefKnown /\ FramesKnown
    BY DEF ChannelWhole, SoleWriter, JoinRefKnown, FramesKnown
  <1>2. HandWhole /\ RestWhole
    BY DEF HandWhole, RestWhole, Serving, Opening, ConnOpen
  <1>3. GaplessOnASession /\ WholeFromFirstSession
    BY DEF GaplessOnASession, WholeFromFirstSession
  <1> QED BY <1>1, <1>2, <1>3 DEF WholeInv

LEMMA WholeStep ==
    SessionInv /\ SessionInv' /\ OrderInv /\ WholeInv /\ [Next]_vars => WholeInv'
  <1> SUFFICES ASSUME SessionInv, SessionInv', OrderInv, WholeInv, [Next]_vars
               PROVE  WholeInv'
    OBVIOUS
  <1>0. /\ ChannelInv /\ ChannelWhole /\ SoleWriter /\ JoinRefKnown /\ FramesKnown
        /\ HandWhole /\ RestWhole /\ GaplessOnASession /\ WholeFromFirstSession
    BY DEF OrderInv, WholeInv
  <1>1. JoinRefKnown' /\ ChannelWhole'
    BY <1>0, JoinRefStep, ChannelStaysWhole
  <1>2. SoleWriter' /\ FramesKnown'
    BY <1>0, SoleStep, FramesStep
  <1>3. HandWhole' /\ RestWhole' /\ GaplessOnASession' /\ WholeFromFirstSession'
    <2>1. CASE Quiet
      <3>1. delivered' = delivered /\ (overlap => overlap')
        BY <2>1 DEF Quiet
      <3> QED BY <1>0, <2>1, <3>1, QuietWhole, SameFrames
    <2>2. CASE StartLoops
      <3>1. delivered' = delivered /\ (overlap => overlap')
        BY <2>2 DEF StartLoops, envVars
      <3> QED BY <1>0, <2>2, <3>1, StartWhole, SameFrames
    <2>3. ASSUME NEW s \in Sessions, WriterSend(s)
          PROVE  HandWhole' /\ RestWhole' /\ GaplessOnASession' /\ WholeFromFirstSession'
      BY <2>3, SendWhole
    <2>4. ASSUME NEW s \in Sessions, WriterTake(s) \/ WriterFail(s) \/ WriterExit(s)
          PROVE  HandWhole' /\ RestWhole' /\ GaplessOnASession' /\ WholeFromFirstSession'
      <3>1. delivered' = delivered /\ (overlap => overlap')
        BY <2>4 DEF WriterTake, WriterFail, WriterExit, envVars
      <3>2. HandWhole' /\ RestWhole'
        BY <1>0, <2>4, TakeWhole, EndWhole
      <3> QED BY <1>0, <3>1, <3>2, SameFrames
    <2> QED BY <2>1, <2>2, <2>3, <2>4, Quiets DEF WriterStep
  <1> QED BY <1>1, <1>2, <1>3 DEF WholeInv

LEMMA WholeCorrect == Spec => []WholeInv
  <1>1. Init => SessionInv /\ OrderInv /\ WholeInv
    BY SessionInit, OrderInit, WholeInit
  <1>2. SessionInv /\ OrderInv /\ WholeInv /\ [Next]_vars
           => (SessionInv /\ OrderInv /\ WholeInv)'
    BY SessionStep, OrderStep, WholeStep, PTL
  <1> QED BY <1>1, <1>2, PTL DEF Spec

\* GaplessOnASession: as long as cancelled loops end within the backoff, two
\* frames of a query that follow each other on a connection are consecutive
\* batches, for every number of runs, sessions and places in outCh: a write
\* loop never loses a message without losing its connection.
THEOREM GaplessSessions == Spec => []GaplessOnASession
  <1>1. WholeInv => GaplessOnASession
    BY DEF WholeInv
  <1> QED BY <1>1, WholeCorrect, PTL

\* WholeFromFirstSession: and what reaches the cloud on the session for which
\* the first batch of a query was stamped is batches 1, 2, 3, ...: the drain of
\* an earlier session takes nothing that was pushed for this one.
THEOREM WholeFromTheFirst == Spec => []WholeFromFirstSession
  <1>1. WholeInv => WholeFromFirstSession
    BY DEF WholeInv
  <1> QED BY <1>1, WholeCorrect, PTL
=============================================================================
