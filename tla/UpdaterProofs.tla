--------------------------- MODULE UpdaterProofs ---------------------------
(***************************************************************************)
(* Theorems about Updater, for any releases and any number of goroutines:  *)
(* its status is backed by work and by files, no file is applied twice,    *)
(* and the version that runs never goes back.                              *)
(***************************************************************************)
EXTENDS Updater, TLAPS

TaskPcs == {"none", "check", "mark", "sum", "fetch", "recheck", "apply", "swap", "ended"}
Task == [pc : TaskPcs, url : AnyVersion, sum : AnyVersion, apply : BOOLEAN,
         file : Tasks \cup {NoFile}]

\* What a step of goroutine t makes of its record.
Moved(t, v) == v \in Task /\ task' = [task EXCEPT ![t] = v]

\* Its record at another place.
Goes(t, pc) == [pc |-> pc, url |-> task[t].url, sum |-> task[t].sum,
                apply |-> task[t].apply, file |-> task[t].file]

-----------------------------------------------------------------------------
\* The records that the steps write, field by field.
LEMMA Records ==
    ASSUME TypeOK, NEW t \in Tasks
    PROVE  /\ task \in [Tasks -> Task] /\ Over(t) \in Task
           /\ task' = Ends(t) => Moved(t, Over(t))
           /\ task' = AfterDownload(t) =>
                 Moved(t, Over(t)) \/ Moved(t, Goes(t, "recheck"))
           /\ \A pc \in TaskPcs :
                 /\ task' = [task EXCEPT ![t].pc = pc] => Moved(t, Goes(t, pc))
                 /\ \A b \in BOOLEAN : task' = [task EXCEPT ![t].pc = pc, ![t].apply = b]
                        => Moved(t, [Goes(t, pc) EXCEPT !.apply = b])
                 /\ \A v \in AnyVersion :
                       /\ task' = [task EXCEPT ![t].pc = pc, ![t].url = v]
                             => Moved(t, [Goes(t, pc) EXCEPT !.url = v])
                       /\ task' = [task EXCEPT ![t].pc = pc, ![t].sum = v]
                             => Moved(t, [Goes(t, pc) EXCEPT !.sum = v])
                 /\ \A f \in Tasks : task' = [task EXCEPT ![t].pc = pc, ![t].file = f]
                        => Moved(t, [Goes(t, pc) EXCEPT !.file = f])
<1> USE DEF TypeOK, Task, TaskPcs, Moved, Goes
<1>1. task[t] \in Task /\ 0 \in AnyVersion /\ task \in [Tasks -> Task]
  BY DEF AnyVersion
<1>2. Over(t) \in Task
  BY <1>1 DEF Over
<1>3. \A pc \in TaskPcs : task' = [task EXCEPT ![t].pc = pc] => Moved(t, Goes(t, pc))
  BY <1>1
<1>4. \A pc \in TaskPcs, b \in BOOLEAN : task' = [task EXCEPT ![t].pc = pc, ![t].apply = b]
                        => Moved(t, [Goes(t, pc) EXCEPT !.apply = b])
  BY <1>1
<1>5. \A pc \in TaskPcs, v \in AnyVersion :
                       /\ task' = [task EXCEPT ![t].pc = pc, ![t].url = v]
                             => Moved(t, [Goes(t, pc) EXCEPT !.url = v])
                       /\ task' = [task EXCEPT ![t].pc = pc, ![t].sum = v]
                             => Moved(t, [Goes(t, pc) EXCEPT !.sum = v])
  BY <1>1
<1>6. \A pc \in TaskPcs, f \in Tasks : task' = [task EXCEPT ![t].pc = pc, ![t].file = f]
                        => Moved(t, [Goes(t, pc) EXCEPT !.file = f])
  BY <1>1
<1>7. task' = Ends(t) => Moved(t, Over(t))
  BY <1>2 DEF Ends
<1>8. task' = AfterDownload(t) => Moved(t, Over(t)) \/ Moved(t, Goes(t, "recheck"))
  <2>1. "recheck" \in TaskPcs
    OBVIOUS
  <2> HIDE DEF Moved, Goes, TaskPcs
  <2> QED
    BY <1>3, <1>7, <2>1 DEF AfterDownload
<1> HIDE DEF TypeOK, Task, TaskPcs, Moved, Goes
<1> QED
  BY <1>1, <1>2, <1>3, <1>4, <1>5, <1>6, <1>7, <1>8

-----------------------------------------------------------------------------
\* A goroutine marks the state as downloading whatever it has become since it
\* was available; a version remains in it, as only a new process clears it.
Started ==
    \A t \in Tasks : task[t].pc \in {"mark", "sum", "fetch"} => state.version \in Versions

Statuses == {"idle", "available", "downloading", "ready", "applying", "error"}
State == [status : Statuses, version : AnyVersion, url : AnyVersion, sum : AnyVersion,
          path : Tasks \cup {NoFile}]

\* The state has its type in the first states and after every step.
LEMMA TypesInit == Init => TypeOK /\ Started
  BY DEF Init, TypeOK, Started, Idle, Unused, AnyVersion

\* Every step keeps the types.
LEMMA TypesStep ==
    ASSUME UpdaterAssumption, TypeOK, Started, [Next]_vars
    PROVE  TypeOK' /\ Started'
<1> USE DEF UpdaterAssumption
<1>0. /\ state \in State /\ task \in [Tasks -> Task] /\ 0 \in AnyVersion
      /\ Versions \subseteq AnyVersion /\ AnyVersion \subseteq Nat
      /\ TypeOK' <=> /\ state' \in State /\ task' \in [Tasks -> Task]
                     /\ state'.status \notin {"idle", "error"} => state'.version \in Versions
                     /\ files' \in SUBSET Tasks
                     /\ current' \in AnyVersion /\ installed' \in AnyVersion
                     /\ mode' \in {"auto", "download", "manual"} /\ remote' \in BOOLEAN
  BY DEF TypeOK, State, Statuses, Task, TaskPcs, AnyVersion
<1>1. ASSUME NEW t \in Tasks, NEW v, Moved(t, v)
      PROVE  /\ task' \in [Tasks -> Task] /\ task'[t] = v
             /\ \A u \in Tasks \ {t} : task'[u] = task[u]
  BY <1>0, <1>1 DEF Moved
<1>2. CASE UNCHANGED vars
  BY <1>2 DEF vars, versions, settings, TypeOK, Started
<1>3. ASSUME NEW v \in AnyVersion, NEW url \in AnyVersion, NEW sum \in AnyVersion, v > current
      PROVE  Offer(v, url, sum) \in State /\ Offer(v, url, sum).version \in Versions
  BY <1>3, <1>0 DEF Offer, State, Statuses, TypeOK, AnyVersion
<1>4. ASSUME NEW v \in AnyVersion, NEW url \in AnyVersion, NEW sum \in AnyVersion,
             NotifyAvailable(v, url, sum)
      PROVE  TypeOK' /\ Started'
  <2>1. state' \in State /\ state'.version \in Versions
    BY <1>3, <1>4 DEF NotifyAvailable
  <2>2. task' \in [Tasks -> Task]
    <3>1. CASE UNCHANGED task
      BY <1>0, <3>1
    <3>2. CASE ~UNCHANGED task
      <4>1. PICK t \in Tasks : task' = [task EXCEPT ![t].pc = "check", ![t].apply = (mode = "auto")]
        BY <1>4, <3>2 DEF NotifyAvailable
      <4>2. "check" \in TaskPcs /\ (mode = "auto") \in BOOLEAN
        BY DEF TaskPcs
      <4>3. Moved(t, [Goes(t, "check") EXCEPT !.apply = (mode = "auto")])
        BY <4>1, <4>2, Records
      <4> QED
        BY <1>0, <4>3 DEF Moved
    <3> QED
      BY <3>1, <3>2
  <2> QED
    BY <1>0, <1>4, <2>1, <2>2 DEF NotifyAvailable, versions, settings, TypeOK, Started
<1>5. ASSUME NEW v \in AnyVersion, NEW sum \in AnyVersion, CheckGitHub(v, sum)
      PROVE  TypeOK' /\ Started'
  <2>1. CASE v > current
    BY <1>0, <1>3, <1>5, <2>1 DEF CheckGitHub, versions, settings, TypeOK, Started
  <2>2. CASE ~(v > current)
    <3>1. state' \in State /\ state'.status = "idle" /\ state'.version = state.version
      BY <1>0, <1>5, <2>2 DEF CheckGitHub, State, Statuses
    <3> QED
      BY <1>0, <1>5, <3>1 DEF CheckGitHub, versions, settings, TypeOK, Started
  <2> QED
    BY <2>1, <2>2
<1>7. ASSUME NewProcess, installed' \in AnyVersion, files' \in SUBSET Tasks
      PROVE  TypeOK' /\ Started'
  <2>1. \A t \in Tasks : task'[t] = IF At(t, "none") THEN task[t] ELSE Over(t)
    BY <1>7 DEF NewProcess
  <2>2. task' \in [Tasks -> Task]
    <3>1. \A t \in Tasks : task'[t] \in Task
      BY <1>0, <2>1, Records
    <3> QED
      BY <1>7, <3>1 DEF NewProcess
  <2>3. \A t \in Tasks : task'[t].pc \in {"none", "ended"}
    <3> TAKE t \in Tasks
    <3>1. CASE At(t, "none")
      BY <2>1, <3>1 DEF At
    <3>2. CASE ~At(t, "none")
      <4>1. task'[t] = Over(t)
        BY <2>1, <3>2
      <4> QED
        BY <4>1 DEF Over
    <3> QED
      BY <3>1, <3>2
  <2>4. state' \in State /\ state'.status = "idle"
    BY <1>0, <1>7 DEF NewProcess, Idle, State, Statuses
  <2> QED
    BY <1>0, <1>7, <2>2, <2>3, <2>4 DEF NewProcess, settings, TypeOK, Started
<1>6. ASSUME NEW t \in Tasks, TaskStep(t) PROVE TypeOK' /\ Started'
  <2>0. \A pc \in TaskPcs : Goes(t, pc) \in Task /\ Goes(t, pc).pc = pc
    BY <1>0 DEF Goes, Task
  <2>1. CASE BeginDownload(t)
    <3>1. CASE state.status = "available" /\ state.url # 0
      <4>1. Moved(t, [Goes(t, "mark") EXCEPT !.url = state.url])
        BY <2>1, <3>1, <1>0, Records DEF BeginDownload, TaskPcs, State
      <4>2. task' \in [Tasks -> Task] /\ \A u \in Tasks \ {t} : task'[u] = task[u]
        BY <1>1, <4>1
      <4>3. state.version \in Versions
        BY <3>1 DEF TypeOK
      <4> QED
        BY <1>0, <2>1, <3>1, <4>2, <4>3 DEF BeginDownload, versions, settings, TypeOK, Started
    <3>2. CASE ~(state.status = "available" /\ state.url # 0)
      <4>1. task' = AfterDownload(t)
        BY <2>1, <3>2 DEF BeginDownload
      <4>2. Moved(t, Over(t)) \/ Moved(t, Goes(t, "recheck"))
        BY <4>1, Records
      <4>3. task' \in [Tasks -> Task] /\ task'[t].pc \in {"ended", "recheck"}
            /\ \A u \in Tasks \ {t} : task'[u] = task[u]
        BY <4>2, <1>1, <2>0 DEF Over, TaskPcs
      <4> QED
        BY <1>0, <2>1, <4>3 DEF BeginDownload, versions, settings, TypeOK, Started
    <3> QED
      BY <3>1, <3>2
  <2>2. CASE MarkDownloading(t)
    <3>1. Moved(t, Goes(t, "sum"))
      BY <2>2, Records DEF MarkDownloading, TaskPcs
    <3>2. state' \in State /\ state'.version = state.version /\ state.version \in Versions
      BY <2>2, <1>0 DEF MarkDownloading, State, Statuses, At, Started
    <3> QED
      BY <1>0, <1>1, <2>0, <2>2, <3>1, <3>2 DEF MarkDownloading, versions, settings, TypeOK, Started, Moved
  <2>3. CASE ReadChecksum(t)
    <3>1. Moved(t, [Goes(t, "fetch") EXCEPT !.sum = state.sum])
      BY <2>3, <1>0, Records DEF ReadChecksum, TaskPcs, State
    <3>2. state.version \in Versions
      BY <2>3 DEF ReadChecksum, At, Started
    <3>3. task' \in [Tasks -> Task] /\ \A u \in Tasks \ {t} : task'[u] = task[u]
      BY <1>1, <3>1
    <3> QED
      BY <1>0, <2>3, <3>2, <3>3 DEF ReadChecksum, versions, settings, TypeOK, Started
  <2>4. ASSUME At(t, "fetch"), task' = AfterDownload(t), UNCHANGED <<versions, settings>>,
               state' \in State, state'.version = state.version, files' \in SUBSET Tasks
        PROVE  TypeOK' /\ Started'
    <3>1. Moved(t, Over(t)) \/ Moved(t, Goes(t, "recheck"))
      BY <2>4, Records
    <3>2. task' \in [Tasks -> Task] /\ task'[t].pc \in {"ended", "recheck"}
          /\ \A u \in Tasks \ {t} : task'[u] = task[u]
      BY <3>1, <1>1, <2>0 DEF Over, TaskPcs
    <3>3. state.version \in Versions
      BY <2>4 DEF At, Started
    <3> QED
      BY <1>0, <2>4, <3>2, <3>3 DEF versions, settings, TypeOK, Started
  <2>5. CASE DownloadOk(t)
    BY <1>0, <2>4, <2>5 DEF DownloadOk, State, Statuses, TypeOK
  <2>6. CASE DownloadFails(t)
    BY <1>0, <2>4, <2>6 DEF DownloadFails, State, Statuses, TypeOK
  <2>7. CASE Recheck(t)
    <3>1. Moved(t, Over(t)) \/ Moved(t, Goes(t, "apply"))
      BY <2>7, Records DEF Recheck, TaskPcs
    <3>2. task' \in [Tasks -> Task] /\ task'[t].pc \in {"ended", "apply"}
          /\ \A u \in Tasks \ {t} : task'[u] = task[u]
      BY <3>1, <1>1, <2>0 DEF Over, TaskPcs
    <3> QED
      BY <1>0, <2>7, <3>2 DEF Recheck, versions, settings, TypeOK, Started
  <2>8. CASE BeginApply(t)
    <3>1. CASE state.status = "ready" /\ state.path # NoFile
      <4>1. Moved(t, [Goes(t, "swap") EXCEPT !.file = state.path])
        BY <2>8, <3>1, <1>0, Records DEF BeginApply, TaskPcs, State
      <4>2. task'[t].pc = "swap"
        BY <1>0, <4>1 DEF Moved, Goes
      <4>3. state' \in State /\ state'.version = state.version
        BY <1>0, <2>8, <3>1 DEF BeginApply, State, Statuses
      <4> QED
        BY <1>0, <2>8, <3>1, <4>1, <4>2, <4>3 DEF BeginApply, versions, settings, TypeOK, Started, Moved
    <3>2. CASE ~(state.status = "ready" /\ state.path # NoFile)
      <4>1. Moved(t, Over(t)) /\ UNCHANGED state
        BY <2>8, <3>2, Records DEF BeginApply
      <4> QED
        BY <1>0, <2>8, <4>1 DEF BeginApply, versions, settings, TypeOK, Started, Moved, Over
    <3> QED
      BY <3>1, <3>2
  <2>9. CASE SwapFails(t)
    <3>1. Moved(t, Over(t))
      BY <2>9, Records DEF SwapFails
    <3>2. state' \in State /\ state'.status = "error" /\ state'.version = state.version
      BY <1>0, <2>9 DEF SwapFails, State, Statuses
    <3>3. installed' \in AnyVersion
      BY <1>0, <2>9 DEF SwapFails, Task, TypeOK
    <3> QED
      BY <1>0, <2>9, <3>1, <3>2, <3>3 DEF SwapFails, settings, TypeOK, Started, Moved, Over
  <2>10. CASE SwapOk(t)
    <3>1. installed' \in AnyVersion
      BY <1>0, <2>10 DEF SwapOk, Task, TypeOK
    <3> QED
      BY <1>0, <1>7, <2>10, <3>1 DEF SwapOk, TypeOK
  <2> QED
    BY <1>6, <2>1, <2>2, <2>3, <2>5, <2>6, <2>7, <2>8, <2>9, <2>10 DEF TaskStep
<1>9. CASE Restart
  BY <1>0, <1>7, <1>9 DEF Restart, TypeOK
<1>8. CASE ChangeSettings
  BY <1>8 DEF ChangeSettings, versions, TypeOK, Started
<1> QED
  BY <1>0, <1>2, <1>4, <1>5, <1>6, <1>8, <1>9 DEF Next

-----------------------------------------------------------------------------
\* What a step of goroutine t leaves alone and where it takes the goroutine.
Place(t, pc, url, file) ==
    /\ \A u \in Tasks \ {t} : task'[u] = task[u]
    /\ task'[t].pc = pc /\ task'[t].url = url /\ task'[t].file = file

Stays(t, pc) == Place(t, pc, task[t].url, task[t].file)
Leaves(t) == Place(t, "ended", task[t].url, NoFile)

\* Where each step of a goroutine takes it.
LEMMA Places ==
    ASSUME TypeOK, NEW t \in Tasks
    PROVE  /\ BeginDownload(t) /\ state.status = "available" /\ state.url # 0
                 => Place(t, "mark", state.url, task[t].file)
           /\ BeginDownload(t) /\ ~(state.status = "available" /\ state.url # 0)
                 => Leaves(t) \/ Stays(t, "recheck")
           /\ MarkDownloading(t) => Stays(t, "sum")
           /\ ReadChecksum(t) => Stays(t, "fetch")
           /\ DownloadOk(t) \/ DownloadFails(t) => Leaves(t) \/ Stays(t, "recheck")
           /\ Recheck(t) => Leaves(t) \/ Stays(t, "apply")
           /\ BeginApply(t) /\ state.status = "ready" /\ state.path # NoFile
                 => Place(t, "swap", task[t].url, state.path)
           /\ BeginApply(t) /\ ~(state.status = "ready" /\ state.path # NoFile) => Leaves(t)
           /\ SwapFails(t) => Leaves(t)
<1>1. task \in [Tasks -> Task] /\ task[t] \in Task
  BY Records
<1>2. ASSUME NEW v, task' = [task EXCEPT ![t] = v]
      PROVE  Place(t, v.pc, v.url, v.file)
  BY <1>1, <1>2 DEF Place
<1>3. task' = Ends(t) => Leaves(t)
  <2>1. Over(t).pc = "ended" /\ Over(t).url = task[t].url /\ Over(t).file = NoFile
    BY DEF Over
  <2> QED
    BY <1>2, <2>1 DEF Ends, Leaves
<1>4. ASSUME NEW pc, task' = [task EXCEPT ![t].pc = pc] PROVE Stays(t, pc)
  BY <1>1, <1>4 DEF Stays, Place, Task
<1>5. task' = AfterDownload(t) => Leaves(t) \/ Stays(t, "recheck")
  BY <1>3, <1>4 DEF AfterDownload
<1>6. BeginDownload(t) /\ state.status = "available" /\ state.url # 0
        => Place(t, "mark", state.url, task[t].file)
  BY <1>1 DEF BeginDownload, Place, Task
<1>7. ReadChecksum(t) => Stays(t, "fetch")
  BY <1>1 DEF ReadChecksum, Stays, Place, Task
<1>8. BeginApply(t) /\ state.status = "ready" /\ state.path # NoFile
        => Place(t, "swap", task[t].url, state.path)
  BY <1>1 DEF BeginApply, Place, Task
<1> QED
  BY <1>3, <1>4, <1>5, <1>6, <1>7, <1>8
     DEF BeginDownload, MarkDownloading, DownloadOk, DownloadFails, Recheck, BeginApply, SwapFails

\* A notification starts at most one goroutine.
LEMMA Notified ==
    ASSUME TypeOK, NEW v, NEW url, NEW sum, NotifyAvailable(v, url, sum)
    PROVE  \A t \in Tasks : \/ task'[t] = task[t]
                            \/ /\ task[t].pc = "none" /\ task'[t].pc = "check"
                               /\ task'[t].url = task[t].url /\ task'[t].file = task[t].file
<1>1. CASE UNCHANGED task
  BY <1>1
<1>2. CASE ~UNCHANGED task
  <2>1. PICK u \in Tasks :
          /\ task[u].pc = "none"
          /\ task' = [task EXCEPT ![u].pc = "check", ![u].apply = (mode = "auto")]
    BY <1>2 DEF NotifyAvailable, At
  <2>2. task \in [Tasks -> Task] /\ "check" \in TaskPcs /\ (mode = "auto") \in BOOLEAN
    BY Records DEF TaskPcs
  <2>3. Moved(u, [Goes(u, "check") EXCEPT !.apply = (mode = "auto")])
    BY <2>1, <2>2, Records
  <2>4. task'[u].pc = "check" /\ task'[u].url = task[u].url /\ task'[u].file = task[u].file
    BY <2>2, <2>3 DEF Goes, Moved
  <2>5. \A t \in Tasks \ {u} : task'[t] = task[t]
    BY <2>2, <2>3 DEF Moved
  <2> QED
    BY <2>1, <2>4, <2>5
<1> QED
  BY <1>1, <1>2

\* A new process has no goroutine.
LEMMA Ended ==
    ASSUME NewProcess, NEW t \in Tasks
    PROVE  /\ task'[t].pc \in {"none", "ended"}
           /\ task[t].pc # "none" => task'[t].pc = "ended"
<1>1. task'[t] = IF At(t, "none") THEN task[t] ELSE Over(t)
  BY DEF NewProcess
<1>2. CASE At(t, "none")
  BY <1>1, <1>2 DEF At
<1>3. CASE ~At(t, "none")
  <2>1. task'[t] = Over(t)
    BY <1>1, <1>3
  <2> QED
    BY <2>1 DEF Over
<1> QED
  BY <1>2, <1>3

-----------------------------------------------------------------------------
(* Work and files.                                                         *)

\* A file is there only after its goroutine has downloaded it.
Fresh == \A t \in files : task[t].pc \in {"recheck", "apply", "swap", "ended"}

\* A file that is ready to be applied is not being applied.
Unclaimed ==
    state.status = "ready" =>
        /\ state.path \in Tasks
        /\ \A t \in Tasks : At(t, "swap") => task[t].file # state.path

Claims == StatusHasTask /\ ReadyFileExists /\ AppliedOnce /\ Fresh /\ Unclaimed

\* It holds before there is an update.
LEMMA ClaimsInit == Init => Claims
  BY DEF Init, Claims, StatusHasTask, ReadyFileExists, AppliedOnce, Fresh, Unclaimed, At, Idle, Unused

\* Every step keeps it.
LEMMA ClaimsStep ==
    ASSUME UpdaterAssumption, TypeOK, TypeOK', Claims, [Next]_vars
    PROVE  Claims'
<1> USE DEF Claims, StatusHasTask, ReadyFileExists, AppliedOnce, Fresh, Unclaimed, At
<1>0. /\ state \in State /\ state' \in State /\ files \subseteq Tasks /\ files' \subseteq Tasks
  BY DEF TypeOK, State, Statuses
<1>1. CASE UNCHANGED vars
  BY <1>1 DEF vars
<1>2. ASSUME NEW v \in AnyVersion, NEW url \in AnyVersion, NEW sum \in AnyVersion,
             NotifyAvailable(v, url, sum)
      PROVE  Claims'
  <2>1. state'.status = "available" /\ files' = files
    BY <1>2 DEF NotifyAvailable, Offer
  <2>2. \A t \in Tasks : \/ task'[t] = task[t]
                        \/ /\ task[t].pc = "none" /\ task'[t].pc = "check"
                           /\ task'[t].file = task[t].file
    BY <1>2, Notified
  <2>3. /\ \A t \in Tasks : task'[t].pc = "swap" => task[t].pc = "swap" /\ task'[t].file = task[t].file
        /\ \A t \in Tasks : t \in files => task'[t] = task[t]
    BY <2>2
  <2> QED
    BY <1>0, <2>1, <2>3
<1>3. ASSUME NEW v \in AnyVersion, NEW sum \in AnyVersion, CheckGitHub(v, sum)
      PROVE  Claims'
  <2>1. state'.status \in {"available", "idle"}
    BY <1>0, <1>3 DEF CheckGitHub, Offer, State
  <2> QED
    BY <1>3, <2>1 DEF CheckGitHub
<1>5. ASSUME NewProcess, files' \subseteq files PROVE Claims'
  <2>2. \A t \in files' : task'[t].pc = "ended"
    BY <1>0, <1>5, Ended
  <2>3. \A t \in Tasks : task'[t].pc \in {"none", "ended"}
    BY <1>5, Ended
  <2>4. state'.status = "idle"
    BY <1>5 DEF NewProcess, Idle
  <2> QED
    BY <1>0, <2>2, <2>3, <2>4
<1>4. ASSUME NEW t \in Tasks, TaskStep(t) PROVE Claims'
  <2> USE DEF Place, Stays, Leaves
  <2>0. ASSUME \A u \in Tasks \ {t} : task'[u] = task[u], UNCHANGED <<state, files>>,
               task[t].pc # "swap", task'[t].pc # "swap",
               task[t].pc \in {"sum", "fetch"} => task'[t].pc \in {"sum", "fetch"},
               t \in files => task'[t].pc \in {"recheck", "apply", "ended"}
        PROVE  Claims'
    <3>1. \A u \in Tasks :
            /\ task'[u].pc = "swap" <=> task[u].pc = "swap"
            /\ task'[u].pc = "swap" => task'[u].file = task[u].file
            /\ task[u].pc \in {"sum", "fetch"} => task'[u].pc \in {"sum", "fetch"}
      BY <2>0
    <3>2. Fresh'
      BY <1>0, <2>0
    <3>3. StatusHasTask' /\ ReadyFileExists' /\ Unclaimed' /\ AppliedOnce'
      BY <2>0, <3>1
    <3> QED
      BY <3>2, <3>3
  <2>1. CASE BeginDownload(t)
    <3>1. task[t].pc = "check" /\ UNCHANGED <<state, files>>
      BY <2>1 DEF BeginDownload
    <3>2. task'[t].pc \in {"mark", "ended", "recheck"} /\ \A u \in Tasks \ {t} : task'[u] = task[u]
      BY <2>1, Places
    <3> QED
      BY <2>0, <3>1, <3>2
  <2>2. CASE MarkDownloading(t)
    <3>1. task[t].pc = "mark" /\ files' = files
      BY <2>2 DEF MarkDownloading
    <3>2. task'[t].pc = "sum" /\ \A u \in Tasks \ {t} : task'[u] = task[u]
      BY <2>2, Places
    <3>3. state'.status = "downloading"
      BY <1>0, <2>2 DEF MarkDownloading, State
    <3>4. Fresh'
      BY <1>0, <3>1, <3>2
    <3>5. AppliedOnce'
      BY <3>1, <3>2
    <3> QED
      BY <3>2, <3>3, <3>4, <3>5
  <2>3. CASE ReadChecksum(t)
    <3>1. task[t].pc = "sum" /\ UNCHANGED <<state, files>>
      BY <2>3 DEF ReadChecksum
    <3>2. task'[t].pc = "fetch" /\ \A u \in Tasks \ {t} : task'[u] = task[u]
      BY <2>3, Places
    <3> QED
      BY <2>0, <3>1, <3>2
  <2>4. CASE DownloadOk(t)
    <3>1. task[t].pc = "fetch" /\ files' = files \cup {t} /\ t \notin files
      BY <2>4 DEF DownloadOk
    <3>2. task'[t].pc \in {"ended", "recheck"} /\ \A u \in Tasks \ {t} : task'[u] = task[u]
      BY <2>4, Places
    <3>3. state'.status = "ready" /\ state'.path = t
      BY <1>0, <2>4 DEF DownloadOk, State
    <3>4. \A u \in Tasks : task'[u].pc = "swap" => task'[u] = task[u] /\ task'[u].file \in files
      BY <3>1, <3>2
    <3>7. Fresh'
      BY <1>0, <3>1, <3>2
    <3>5. Fresh' /\ StatusHasTask' /\ ReadyFileExists'
      BY <3>1, <3>3, <3>7
    <3>6. AppliedOnce' /\ Unclaimed'
      BY <3>1, <3>3, <3>4
    <3> QED
      BY <3>5, <3>6
  <2>5. CASE DownloadFails(t)
    BY <1>0, <2>5, Places DEF DownloadFails, State
  <2>6. CASE Recheck(t)
    <3>1. task[t].pc = "recheck" /\ UNCHANGED <<state, files>>
      BY <2>6 DEF Recheck
    <3>2. task'[t].pc \in {"ended", "apply"} /\ \A u \in Tasks \ {t} : task'[u] = task[u]
      BY <2>6, Places
    <3> QED
      BY <2>0, <3>1, <3>2
  <2>7. CASE BeginApply(t)
    <3>1. task[t].pc = "apply" /\ files' = files
      BY <2>7 DEF BeginApply
    <3>2. CASE state.status = "ready" /\ state.path # NoFile
      <4>1. /\ task'[t].pc = "swap" /\ task'[t].file = state.path
            /\ \A u \in Tasks \ {t} : task'[u] = task[u]
        BY <2>7, <3>2, Places
      <4>2. state'.status = "applying"
        BY <1>0, <2>7, <3>2 DEF BeginApply, State
      <4>3. AppliedOnce'
        BY <3>1, <3>2, <4>1
      <4>4. Fresh'
        BY <1>0, <3>1, <4>1
      <4> QED
        BY <4>1, <4>2, <4>3, <4>4
    <3>3. CASE ~(state.status = "ready" /\ state.path # NoFile)
      <4>1. task'[t].pc = "ended" /\ \A u \in Tasks \ {t} : task'[u] = task[u]
        BY <2>7, <3>3, Places
      <4>2. UNCHANGED state
        BY <2>7, <3>3 DEF BeginApply
      <4> QED
        BY <2>0, <3>1, <4>1, <4>2
    <3> QED
      BY <3>2, <3>3
  <2>8. CASE SwapFails(t)
    BY <1>0, <2>8, Places DEF SwapFails, State
  <2>9. CASE SwapOk(t)
    BY <1>0, <2>9, <1>5 DEF SwapOk
  <2> QED
    BY <1>4, <2>1, <2>2, <2>3, <2>4, <2>5, <2>6, <2>7, <2>8, <2>9 DEF TaskStep
<1>6. CASE Restart
  BY <1>5, <1>6 DEF Restart
<1>7. CASE ChangeSettings
  BY <1>7 DEF ChangeSettings
<1> QED
  BY <1>1, <1>2, <1>3, <1>4, <1>6, <1>7 DEF Next, AnyVersion

-----------------------------------------------------------------------------
(* Versions.                                                               *)

\* What may be downloaded, has been, or is being applied is newer than what
\* runs, and the executable is not older.
Newer ==
    /\ installed >= current
    /\ state.status = "available" /\ state.url # 0 => state.url > current
    /\ state.status = "ready" => task[state.path].url > current
    /\ \A t \in Tasks :
          /\ task[t].pc \in {"mark", "sum", "fetch"} => task[t].url > current
          /\ At(t, "swap") => task[task[t].file].url > current

\* It holds before there is an update.
LEMMA NewerInit == Init => Newer
  BY DEF Init, Newer, At, Idle, Unused

\* Every step keeps it, and a new process runs what is installed.
LEMMA NewerStep ==
    ASSUME UpdaterAssumption, TypeOK, TypeOK', Claims, Newer, [Next]_vars
    PROVE  Newer' /\ current' >= current
<1> USE DEF Newer, At
<1>0. /\ state \in State /\ state' \in State /\ files \subseteq Tasks
      /\ task \in [Tasks -> Task] /\ AnyVersion \subseteq Nat
      /\ current \in Nat /\ installed \in Nat
      /\ \A t \in Tasks : task[t].url \in Nat
      /\ state.status = "ready" => state.path \in files
      /\ \A t \in Tasks : task[t].pc = "swap" => task[t].file \in files
      /\ \A t \in files : task[t].pc \in {"recheck", "apply", "swap", "ended"}
  <2>1. state \in State /\ state' \in State /\ files \subseteq Tasks
    BY DEF TypeOK, State, Statuses
  <2>2. AnyVersion \subseteq Nat /\ task \in [Tasks -> Task]
    BY DEF AnyVersion, UpdaterAssumption, TypeOK, Task, TaskPcs
  <2>3. current \in Nat /\ installed \in Nat
    BY <2>2 DEF TypeOK
  <2>4. \A t \in Tasks : task[t].url \in Nat
    BY <2>2 DEF Task
  <2> QED
    BY <2>1, <2>2, <2>3, <2>4 DEF Claims, ReadyFileExists, AppliedOnce, Fresh
<1>1. CASE UNCHANGED vars
  BY <1>0, <1>1 DEF vars, versions
<1>2. ASSUME NEW v \in AnyVersion, NEW url \in {0, v}, NEW sum \in AnyVersion,
             NotifyAvailable(v, url, sum)
      PROVE  Newer' /\ current' >= current
  <2>1. state'.status = "available" /\ state'.url \in {0, v} /\ v > current
    BY <1>2 DEF NotifyAvailable, Offer
  <2>2. \A t \in Tasks :
          \/ task'[t] = task[t]
          \/ task'[t].pc = "check" /\ task'[t].url = task[t].url
    BY <1>2, Notified
  <2>3. \A t \in Tasks : task'[t].url = task[t].url
    BY <2>2
  <2>4. \A t \in Tasks : task'[t].pc = "swap" => task'[t].file = task[t].file /\ task[t].pc = "swap"
    BY <2>2
  <2> QED
    BY <1>0, <1>2, <2>1, <2>2, <2>3, <2>4 DEF NotifyAvailable, versions
<1>3. ASSUME NEW v \in AnyVersion, NEW sum \in AnyVersion, CheckGitHub(v, sum)
      PROVE  Newer' /\ current' >= current
  <2>1. \/ state'.status = "available" /\ state'.url = v /\ v > current
        \/ state'.status = "idle"
    BY <1>0, <1>3 DEF CheckGitHub, Offer, State
  <2> QED
    BY <1>0, <1>3, <2>1 DEF CheckGitHub, versions
<1>5. ASSUME NewProcess, installed' >= current PROVE Newer' /\ current' >= current
  <2>1. \A t \in Tasks : task'[t].pc \in {"none", "ended"}
    BY <1>5, Ended
  <2>2. state'.status = "idle" /\ current' = installed'
    BY <1>5 DEF NewProcess, Idle
  <2>3. installed' \in Nat
    BY DEF TypeOK, AnyVersion, UpdaterAssumption
  <2> QED
    BY <1>5, <2>1, <2>2, <2>3
<1>4. ASSUME NEW t \in Tasks, TaskStep(t) PROVE Newer' /\ current' >= current
  <2> USE DEF Place, Stays, Leaves
  <2>0. ASSUME \A u \in Tasks \ {t} : task'[u] = task[u], task'[t].url = task[t].url,
               task'[t].pc \in {"mark", "sum", "fetch"} => task[t].pc \in {"mark", "sum", "fetch"},
               task'[t].pc # "swap", current' = current, installed' >= current,
               \/ UNCHANGED state \/ state'.status \in {"downloading", "error"}
               \/ state'.status = "ready" /\ state'.path = t /\ task[t].pc = "fetch"
        PROVE  Newer' /\ current' >= current
    <3>1. \A u \in Tasks : task'[u].url = task[u].url
      BY <2>0
    <3>2. \A u \in Tasks : task'[u].pc = "swap" => task[u].pc = "swap" /\ task'[u].file = task[u].file
      BY <2>0
    <3>3. \A u \in Tasks : At(u, "swap")' => task'[task'[u].file].url > current
      BY <1>0, <3>1, <3>2
    <3>4. \A u \in Tasks : task'[u].pc \in {"mark", "sum", "fetch"} => task'[u].url > current
      BY <2>0, <3>1
    <3> QED
      BY <1>0, <2>0, <3>1, <3>3, <3>4
  <2>1. CASE BeginDownload(t)
    <3>1. task[t].pc = "check" /\ UNCHANGED <<state, current, installed>>
      BY <2>1 DEF BeginDownload, versions
    <3>2. CASE state.status = "available" /\ state.url # 0
      <4>1. /\ task'[t].pc = "mark" /\ task'[t].url = state.url
            /\ \A u \in Tasks \ {t} : task'[u] = task[u]
        BY <2>1, <3>2, Places
      <4>2. \A u \in files : task'[u] = task[u]
        BY <1>0, <3>1, <4>1
      <4>3. \A u \in Tasks : task'[u].pc = "swap" => task'[u] = task[u]
        BY <4>1
      <4> QED
        BY <1>0, <3>1, <3>2, <4>1, <4>2, <4>3
    <3>3. CASE ~(state.status = "available" /\ state.url # 0)
      BY <1>0, <2>0, <2>1, <3>1, <3>3, Places
    <3> QED
      BY <3>2, <3>3
  <2>2. CASE MarkDownloading(t)
    <3>1. state'.status = "downloading" /\ UNCHANGED <<current, installed>> /\ task[t].pc = "mark"
      BY <1>0, <2>2 DEF MarkDownloading, State, versions
    <3> QED
      BY <2>0, <2>2, <3>1, Places
  <2>3. CASE ReadChecksum(t)
    <3>1. UNCHANGED <<state, current, installed>> /\ task[t].pc = "sum"
      BY <2>3 DEF ReadChecksum, versions
    <3> QED
      BY <2>0, <2>3, <3>1, Places
  <2>4. CASE DownloadOk(t)
    <3>1. /\ state'.status = "ready" /\ state'.path = t /\ task[t].pc = "fetch"
          /\ UNCHANGED <<current, installed>>
      BY <1>0, <2>4 DEF DownloadOk, State, versions
    <3> QED
      BY <2>0, <2>4, <3>1, Places
  <2>5. CASE DownloadFails(t)
    <3>1. state'.status = "error" /\ UNCHANGED <<current, installed>>
      BY <1>0, <2>5 DEF DownloadFails, State, versions
    <3> QED
      BY <2>0, <2>5, <3>1, Places
  <2>6. CASE Recheck(t)
    <3>1. UNCHANGED <<state, current, installed>>
      BY <2>6 DEF Recheck, versions
    <3> QED
      BY <2>0, <2>6, <3>1, Places
  <2>7. CASE BeginApply(t)
    <3>1. task[t].pc = "apply" /\ UNCHANGED <<current, installed>>
      BY <2>7 DEF BeginApply, versions
    <3>2. CASE state.status = "ready" /\ state.path # NoFile
      <4>1. /\ task'[t].pc = "swap" /\ task'[t].file = state.path /\ task'[t].url = task[t].url
            /\ \A u \in Tasks \ {t} : task'[u] = task[u]
        BY <2>7, <3>2, Places
      <4>2. state'.status = "applying"
        BY <1>0, <2>7, <3>2 DEF BeginApply, State
      <4>3. \A u \in Tasks : task'[u].url = task[u].url
        BY <4>1
      <4>4. \A u \in Tasks : task'[u].pc = "swap" => task'[task'[u].file].url > current
        BY <1>0, <3>2, <4>1, <4>3
      <4> QED
        BY <1>0, <3>1, <4>1, <4>2, <4>3, <4>4
    <3>3. CASE ~(state.status = "ready" /\ state.path # NoFile)
      <4>1. UNCHANGED state
        BY <2>7, <3>3 DEF BeginApply
      <4> QED
        BY <2>0, <2>7, <3>1, <3>3, <4>1, Places
    <3> QED
      BY <3>2, <3>3
  <2>8. CASE SwapFails(t)
    <3>1. state'.status = "error" /\ current' = current /\ task[t].pc = "swap"
      BY <1>0, <2>8 DEF SwapFails, State
    <3>2. installed' >= current
      BY <1>0, <2>8 DEF SwapFails
    <3> QED
      BY <2>0, <2>8, <3>1, <3>2, Places
  <2>9. CASE SwapOk(t)
    <3>1. installed' > current
      BY <2>9 DEF SwapOk
    <3> QED
      BY <1>0, <1>5, <2>9, <3>1 DEF SwapOk
  <2> QED
    BY <1>4, <2>1, <2>2, <2>3, <2>4, <2>5, <2>6, <2>7, <2>8, <2>9 DEF TaskStep
<1>6. CASE Restart
  BY <1>0, <1>5, <1>6 DEF Restart
<1>7. CASE ChangeSettings
  BY <1>0, <1>7 DEF ChangeSettings, versions
<1> QED
  BY <1>1, <1>2, <1>3, <1>4, <1>6, <1>7 DEF Next, AnyVersion

-----------------------------------------------------------------------------
UpdaterInv == TypeOK /\ Started /\ Claims /\ Newer

\* The parts together are inductive.
LEMMA UpdaterStep ==
    ASSUME UpdaterAssumption
    PROVE  UpdaterInv /\ [Next]_vars => UpdaterInv' /\ current' >= current
  BY TypesStep, ClaimsStep, NewerStep DEF UpdaterInv

\* The invariant holds in every reachable state.
LEMMA Invariance == ASSUME UpdaterAssumption PROVE Spec => []UpdaterInv
<1>1. Init => UpdaterInv
  BY TypesInit, ClaimsInit, NewerInit DEF UpdaterInv
<1>2. UpdaterInv /\ [Next]_vars => UpdaterInv'
  BY UpdaterStep
<1> QED
  BY <1>1, <1>2, PTL DEF Spec

\* The state and the goroutines have their types, and a state that offers,
\* downloads or applies has a version.
THEOREM TypeCorrect == ASSUME UpdaterAssumption PROVE Spec => []TypeOK
<1>1. UpdaterInv => TypeOK
  BY DEF UpdaterInv
<1> QED
  BY <1>1, Invariance, PTL

\* "downloading" and "applying" have a goroutine that does so, in any
\* interleaving of notifications, checks, downloads and failures.
THEOREM StatusIsWorkedOn == ASSUME UpdaterAssumption PROVE Spec => []StatusHasTask
<1>1. UpdaterInv => StatusHasTask
  BY DEF UpdaterInv, Claims
<1> QED
  BY <1>1, Invariance, PTL

\* A "ready" update has its file.
THEOREM ReadyHasFile == ASSUME UpdaterAssumption PROVE Spec => []ReadyFileExists
<1>1. UpdaterInv => ReadyFileExists
  BY DEF UpdaterInv, Claims
<1> QED
  BY <1>1, Invariance, PTL

\* No two goroutines apply one file, and none a file that is gone.
THEOREM FilesAppliedOnce == ASSUME UpdaterAssumption PROVE Spec => []AppliedOnce
<1>1. UpdaterInv => AppliedOnce
  BY DEF UpdaterInv, Claims
<1> QED
  BY <1>1, Invariance, PTL

\* The version that runs is never replaced by an older one.
THEOREM VersionsGrow == ASSUME UpdaterAssumption PROVE Spec => NeverDowngrades
<1>1. UpdaterInv /\ UpdaterInv' /\ [Next]_vars => [current' >= current]_vars
  BY UpdaterStep
<1> QED
  BY <1>1, Invariance, PTL DEF Spec, NeverDowngrades
=============================================================================
