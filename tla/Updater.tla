------------------------------- MODULE Updater -------------------------------
(***************************************************************************)
(* The self-updater (internal/updater).  Its state is a record that every  *)
(* caller reads and writes under a lock, one critical section at a time:   *)
(* the cloud's update notification, which may start a goroutine that       *)
(* downloads and applies, the check of the GitHub releases, run by a timer *)
(* and by the web interface, and those goroutines.                         *)
(*                                                                         *)
(* A version stands for its release: its number, the URL it is downloaded  *)
(* from and its checksum; 0 is an empty URL or checksum and, as a number,  *)
(* the version first installed.                                            *)
(***************************************************************************)
EXTENDS Naturals, FiniteSets

CONSTANTS
    Versions,      \* releases
    Tasks,         \* bound: goroutines started by update notifications
    NoFile         \* an empty DownloadPath

ASSUME UpdaterAssumption ==
    /\ Versions \subseteq Nat \ {0}
    /\ NoFile \notin Tasks

VARIABLES
    state,         \* Updater.state
    task,          \* the goroutines of Download and DownloadAndApply
    files,         \* downloaded files that exist, each named by its task
    current,       \* the version that runs
    installed,     \* the version of the executable on disk
    mode,          \* setting auto_apply_mode
    remote         \* setting allow_remote_updates

settings == <<mode, remote>>
versions == <<current, installed>>
vars == <<state, task, files, versions, settings>>

AnyVersion == Versions \cup {0}

\* Where a goroutine stands: "check" before Download reads the state, "mark",
\* "sum" and "fetch" inside it, "recheck" and "apply" before and in Apply,
\* "swap" in selfUpdate.
TypeOK ==
    /\ state \in [status : {"idle", "available", "downloading", "ready",
                            "applying", "error"},
                  version : AnyVersion, url : AnyVersion, sum : AnyVersion,
                  path : Tasks \cup {NoFile}]
    /\ state.status \notin {"idle", "error"} => state.version \in Versions
    /\ task \in [Tasks -> [pc : {"none", "check", "mark", "sum", "fetch",
                                 "recheck", "apply", "swap", "ended"},
                           url : AnyVersion, sum : AnyVersion,
                           apply : BOOLEAN, file : Tasks \cup {NoFile}]]
    /\ files \in SUBSET Tasks
    /\ current \in AnyVersion /\ installed \in AnyVersion
    /\ mode \in {"auto", "download", "manual"}
    /\ remote \in BOOLEAN

Idle == [status |-> "idle", version |-> 0, url |-> 0, sum |-> 0, path |-> NoFile]
Unused == [pc |-> "none", url |-> 0, sum |-> 0, apply |-> FALSE, file |-> NoFile]

Init ==
    /\ state = Idle
    /\ task = [t \in Tasks |-> Unused]
    /\ files = {}
    /\ current = 0 /\ installed = 0
    /\ mode \in {"auto", "download", "manual"} /\ remote \in BOOLEAN

-----------------------------------------------------------------------------
Offer(v, url, sum) == [status |-> "available", version |-> v, url |-> url,
                       sum |-> sum, path |-> NoFile]

At(t, pc) == task[t].pc = pc

\* The goroutine of t ends, leaving nothing but its file.
Over(t) == [pc |-> "ended", url |-> task[t].url, sum |-> 0, apply |-> FALSE, file |-> NoFile]
Ends(t) == [task EXCEPT ![t] = Over(t)]

\* Mutant: a notification is taken whatever its version.
NotifyAvailable_AnyVersion(v, url, sum) ==
    /\ remote
    /\ state' = Offer(v, url, sum)
    /\ IF mode = "manual" THEN UNCHANGED task
       ELSE \E t \in Tasks :
               /\ At(t, "none")
               /\ task' = [task EXCEPT ![t].pc = "check", ![t].apply = (mode = "auto")]
    /\ UNCHANGED <<files, versions, settings>>

\* An older version and a push while remote updates are off change nothing.
NotifyAvailable(v, url, sum) ==
    /\ remote /\ v > current
    /\ state' = Offer(v, url, sum)
    /\ IF mode = "manual" THEN UNCHANGED task
       ELSE \E t \in Tasks :
               /\ At(t, "none")
               /\ task' = [task EXCEPT ![t].pc = "check", ![t].apply = (mode = "auto")]
    /\ UNCHANGED <<files, versions, settings>>

\* The answer of GitHub may be as old as it likes: the timer looked at the
\* status before it asked, the web interface does not look at all.
CheckGitHub(v, sum) ==
    /\ state' = IF v > current THEN Offer(v, v, sum)
                ELSE [state EXCEPT !.status = "idle"]
    /\ UNCHANGED <<task, files, versions, settings>>

\* After Download, DownloadAndApply goes on to look at the status.
AfterDownload(t) ==
    IF task[t].apply THEN [task EXCEPT ![t].pc = "recheck"] ELSE Ends(t)

BeginDownload(t) ==
    /\ At(t, "check")
    /\ task' = IF state.status = "available" /\ state.url # 0
               THEN [task EXCEPT ![t].pc = "mark", ![t].url = state.url]
               ELSE AfterDownload(t)
    /\ UNCHANGED <<state, files, versions, settings>>

MarkDownloading(t) ==
    /\ At(t, "mark")
    /\ state' = [state EXCEPT !.status = "downloading"]
    /\ task' = [task EXCEPT ![t].pc = "sum"]
    /\ UNCHANGED <<files, versions, settings>>

ReadChecksum(t) ==
    /\ At(t, "sum")
    /\ task' = [task EXCEPT ![t].pc = "fetch", ![t].sum = state.sum]
    /\ UNCHANGED <<state, files, versions, settings>>

\* downloadFile succeeds: without a checksum, or with that of its URL.
DownloadOk(t) ==
    /\ At(t, "fetch") /\ task[t].sum \in {0, task[t].url}
    /\ files' = files \cup {t}
    /\ state' = [state EXCEPT !.status = "ready", !.path = t]
    /\ task' = AfterDownload(t)
    /\ UNCHANGED <<versions, settings>>

\* Mutant: a failed download is only logged.
DownloadFails_Silent(t) ==
    /\ At(t, "fetch")
    /\ task' = AfterDownload(t)
    /\ UNCHANGED <<state, files, versions, settings>>

DownloadFails(t) ==
    /\ At(t, "fetch")
    /\ state' = [state EXCEPT !.status = "error"]
    /\ task' = AfterDownload(t)
    /\ UNCHANGED <<files, versions, settings>>

Recheck(t) ==
    /\ At(t, "recheck")
    /\ task' = IF state.status = "ready" THEN [task EXCEPT ![t].pc = "apply"]
               ELSE Ends(t)
    /\ UNCHANGED <<state, files, versions, settings>>

\* Mutant: Apply relies on the status its caller has just looked at.
BeginApply_NoCheck(t) ==
    /\ At(t, "apply")
    /\ IF state.path # NoFile
       THEN /\ state' = [state EXCEPT !.status = "applying"]
            /\ task' = [task EXCEPT ![t].pc = "swap", ![t].file = state.path]
       ELSE UNCHANGED state /\ task' = Ends(t)
    /\ UNCHANGED <<files, versions, settings>>

BeginApply(t) ==
    /\ At(t, "apply")
    /\ IF state.status = "ready" /\ state.path # NoFile
       THEN /\ state' = [state EXCEPT !.status = "applying"]
            /\ task' = [task EXCEPT ![t].pc = "swap", ![t].file = state.path]
       ELSE UNCHANGED state /\ task' = Ends(t)
    /\ UNCHANGED <<files, versions, settings>>

\* Mutant: a failed update is offered again, without its file.
SwapFails_Retry(t) ==
    /\ At(t, "swap")
    /\ files' = files \ {task[t].file}
    /\ state' = [state EXCEPT !.status = "ready"]
    /\ task' = Ends(t)
    /\ UNCHANGED <<versions, settings>>

\* selfUpdate fails, before or after it has replaced the executable (then the
\* process could not be started again); the file is gone either way.
SwapFails(t) ==
    /\ At(t, "swap")
    /\ installed' \in {installed} \cup
                      {task[f].url : f \in {task[t].file} \cap files}
    /\ files' = files \ {task[t].file}
    /\ state' = [state EXCEPT !.status = "error"]
    /\ task' = Ends(t)
    /\ UNCHANGED <<current, settings>>

\* A new process: nothing but files and settings outlives the old one.
NewProcess ==
    /\ current' = installed'
    /\ state' = Idle
    /\ task' = [t \in Tasks |-> IF At(t, "none") THEN task[t] ELSE Over(t)]
    /\ UNCHANGED settings

SwapOk(t) ==
    /\ At(t, "swap") /\ task[t].file \in files
    /\ installed' = task[task[t].file].url
    /\ files' = files \ {task[t].file}
    /\ NewProcess

\* The service is restarted, by the cloud, the service manager or a crash.
Restart ==
    /\ UNCHANGED <<installed, files>>
    /\ NewProcess

\* handleSetMode, handleToggleRemote.
ChangeSettings ==
    /\ mode' \in {"auto", "download", "manual"} /\ remote' \in BOOLEAN
    /\ UNCHANGED <<state, task, files, versions>>

TaskStep(t) ==
    \/ BeginDownload(t) \/ MarkDownloading(t) \/ ReadChecksum(t)
    \/ DownloadOk(t) \/ DownloadFails(t) \/ Recheck(t) \/ BeginApply(t)
    \/ SwapFails(t) \/ SwapOk(t)

Next ==
    \/ \E v \in AnyVersion, linked, summed \in BOOLEAN :
          NotifyAvailable(v, IF linked THEN v ELSE 0, IF summed THEN v ELSE 0)
    \/ \E v \in AnyVersion, summed \in BOOLEAN : CheckGitHub(v, IF summed THEN v ELSE 0)
    \/ \E t \in Tasks : TaskStep(t)
    \/ Restart \/ ChangeSettings

Spec == Init /\ [][Next]_vars

-----------------------------------------------------------------------------
\* The status never promises work that no goroutine does: however downloads,
\* notifications, checks and failures interleave, "downloading" has a
\* goroutine that downloads and will say how it went, "applying" one that
\* applies.  The timer only asks GitHub again when the status is "idle".
StatusHasTask ==
    /\ state.status = "downloading" => \E t \in Tasks : task[t].pc \in {"sum", "fetch"}
    /\ state.status = "applying" => \E t \in Tasks : At(t, "swap")

\* A "ready" update has its file: no failed attempt has deleted it.
ReadyFileExists == state.status = "ready" => state.path \in files

\* selfUpdate works on a file that exists, and no other call has the same one,
\* although Recheck and BeginApply are separate critical sections.
AppliedOnce ==
    \A t \in Tasks : At(t, "swap") =>
        /\ task[t].file \in files
        /\ \A u \in Tasks \ {t} : At(u, "swap") => task[u].file # task[t].file

\* The running version is never replaced by an older one, whichever of the
\* offers that overwrite each other ends up applied.
NeverDowngrades == [][current' >= current]_vars
=============================================================================
