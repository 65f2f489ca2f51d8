----------------------------- MODULE SelfUpdate -----------------------------
(***************************************************************************)
(* The replacement of the executable (internal/updater/selfupdate_unix.go, *)
(* selfupdate_windows.go), called by Apply: names of files are entries of  *)
(* a directory that point to inodes, since a rename moves a file while a   *)
(* goroutine may still be writing it.  Nothing keeps two calls apart, for  *)
(* a release announced while one is applied starts another.  The process   *)
(* may end between any two steps.                                          *)
(***************************************************************************)
EXTENDS Naturals

CONSTANTS
    Platforms,     \* of the machines considered: "unix", "windows"
    Appliers,      \* goroutines that call Apply
    Releases,      \* versions of the program
    Inodes,        \* of the file system; enough of them bounds nothing
    SameVolume,    \* the temporary directory is on the executable's volume
    None           \* no inode, no release

ASSUME SelfUpdateAssumption ==
    /\ Platforms \subseteq {"unix", "windows"}
    /\ SameVolume \in BOOLEAN
    /\ None \notin Inodes /\ None \notin Releases
    /\ Appliers \cap {"exe", "old", "staged"} = {}

VARIABLES
    platform,      \* of this machine
    dir,           \* entries: the executable, .old, the staged copy, downloads
    content,       \* per inode, the release it holds and whether all of it
    running,       \* the inode the process was started from
    pc,            \* per goroutine, where it stands
    fd,            \* per goroutine, the inode it has open for writing
    mixed,         \* inodes that several goroutines have had open at once
    contended      \* inodes staged while another goroutine was staging (history)

vars == <<platform, dir, content, running, pc, fd, mixed, contended>>

Paths == {"exe", "old", "staged"} \cup Appliers

TypeOK ==
    /\ platform \in Platforms
    /\ dir \in [Paths -> Inodes \cup {None}]
    /\ content \in [Inodes -> [rel : Releases \cup {None}, whole : BOOLEAN]]
    /\ running \in Inodes \cup {None}
    /\ pc \in [Appliers -> {"idle", "chmod", "rename", "stage", "copy", "unlink", "swap", "exec",
                           "clear", "away", "place", "restore", "spawn", "cleanup"}]
    /\ fd \in [Appliers -> Inodes \cup {None}]
    /\ \A g \in Appliers : pc[g] = "copy" <=> fd[g] # None
    /\ mixed \subseteq Inodes /\ contended \subseteq Inodes

Init ==
    /\ platform \in Platforms
    /\ \E i \in Inodes, r \in Releases :
           /\ dir = [p \in Paths |-> IF p = "exe" THEN i ELSE None]
           /\ content = [j \in Inodes |-> IF j = i THEN [rel |-> r, whole |-> TRUE]
                                          ELSE [rel |-> None, whole |-> FALSE]]
           /\ running = i
           /\ pc = [g \in Appliers |-> "idle"] /\ fd = [g \in Appliers |-> None]
           /\ mixed = {} /\ contended = {}

-----------------------------------------------------------------------------
Up == running # None
At(g, p) == Up /\ pc[g] = p
Goto(g, p) == pc' = [pc EXCEPT ![g] = p]

Linked == {dir[p] : p \in Paths}
Writers(i) == {g \in Appliers : fd[g] = i}
Unused == {i \in Inodes : i \notin Linked /\ Writers(i) = {} /\ i # running}

\* Rename entry p to q, replacing what q pointed to.
Renamed(p, q) == [dir EXCEPT ![q] = dir[p], ![p] = None]

\* An error of any call ends selfUpdate; Apply then removes the download.
Fail(g) == Goto(g, "cleanup") /\ UNCHANGED <<platform, dir, content, running, fd, mixed, contended>>

\* Apply, with a file that was downloaded and verified.
Begin(g) ==
    /\ At(g, "idle")
    /\ \E i \in Unused, r \in Releases :
          /\ content' = [content EXCEPT ![i] = [rel |-> r, whole |-> TRUE]]
          /\ dir' = [dir EXCEPT ![g] = i]
          /\ mixed' = mixed \ {i} /\ contended' = contended \ {i}
    /\ Goto(g, IF platform = "unix" THEN "chmod" ELSE "clear")
    /\ UNCHANGED <<platform, running, fd>>

Cleanup(g) ==
    /\ At(g, "cleanup")
    /\ dir' = [dir EXCEPT ![g] = None]
    /\ Goto(g, "idle")
    /\ UNCHANGED <<platform, content, running, fd, mixed, contended>>

-----------------------------------------------------------------------------
(* Unix.                                                                   *)

Chmod(g) ==
    /\ At(g, "chmod")
    /\ Goto(g, "rename")
    /\ UNCHANGED <<platform, dir, content, running, fd, mixed, contended>>

ChmodFails(g) == At(g, "chmod") /\ Fail(g)

Rename(g) ==
    /\ At(g, "rename") /\ SameVolume /\ dir[g] # None
    /\ dir' = Renamed(g, "exe")
    /\ Goto(g, "exec")
    /\ UNCHANGED <<platform, content, running, fd, mixed, contended>>

RenameFails(g) ==
    /\ At(g, "rename")
    /\ Goto(g, "stage")
    /\ UNCHANGED <<platform, dir, content, running, fd, mixed, contended>>

\* Mutant: the download is copied over the executable itself.
Stage_InPlace(g) ==
    /\ At(g, "stage") /\ dir[g] # None
    /\ content' = [content EXCEPT ![dir["exe"]] = [rel |-> content[dir[g]].rel, whole |-> FALSE]]
    /\ fd' = [fd EXCEPT ![g] = dir["exe"]]
    /\ Goto(g, "copy")
    /\ UNCHANGED <<platform, dir, running, mixed, contended>>

\* The goroutines between opening the staged file and renaming it.
Staging == {g \in Appliers : pc[g] \in {"copy", "unlink", "swap"}}

\* copyFile opens the staged file, and truncates it if there is one, even one
\* that another goroutine has open or is about to rename.
Stage(g) ==
    /\ At(g, "stage") /\ dir[g] # None
    /\ \E i \in IF dir["staged"] # None THEN {dir["staged"]} ELSE Unused :
          /\ dir' = [dir EXCEPT !["staged"] = i]
          /\ content' = [content EXCEPT ![i] = [rel |-> content[dir[g]].rel, whole |-> FALSE]]
          /\ mixed' = IF Writers(i) = {} THEN mixed \ {i} ELSE mixed \cup {i}
          /\ contended' = IF Staging = {} THEN contended \ {i} ELSE contended \cup {i}
          /\ fd' = [fd EXCEPT ![g] = i]
    /\ Goto(g, "copy")
    /\ UNCHANGED <<platform, running>>

StageFails(g) == At(g, "stage") /\ Fail(g)

\* copyFile closes the staged file, which it does after an error as well.
Close(g, next) ==
    /\ fd' = [fd EXCEPT ![g] = None]
    /\ Goto(g, next)
    /\ UNCHANGED <<platform, dir, running, mixed, contended>>

\* The copy ends.  Bytes of another writer may be before or behind its own.
Copy(g) ==
    /\ At(g, "copy")
    /\ \E whole \in IF Writers(fd[g]) # {g} THEN {FALSE}
                    ELSE IF fd[g] \in mixed THEN BOOLEAN ELSE {TRUE} :
          content' = [content EXCEPT ![fd[g]] = [rel |-> content[fd[g]].rel, whole |-> whole]]
    /\ Close(g, "unlink")

\* Mutant: an error of the copy goes unnoticed.
CopyFails_Unnoticed(g) == At(g, "copy") /\ Close(g, "unlink") /\ UNCHANGED content

CopyFails(g) == At(g, "copy") /\ Close(g, "cleanup") /\ UNCHANGED content

Unlink(g) ==
    /\ At(g, "unlink")
    /\ dir' = [dir EXCEPT ![g] = None]
    /\ Goto(g, "swap")
    /\ UNCHANGED <<platform, content, running, fd, mixed, contended>>

\* The staged file takes the executable's name, unless another goroutine has
\* renamed it before.
Swap(g) ==
    /\ At(g, "swap") /\ dir["staged"] # None
    /\ dir' = Renamed("staged", "exe")
    /\ Goto(g, "exec")
    /\ UNCHANGED <<platform, content, running, fd, mixed, contended>>

SwapFails(g) ==
    /\ At(g, "swap")
    /\ dir' = [dir EXCEPT !["staged"] = None]
    /\ Goto(g, "cleanup")
    /\ UNCHANGED <<platform, content, running, fd, mixed, contended>>

\* The process is replaced, and with it every goroutine.
Started(i) ==
    /\ running' = i
    /\ pc' = [g \in Appliers |-> "idle"] /\ fd' = [g \in Appliers |-> None]
    /\ UNCHANGED <<platform, dir, content, mixed, contended>>

\* A file that is open for writing cannot be executed.
Startable == dir["exe"] # None /\ content[dir["exe"]].whole /\ Writers(dir["exe"]) = {}

Exec(g) == At(g, "exec") /\ Startable /\ Started(dir["exe"])
ExecFails(g) == At(g, "exec") /\ Fail(g)

-----------------------------------------------------------------------------
(* Windows: a file that is being executed can be renamed, but neither      *)
(* deleted nor replaced.                                                   *)

InUse(p) == dir[p] # None /\ dir[p] = running

ClearOld(g) ==
    /\ At(g, "clear")
    /\ dir' = IF InUse("old") THEN dir ELSE [dir EXCEPT !["old"] = None]
    /\ Goto(g, "away")
    /\ UNCHANGED <<platform, content, running, fd, mixed, contended>>

MoveAway(g) ==
    /\ At(g, "away") /\ dir["exe"] # None /\ ~InUse("old")
    /\ dir' = Renamed("exe", "old")
    /\ Goto(g, "place")
    /\ UNCHANGED <<platform, content, running, fd, mixed, contended>>

MoveAwayFails(g) == At(g, "away") /\ Fail(g)

Place(g) ==
    /\ At(g, "place") /\ SameVolume /\ dir[g] # None /\ ~InUse("exe")
    /\ dir' = Renamed(g, "exe")
    /\ Goto(g, "spawn")
    /\ UNCHANGED <<platform, content, running, fd, mixed, contended>>

PlaceFails(g) ==
    /\ At(g, "place")
    /\ Goto(g, "restore")
    /\ UNCHANGED <<platform, dir, content, running, fd, mixed, contended>>

\* Mutant: the moved executable is deleted instead of restored.
Restore_Deletes(g) ==
    /\ At(g, "restore") /\ dir["old"] # None
    /\ dir' = [dir EXCEPT !["old"] = None]
    /\ Goto(g, "cleanup")
    /\ UNCHANGED <<platform, content, running, fd, mixed, contended>>

Restore(g) ==
    /\ At(g, "restore") /\ dir["old"] # None /\ ~InUse("exe")
    /\ dir' = Renamed("old", "exe")
    /\ Goto(g, "cleanup")
    /\ UNCHANGED <<platform, content, running, fd, mixed, contended>>

RestoreFails(g) == At(g, "restore") /\ Fail(g)

\* The new process starts and the old one exits.
Spawn(g) == At(g, "spawn") /\ Startable /\ Started(dir["exe"])
SpawnFails(g) == At(g, "spawn") /\ Fail(g)

-----------------------------------------------------------------------------
Crash ==
    /\ Up
    /\ running' = None
    /\ pc' = [g \in Appliers |-> "idle"] /\ fd' = [g \in Appliers |-> None]
    /\ UNCHANGED <<platform, dir, content, mixed, contended>>

\* The service manager starts what it finds under the executable's name.
Restart == ~Up /\ Startable /\ Started(dir["exe"])

Unstartable == ~Up /\ ~Startable /\ UNCHANGED vars

Unix(g) ==
    \/ Chmod(g) \/ ChmodFails(g) \/ Rename(g) \/ RenameFails(g) \/ Stage(g) \/ StageFails(g)
    \/ Copy(g) \/ CopyFails(g) \/ Unlink(g) \/ Swap(g) \/ SwapFails(g) \/ Exec(g) \/ ExecFails(g)

Windows(g) ==
    \/ ClearOld(g) \/ MoveAway(g) \/ MoveAwayFails(g) \/ Place(g) \/ PlaceFails(g)
    \/ Restore(g) \/ RestoreFails(g) \/ Spawn(g) \/ SpawnFails(g)

Next ==
    \/ \E g \in Appliers : Begin(g) \/ Cleanup(g) \/ Unix(g) \/ Windows(g)
    \/ Crash \/ Restart \/ Unstartable

Spec == Init /\ [][Next]_vars

-----------------------------------------------------------------------------
Whole(p) == dir[p] # None /\ content[dir[p]].whole

\* selfupdate_unix.go:33: "rename swaps the directory entry atomically":
\* whenever the process ends, a complete executable is there to be started.  An
\* incomplete one can only be a file that two goroutines have staged at once.
ExecutableWhole ==
    platform = "unix" => dir["exe"] # None /\ (Whole("exe") \/ dir["exe"] \in contended)

\* On Windows the executable may be missing, but then what it was is in .old,
\* also when several goroutines move files at once.
Recoverable == platform = "windows" => Whole("exe") \/ Whole("old")

\* As a refinement: the program that is started, or can be put back, changes in
\* one step, and only to one that an entry beside it held; it is anything just
\* while the executable is a file that two goroutines have staged at once.
Program ==
    CASE Whole("exe") -> content[dir["exe"]].rel
      [] ~Whole("exe") /\ platform = "windows" /\ Whole("old") -> content[dir["old"]].rel
      [] OTHER -> None
Beside == {content[dir[p]].rel : p \in {q \in Paths \ {"exe"} : dir[q] # None}}
Spoilt == platform = "unix" /\ dir["exe"] \in contended

Install == INSTANCE Installed
           WITH installed <- Program, downloads <- Beside, spoilt <- Spoilt
IsInstalled == Install!Spec
=============================================================================
