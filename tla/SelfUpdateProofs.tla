-------------------------- MODULE SelfUpdateProofs --------------------------
(***************************************************************************)
(* Theorems about SelfUpdate, for any number of goroutines in Apply: on    *)
(* Unix the executable is complete at every moment, unless it is a file    *)
(* that several of them staged at once; on Windows what the program was    *)
(* can be recovered; and on both it changes in one step.                   *)
(***************************************************************************)
EXTENDS SelfUpdate, TLAPS

Contents == [Inodes -> [rel : Releases \cup {None}, whole : BOOLEAN]]

-----------------------------------------------------------------------------
(* Types, for any number of goroutines on both platforms.                  *)

Pcs == {"idle", "chmod", "rename", "stage", "copy", "unlink", "swap", "exec",
        "clear", "away", "place", "restore", "spawn", "cleanup"}

\* The invariant holds in the first states and after every step.
LEMMA TypeInit == ASSUME SelfUpdateAssumption PROVE Init => TypeOK
  BY DEF Init, SelfUpdateAssumption, TypeOK, Paths

\* Every step of a goroutine, a crash and a restart keep the types.
LEMMA TypeStep == ASSUME SelfUpdateAssumption, TypeOK, [Next]_vars PROVE TypeOK'
<1> USE DEF SelfUpdateAssumption, TypeOK, Paths, Up
<1>1. CASE UNCHANGED vars
  BY <1>1 DEF vars
<1>2. ASSUME NEW g \in Appliers, NEW p \in Pcs, Goto(g, p)
      PROVE  /\ pc' \in [Appliers -> Pcs] /\ pc'[g] = p
             /\ \A h \in Appliers \ {g} : pc'[h] = pc[h]
  BY <1>2 DEF Goto, Pcs
<1>3. ASSUME NEW g \in Appliers, NEW p \in Pcs \ {"copy"}, Goto(g, p), pc[g] # "copy",
             UNCHANGED <<platform, running, fd>>,
             mixed' \subseteq Inodes, contended' \subseteq Inodes,
             dir' \in [Paths -> Inodes \cup {None}],
             content' \in [Inodes -> [rel : Releases \cup {None}, whole : BOOLEAN]]
      PROVE  TypeOK'
  BY <1>2, <1>3 DEF Pcs
<1>4. ASSUME NEW g \in Appliers, At(g, pc[g]), pc[g] # "copy", Fail(g) PROVE TypeOK'
  BY <1>3, <1>4 DEF Fail, Pcs
<1>5. ASSUME NEW g \in Appliers, Begin(g) PROVE TypeOK'
  BY <1>3, <1>5 DEF Begin, At, Unused, Pcs
<1>6. ASSUME NEW g \in Appliers, Cleanup(g) PROVE TypeOK'
  BY <1>3, <1>6 DEF Cleanup, At, Pcs
<1>8. ASSUME Started(dir["exe"]), Startable PROVE TypeOK'
  BY <1>8 DEF Started, Startable
<1>9. ASSUME NEW g \in Appliers, Unix(g) PROVE TypeOK'
  <2>1. CASE Chmod(g)
    BY <1>3, <2>1 DEF Chmod, At, Pcs
  <2>2. CASE Rename(g)
    BY <1>3, <2>2 DEF Rename, Renamed, At, Pcs
  <2>3. CASE RenameFails(g)
    BY <1>3, <2>3 DEF RenameFails, At, Pcs
  <2>4. CASE Stage(g)
    <3>1. PICK i \in IF dir["staged"] # None THEN {dir["staged"]} ELSE Unused :
            /\ dir' = [dir EXCEPT !["staged"] = i]
            /\ content' = [content EXCEPT ![i] = [rel |-> content[dir[g]].rel, whole |-> FALSE]]
            /\ mixed' = IF Writers(i) = {} THEN mixed \ {i} ELSE mixed \cup {i}
            /\ contended' = IF Staging = {} THEN contended \ {i} ELSE contended \cup {i}
            /\ fd' = [fd EXCEPT ![g] = i]
      BY <2>4 DEF Stage
    <3>2. i \in Inodes /\ content[dir[g]].rel \in Releases \cup {None}
      BY <2>4, <3>1 DEF Stage, Unused
    <3>3. pc' \in [Appliers -> Pcs] /\ pc'[g] = "copy" /\ \A h \in Appliers \ {g} : pc'[h] = pc[h]
      BY <1>2, <2>4 DEF Stage, Pcs
    <3>4. content' \in [Inodes -> [rel : Releases \cup {None}, whole : BOOLEAN]]
      BY <3>1, <3>2
    <3>5. fd' \in [Appliers -> Inodes \cup {None}] /\ fd'[g] # None
          /\ \A h \in Appliers \ {g} : fd'[h] = fd[h]
      BY <3>1, <3>2
    <3>6. \A h \in Appliers : pc'[h] = "copy" <=> fd'[h] # None
      BY <3>3, <3>5
    <3>7. mixed' \subseteq Inodes /\ contended' \subseteq Inodes
      BY <3>1, <3>2
    <3> QED
      BY <2>4, <3>1, <3>2, <3>3, <3>4, <3>5, <3>6, <3>7 DEF Stage, Pcs
  <2>5. ASSUME NEW p \in Pcs \ {"copy"}, At(g, "copy"), Close(g, p),
               content' \in [Inodes -> [rel : Releases \cup {None}, whole : BOOLEAN]]
        PROVE  TypeOK'
    BY <1>2, <2>5 DEF Close, Pcs
  <2>6. CASE Copy(g)
    <3>1. fd[g] \in Inodes
      BY <2>6 DEF Copy, At
    <3>2. PICK whole \in BOOLEAN :
            content' = [content EXCEPT ![fd[g]] = [rel |-> content[fd[g]].rel, whole |-> whole]]
      BY <2>6 DEF Copy
    <3>3. content[fd[g]].rel \in Releases \cup {None}
      BY <3>1
    <3>4. [rel |-> content[fd[g]].rel, whole |-> whole] \in [rel : Releases \cup {None}, whole : BOOLEAN]
      BY <3>3
    <3>5. content' \in [Inodes -> [rel : Releases \cup {None}, whole : BOOLEAN]]
      BY <3>2, <3>4
    <3> QED
      BY <2>5, <2>6, <3>5 DEF Copy, Pcs
  <2>7. CASE CopyFails(g)
    BY <2>5, <2>7 DEF CopyFails, Pcs
  <2>8. CASE Unlink(g)
    BY <1>3, <2>8 DEF Unlink, At, Pcs
  <2>9. CASE Swap(g)
    BY <1>3, <2>9 DEF Swap, Renamed, At, Pcs
  <2>10. CASE SwapFails(g)
    BY <1>3, <2>10 DEF SwapFails, At, Pcs
  <2>11. CASE Exec(g)
    BY <1>8, <2>11 DEF Exec
  <2>12. CASE ChmodFails(g) \/ StageFails(g) \/ ExecFails(g)
    BY <1>4, <2>12 DEF ChmodFails, StageFails, ExecFails, At
  <2> QED
    BY <1>9, <2>1, <2>2, <2>3, <2>4, <2>6, <2>7, <2>8, <2>9, <2>10, <2>11, <2>12 DEF Unix
<1>10. ASSUME NEW g \in Appliers, Windows(g) PROVE TypeOK'
  <2>1. CASE ClearOld(g)
    BY <1>3, <2>1 DEF ClearOld, At, Pcs
  <2>2. CASE MoveAway(g)
    BY <1>3, <2>2 DEF MoveAway, Renamed, At, Pcs
  <2>3. CASE Place(g)
    BY <1>3, <2>3 DEF Place, Renamed, At, Pcs
  <2>4. CASE PlaceFails(g)
    BY <1>3, <2>4 DEF PlaceFails, At, Pcs
  <2>5. CASE Restore(g)
    BY <1>3, <2>5 DEF Restore, Renamed, At, Pcs
  <2>6. CASE MoveAwayFails(g) \/ RestoreFails(g) \/ SpawnFails(g)
    BY <1>4, <2>6 DEF MoveAwayFails, RestoreFails, SpawnFails, At
  <2>7. CASE Spawn(g)
    BY <1>8, <2>7 DEF Spawn
  <2> QED
    BY <1>10, <2>1, <2>2, <2>3, <2>4, <2>5, <2>6, <2>7 DEF Windows
<1>11. CASE Crash
  BY <1>11 DEF Crash
<1>12. CASE Restart
  BY <1>8, <1>12 DEF Restart
<1>13. CASE Unstartable
  BY <1>13 DEF Unstartable, vars
<1> QED
  BY <1>1, <1>5, <1>6, <1>9, <1>10, <1>11, <1>12, <1>13 DEF Next

\* Directory, contents and goroutines have their types, and a goroutine has a
\* file open just while it copies.
THEOREM TypeCorrect == ASSUME SelfUpdateAssumption PROVE Spec => []TypeOK
<1>1. TypeOK /\ [Next]_vars => TypeOK'
  BY TypeStep
<1> QED
  BY <1>1, TypeInit, PTL DEF Spec

-----------------------------------------------------------------------------
(* Windows.  Nothing is written there but a download before it is linked,  *)
(* and the process runs from what is the executable or .old.               *)

WindowsPcs == {"idle", "clear", "away", "place", "restore", "spawn", "cleanup"}

WindowsInv ==
    /\ platform = "windows"
    /\ dir \in [Paths -> Inodes \cup {None}]
    /\ pc \in [Appliers -> WindowsPcs]
    /\ content \in Contents
    /\ \A p \in Paths : dir[p] # None => content[dir[p]].whole /\ content[dir[p]].rel \in Releases
    /\ Up => running \in {dir["exe"], dir["old"]}
    /\ dir["exe"] # None \/ dir["old"] # None

\* The invariant holds in the first states: the executable is complete.
LEMMA WindowsInit ==
    ASSUME SelfUpdateAssumption PROVE Init /\ platform = "windows" => WindowsInv
  BY DEF Init, SelfUpdateAssumption, WindowsInv, WindowsPcs, Contents, Paths, Up

\* Every step keeps it: .old is not deleted while the process runs from it,
\* and the executable's name is free or taken by a file that stays in .old.
LEMMA WindowsStep ==
    ASSUME SelfUpdateAssumption, WindowsInv, [Next]_vars
    PROVE  WindowsInv'
<1> USE DEF SelfUpdateAssumption, WindowsInv, Contents, Paths, Up
<1>1. CASE UNCHANGED vars
  BY <1>1 DEF vars
<1>2. ASSUME NEW g \in Appliers, NEW p \in WindowsPcs, Goto(g, p)
      PROVE  pc' \in [Appliers -> WindowsPcs]
  BY <1>2 DEF Goto
<1>3. ASSUME NEW g \in Appliers, Begin(g) PROVE WindowsInv'
  <2>1. pc' \in [Appliers -> WindowsPcs]
    BY <1>2, <1>3 DEF Begin, WindowsPcs
  <2>2. PICK i \in Unused, r \in Releases :
          /\ content' = [content EXCEPT ![i] = [rel |-> r, whole |-> TRUE]]
          /\ dir' = [dir EXCEPT ![g] = i]
    BY <1>3 DEF Begin
  <2>3. i \in Inodes /\ running' = running /\ platform' = platform /\ g \in Paths
    BY <1>3 DEF Unused, Begin
  <2>4. /\ content' \in Contents
        /\ \A j \in Inodes : content[j].whole /\ content[j].rel \in Releases
               => content'[j].whole /\ content'[j].rel \in Releases
    BY <2>2, <2>3
  <2>5. dir' \in [Paths -> Inodes \cup {None}]
    BY <2>2, <2>3
  <2>6. \A p \in Paths : dir'[p] = dir[p] \/ dir'[p] = i
    BY <2>2, <2>3
  <2>7. content'[i].whole /\ content'[i].rel \in Releases
    BY <2>2, <2>3
  <2>8. \A p \in Paths : dir'[p] # None => content'[dir'[p]].whole /\ content'[dir'[p]].rel \in Releases
    BY <2>4, <2>6, <2>7
  <2>9. dir'["exe"] = dir["exe"] /\ dir'["old"] = dir["old"]
    BY <2>2, <2>3
  <2> QED
    BY <2>1, <2>3, <2>4, <2>5, <2>8, <2>9
<1>4. ASSUME NEW g \in Appliers, Cleanup(g) PROVE WindowsInv'
  BY <1>2, <1>4 DEF Cleanup, WindowsPcs
<1>6. ASSUME NEW g \in Appliers, Unix(g) PROVE WindowsInv'
  BY <1>6 DEF Unix, At, WindowsPcs, Chmod, ChmodFails, Rename, RenameFails, Stage, StageFails,
              Copy, CopyFails, Unlink, Swap, SwapFails, Exec, ExecFails
<1>7. ASSUME NEW g \in Appliers, Fail(g) PROVE WindowsInv'
  BY <1>2, <1>7 DEF Fail, WindowsPcs
<1>8. ASSUME Started(dir["exe"]), Startable PROVE WindowsInv'
  BY <1>8 DEF Started, Startable, WindowsPcs
<1>9. ASSUME NEW g \in Appliers, Windows(g) PROVE WindowsInv'
  <2>1. CASE ClearOld(g)
    BY <1>2, <2>1 DEF ClearOld, InUse, At, WindowsPcs
  <2>2. CASE MoveAway(g)
    BY <1>2, <2>2 DEF MoveAway, InUse, At, Renamed, WindowsPcs
  <2>3. CASE Place(g)
    BY <1>2, <2>3 DEF Place, InUse, At, Renamed, WindowsPcs
  <2>4. CASE PlaceFails(g)
    BY <1>2, <2>4 DEF PlaceFails, WindowsPcs
  <2>5. CASE Restore(g)
    BY <1>2, <2>5 DEF Restore, InUse, At, Renamed, WindowsPcs
  <2>6. CASE MoveAwayFails(g) \/ RestoreFails(g) \/ SpawnFails(g)
    BY <1>7, <2>6 DEF MoveAwayFails, RestoreFails, SpawnFails
  <2>7. CASE Spawn(g)
    BY <1>8, <2>7 DEF Spawn
  <2> QED
    BY <1>9, <2>1, <2>2, <2>3, <2>4, <2>5, <2>6, <2>7 DEF Windows
<1>10. CASE Crash
  BY <1>10 DEF Crash, WindowsPcs
<1>11. CASE Restart
  BY <1>8, <1>11 DEF Restart
<1>12. CASE Unstartable
  BY <1>12 DEF Unstartable, vars
<1> QED
  BY <1>1, <1>3, <1>4, <1>6, <1>9, <1>10, <1>11, <1>12 DEF Next

\* No step turns one platform into the other.
LEMMA PlatformStays == ASSUME [Next]_vars PROVE platform' = platform
  BY DEF Next, vars, Begin, Cleanup, Crash, Restart, Started, Unstartable, Fail, Close,
         Unix, Chmod, ChmodFails, Rename, RenameFails, Stage, StageFails, Copy, CopyFails,
         Unlink, Swap, SwapFails, Exec, ExecFails,
         Windows, ClearOld, MoveAway, MoveAwayFails, Place, PlaceFails, Restore, RestoreFails,
         Spawn, SpawnFails

\* Whenever the process ends on Windows, the executable or what it was before
\* is there and complete, however many goroutines move files at once.
THEOREM WindowsRecoverable == ASSUME SelfUpdateAssumption PROVE Spec => []Recoverable
<1>1. Init => WindowsInv \/ platform = "unix"
  BY WindowsInit DEF Init, SelfUpdateAssumption
<1>2. WindowsInv /\ [Next]_vars => WindowsInv'
  BY WindowsStep
<1>3. platform = "unix" /\ [Next]_vars => (platform = "unix")'
  BY PlatformStays
<1>4. WindowsInv \/ platform = "unix" => Recoverable
  BY DEF WindowsInv, Recoverable, Whole, Paths
<1> QED
  BY <1>1, <1>2, <1>3, <1>4, PTL DEF Spec

-----------------------------------------------------------------------------
(* Unix.  No two entries share an inode.  One that was staged by a single  *)
(* goroutine at a time is open in that goroutine only, is complete when    *)
(* it has copied, and is in nobody's hands once it is the executable.      *)

UnixPcs == {"idle", "chmod", "rename", "stage", "copy", "unlink", "swap", "exec", "cleanup"}

UnixTypes ==
    /\ platform = "unix"
    /\ dir \in [Paths -> Inodes \cup {None}]
    /\ content \in Contents
    /\ pc \in [Appliers -> UnixPcs]
    /\ fd \in [Appliers -> Inodes \cup {None}]
    /\ mixed \subseteq contended /\ contended \subseteq Inodes

Released == \A p \in Paths : dir[p] # None => content[dir[p]].rel \in Releases

Apart == \A p, q \in Paths : dir[p] # None /\ dir[p] = dir[q] => p = q

Open == \A g \in Appliers : pc[g] = "copy" <=> fd[g] # None

Sound ==
    \A p \in Paths \ {"staged"} : dir[p] \notin contended \cup {None} =>
        content[dir[p]].whole /\ \A g \in Appliers : fd[g] # dir[p]

StagedSound ==
    dir["staged"] \notin contended \cup {None} => \A g \in Staging :
        /\ \A h \in Staging : h = g
        /\ pc[g] = "copy" => fd[g] = dir["staged"]
        /\ pc[g] # "copy" => content[dir["staged"]].whole

UnixInv ==
    UnixTypes /\ Released /\ Apart /\ Open /\ Sound /\ StagedSound /\ dir["exe"] # None

\* The invariant holds in the first states: only the executable is there.
LEMMA UnixInit ==
    ASSUME SelfUpdateAssumption PROVE Init /\ platform = "unix" => UnixInv
  BY DEF Init, SelfUpdateAssumption, UnixInv, UnixTypes, Released, Apart, Open, Sound, StagedSound,
         Staging, UnixPcs, Contents, Paths

\* A step that changes nothing of what is written, but a goroutine's place and
\* entries that it removes, keeps the invariant.
LEMMA UnixRemoves ==
    ASSUME SelfUpdateAssumption, UnixInv, NEW g \in Appliers, NEW p \in UnixPcs \ {"copy"},
           Goto(g, p), pc[g] # "copy",
           UNCHANGED <<platform, content, fd, mixed, contended>>,
           dir' \in [Paths -> Inodes \cup {None}], dir'["exe"] = dir["exe"],
           \A q \in Paths : dir'[q] \in {dir[q], None},
           \/ p \notin {"unlink", "swap"}
           \/ pc[g] = "unlink" /\ p = "swap"
    PROVE  UnixInv'
<1> USE DEF SelfUpdateAssumption, UnixInv, Contents
<1>1. /\ pc' \in [Appliers -> UnixPcs] /\ pc'[g] = p
      /\ \A h \in Appliers \ {g} : pc'[h] = pc[h]
  BY DEF Goto, UnixTypes
<1>2. UnixTypes' /\ Open'
  BY <1>1 DEF UnixTypes, Open
<1>3. Released' /\ Apart'
  BY DEF Released, Apart, UnixTypes
<1>4. Sound'
  BY DEF Sound, UnixTypes
<1>5. StagedSound'
  <2>1. Staging' \subseteq Staging
    BY <1>1 DEF Staging
  <2>2. \A h \in Staging' : pc'[h] = "copy" <=> pc[h] = "copy"
    BY <1>1 DEF Staging
  <2>3. dir'["staged"] \notin contended' \cup {None} => dir'["staged"] = dir["staged"]
    BY DEF Paths
  <2> QED
    BY <2>1, <2>2, <2>3 DEF StagedSound
<1> QED
  BY <1>2, <1>3, <1>4, <1>5

\* A file that is complete, in nobody's hands or staged by several goroutines
\* takes the executable's name.
LEMMA UnixRenames ==
    ASSUME SelfUpdateAssumption, UnixInv, NEW g \in Appliers, Goto(g, "exec"), pc[g] # "copy",
           UNCHANGED <<platform, content, fd, mixed, contended>>,
           NEW p \in Paths \ {"exe"}, dir[p] # None, dir' = Renamed(p, "exe"),
           dir[p] \notin contended =>
               content[dir[p]].whole /\ \A h \in Appliers : fd[h] # dir[p]
    PROVE  UnixInv'
<1> USE DEF SelfUpdateAssumption, UnixInv, Contents
<1>1. /\ pc' \in [Appliers -> UnixPcs] /\ pc'[g] = "exec"
      /\ \A h \in Appliers \ {g} : pc'[h] = pc[h]
  BY DEF Goto, UnixTypes, UnixPcs
<1>2. "exe" \in Paths /\ "staged" \in Paths
  BY DEF Paths
<1>3. /\ dir' \in [Paths -> Inodes \cup {None}]
      /\ \A q \in Paths : dir'[q] = IF q = "exe" THEN dir[p] ELSE IF q = p THEN None ELSE dir[q]
  BY <1>2 DEF Renamed, UnixTypes
<1>4. UnixTypes' /\ Open'
  BY <1>1, <1>3 DEF UnixTypes, Open
<1>5. Released'
  BY <1>3 DEF Released, UnixTypes
<1>6. Apart'
  BY <1>2, <1>3 DEF Apart, UnixTypes
<1>7. Sound'
  BY <1>3 DEF Sound, UnixTypes
<1>8. StagedSound'
  <2>1. Staging' \subseteq Staging
    BY <1>1 DEF Staging
  <2>2. \A h \in Staging' : pc'[h] = "copy" <=> pc[h] = "copy"
    BY <1>1 DEF Staging
  <2>3. dir'["staged"] \notin contended' \cup {None} => dir'["staged"] = dir["staged"]
    BY <1>2, <1>3
  <2> QED
    BY <2>1, <2>2, <2>3 DEF StagedSound
<1> QED
  BY <1>2, <1>3, <1>4, <1>5, <1>6, <1>7, <1>8

\* With the process every goroutine ends, and with it every open file.
LEMMA UnixEnds ==
    ASSUME SelfUpdateAssumption, UnixInv, UNCHANGED <<platform, dir, content, mixed, contended>>,
           pc' = [g \in Appliers |-> "idle"], fd' = [g \in Appliers |-> None]
    PROVE  UnixInv'
<1> USE DEF SelfUpdateAssumption, UnixInv, Contents
<1>1. UnixTypes' /\ Released' /\ Apart' /\ Open'
  BY DEF UnixTypes, Released, Apart, Open, UnixPcs
<1>2. Sound'
  BY DEF Sound
<1>3. StagedSound'
  <2>1. Staging' = {}
    BY DEF Staging
  <2> QED
    BY <2>1 DEF StagedSound
<1> QED
  BY <1>1, <1>2, <1>3

\* A download gets an inode of its own.
LEMMA UnixBegin ==
    ASSUME SelfUpdateAssumption, UnixInv, NEW g \in Appliers, Begin(g) PROVE UnixInv'
<1> USE DEF SelfUpdateAssumption, UnixInv, Contents
<1>1. PICK i \in Unused, r \in Releases :
        /\ content' = [content EXCEPT ![i] = [rel |-> r, whole |-> TRUE]]
        /\ dir' = [dir EXCEPT ![g] = i]
        /\ mixed' = mixed \ {i} /\ contended' = contended \ {i}
  BY DEF Begin
<1>2. /\ i \in Inodes /\ platform' = platform /\ fd' = fd
      /\ \A p \in Paths : dir[p] # i
      /\ \A h \in Appliers : fd[h] # i
  BY DEF Unused, Linked, Writers, Begin
<1>3. g \in Paths /\ g # "exe" /\ g # "staged" /\ "exe" \in Paths /\ "staged" \in Paths
  BY DEF Paths
<1>4. /\ pc' \in [Appliers -> UnixPcs] /\ pc'[g] = "chmod" /\ pc[g] = "idle"
      /\ \A h \in Appliers \ {g} : pc'[h] = pc[h]
  BY DEF Begin, Goto, At, UnixTypes, UnixPcs
<1>5. /\ dir' \in [Paths -> Inodes \cup {None}]
      /\ \A p \in Paths : dir'[p] = IF p = g THEN i ELSE dir[p]
  BY <1>1, <1>2, <1>3 DEF UnixTypes
<1>6. /\ content' \in Contents
      /\ content'[i].rel \in Releases /\ content'[i].whole
      /\ \A j \in Inodes \ {i} : content'[j] = content[j]
  BY <1>1, <1>2 DEF UnixTypes
<1>7. UnixTypes' /\ Open'
  BY <1>1, <1>2, <1>4, <1>5, <1>6 DEF UnixTypes, Open
<1>8. Released'
  BY <1>2, <1>5, <1>6 DEF Released, UnixTypes
<1>9. Apart'
  BY <1>2, <1>5 DEF Apart
<1>10. Sound'
  BY <1>1, <1>2, <1>5, <1>6 DEF Sound, UnixTypes
<1>11. StagedSound'
  <2>1. Staging' = Staging /\ \A h \in Staging : pc'[h] = pc[h]
    BY <1>4 DEF Staging
  <2>2. dir'["staged"] = dir["staged"] /\ dir["staged"] # i
    BY <1>2, <1>3, <1>5
  <2>3. dir["staged"] # None => content'[dir["staged"]] = content[dir["staged"]]
    BY <1>3, <1>6, <2>2 DEF UnixTypes
  <2> QED
    BY <1>1, <1>2, <2>1, <2>2, <2>3 DEF StagedSound
<1> QED
  BY <1>3, <1>5, <1>7, <1>8, <1>9, <1>10, <1>11

\* The staged file is no other entry, and is contended if others stage too.
LEMMA UnixStage ==
    ASSUME SelfUpdateAssumption, UnixInv, NEW g \in Appliers, Stage(g) PROVE UnixInv'
<1> USE DEF SelfUpdateAssumption, UnixInv, Contents
<1>1. PICK i \in IF dir["staged"] # None THEN {dir["staged"]} ELSE Unused :
        /\ dir' = [dir EXCEPT !["staged"] = i]
        /\ content' = [content EXCEPT ![i] = [rel |-> content[dir[g]].rel, whole |-> FALSE]]
        /\ mixed' = IF Writers(i) = {} THEN mixed \ {i} ELSE mixed \cup {i}
        /\ contended' = IF Staging = {} THEN contended \ {i} ELSE contended \cup {i}
        /\ fd' = [fd EXCEPT ![g] = i]
  BY DEF Stage
<1>2. g \in Paths /\ "exe" \in Paths /\ "staged" \in Paths
  BY DEF Paths
<1>3. i \in Inodes /\ i # None /\ \A p \in Paths : dir[p] = i => p = "staged"
  BY <1>1, <1>2 DEF Unused, Linked, Apart, UnixTypes
<1>4. platform' = platform /\ fd[g] = None /\ pc[g] = "stage" /\ dir[g] # None
  BY DEF Stage, At, Open
<1>5. /\ pc' \in [Appliers -> UnixPcs] /\ pc'[g] = "copy"
      /\ \A h \in Appliers \ {g} : pc'[h] = pc[h]
  BY DEF Stage, Goto, UnixTypes, UnixPcs
<1>6. /\ dir' \in [Paths -> Inodes \cup {None}]
      /\ \A p \in Paths : dir'[p] = IF p = "staged" THEN i ELSE dir[p]
  BY <1>1, <1>2, <1>3 DEF UnixTypes
<1>7. content[dir[g]].rel \in Releases
  BY <1>2, <1>4 DEF Released
<1>8. /\ content' \in Contents /\ content'[i].rel \in Releases
      /\ \A j \in Inodes \ {i} : content'[j] = content[j]
  BY <1>1, <1>3, <1>7 DEF UnixTypes
<1>9. /\ fd' \in [Appliers -> Inodes \cup {None}] /\ fd'[g] = i
      /\ \A h \in Appliers \ {g} : fd'[h] = fd[h]
  BY <1>1, <1>3 DEF UnixTypes
<1>10. Staging = {} => Writers(i) = {}
  BY <1>3 DEF Staging, Writers, Open
<1>11. mixed' \subseteq contended' /\ contended' \subseteq Inodes
  <2>0. mixed \subseteq contended /\ contended \subseteq Inodes
    BY DEF UnixTypes
  <2>1. CASE Staging = {}
    <3>1. mixed' = mixed \ {i} /\ contended' = contended \ {i}
      BY <1>1, <1>10, <2>1
    <3> QED
      BY <2>0, <3>1
  <2>2. CASE Staging # {}
    <3>1. mixed' \subseteq mixed \cup {i} /\ contended' = contended \cup {i}
      BY <1>1, <2>2
    <3> QED
      BY <1>3, <2>0, <3>1
  <2> QED
    BY <2>1, <2>2
<1>12. UnixTypes'
  BY <1>4, <1>5, <1>6, <1>8, <1>9, <1>11 DEF UnixTypes
<1>17. Open'
  BY <1>3, <1>5, <1>9 DEF Open
<1>13. Released'
  BY <1>3, <1>6, <1>8 DEF Released, UnixTypes
<1>14. Apart'
  BY <1>3, <1>6 DEF Apart
<1>15. Sound'
  <2> SUFFICES ASSUME NEW p \in Paths \ {"staged"}, dir'[p] \notin contended' \cup {None}
               PROVE  content'[dir'[p]].whole /\ \A h \in Appliers : fd'[h] # dir'[p]
    BY DEF Sound
  <2>1. dir'[p] = dir[p] /\ dir[p] # i /\ dir[p] \in Inodes
    BY <1>3, <1>6 DEF UnixTypes
  <2>2. dir[p] \notin contended
    BY <1>1, <2>1
  <2>3. content[dir[p]].whole /\ \A h \in Appliers : fd[h] # dir[p]
    BY <2>1, <2>2 DEF Sound
  <2> QED
    BY <1>8, <1>9, <2>1, <2>3
<1>16. StagedSound'
  <2> SUFFICES ASSUME i \notin contended'
               PROVE  \A h \in Staging' : h = g /\ pc'[h] = "copy" /\ fd'[h] = i
    BY <1>2, <1>6 DEF StagedSound
  <2>1. Staging = {}
    BY <1>1
  <2> QED
    BY <1>5, <1>9, <2>1 DEF Staging
<1> QED
  BY <1>2, <1>6, <1>12, <1>13, <1>14, <1>15, <1>16, <1>17

\* A copy ends in a file that is no sound entry but the staged one, which is
\* complete when nobody else has staged meanwhile.
LEMMA UnixCopies ==
    ASSUME SelfUpdateAssumption, UnixInv, NEW g \in Appliers, Copy(g) \/ CopyFails(g)
    PROVE  UnixInv'
<1> USE DEF SelfUpdateAssumption, UnixInv, Contents
<1>1. /\ fd' = [fd EXCEPT ![g] = None] /\ UNCHANGED <<platform, dir, mixed, contended>>
      /\ pc[g] = "copy"
  BY DEF Copy, CopyFails, Close, At
<1>2. /\ pc' \in [Appliers -> UnixPcs] /\ pc'[g] \in {"unlink", "cleanup"}
      /\ \A h \in Appliers \ {g} : pc'[h] = pc[h]
      /\ CopyFails(g) => pc'[g] = "cleanup"
  BY DEF Copy, CopyFails, Close, Goto, UnixTypes, UnixPcs
<1>3. /\ fd' \in [Appliers -> Inodes \cup {None}] /\ fd'[g] = None
      /\ \A h \in Appliers \ {g} : fd'[h] = fd[h]
  BY <1>1 DEF UnixTypes
<1>4. PICK i \in Inodes : i = fd[g]
  BY <1>1 DEF Open, UnixTypes
<1>5. /\ content' \in Contents
      /\ \A j \in Inodes : content'[j].rel = content[j].rel
      /\ \A j \in Inodes \ {i} : content'[j] = content[j]
  <2>1. CASE Copy(g)
    <3>1. PICK whole \in BOOLEAN :
            content' = [content EXCEPT ![i] = [rel |-> content[i].rel, whole |-> whole]]
      BY <1>4, <2>1 DEF Copy
    <3> QED
      BY <3>1 DEF UnixTypes
  <2>2. CASE CopyFails(g)
    BY <2>2 DEF CopyFails, UnixTypes
  <2> QED
    BY <2>1, <2>2
<1>6. UnixTypes' /\ Open'
  BY <1>1, <1>2, <1>3, <1>5 DEF UnixTypes, Open
<1>7. Released' /\ Apart'
  BY <1>1, <1>5 DEF Released, Apart, UnixTypes
<1>8. Sound'
  <2> SUFFICES ASSUME NEW p \in Paths \ {"staged"}, dir[p] \notin contended \cup {None}
               PROVE  content'[dir[p]].whole /\ \A h \in Appliers : fd'[h] # dir[p]
    BY <1>1 DEF Sound
  <2>1. content[dir[p]].whole /\ \A h \in Appliers : fd[h] # dir[p]
    BY DEF Sound
  <2>2. dir[p] \in Inodes \ {i}
    BY <1>4, <2>1 DEF UnixTypes
  <2> QED
    BY <1>3, <1>5, <2>1, <2>2
<1>9. StagedSound'
  <2> SUFFICES ASSUME dir["staged"] \notin contended \cup {None}, NEW h \in Staging'
               PROVE  /\ \A k \in Staging' : k = h
                      /\ pc'[h] = "copy" => fd'[h] = dir["staged"]
                      /\ pc'[h] # "copy" => content'[dir["staged"]].whole
    BY <1>1 DEF StagedSound
  <2>1. g \in Staging /\ Staging' \subseteq Staging
    BY <1>1, <1>2 DEF Staging
  <2>2. \A k \in Staging : k = g
    BY <2>1 DEF StagedSound
  <2>3. h = g /\ pc'[g] = "unlink"
    BY <1>2, <2>1, <2>2 DEF Staging
  <2>4. Copy(g) /\ i = dir["staged"]
    BY <1>1, <1>2, <1>4, <2>1, <2>3 DEF StagedSound
  <2>5. Writers(i) = {g}
    <3>1. \A k \in Writers(i) : k \in Staging
      BY DEF Writers, Staging, Open
    <3>2. g \in Writers(i)
      BY <1>4 DEF Writers
    <3> QED
      BY <2>2, <3>1, <3>2
  <2>6. i \notin mixed
    BY <2>4 DEF UnixTypes
  <2>7. content' = [content EXCEPT ![i] = [rel |-> content[i].rel, whole |-> TRUE]]
    BY <1>4, <2>4, <2>5, <2>6 DEF Copy
  <2>8. content'[i].whole
    BY <2>7 DEF UnixTypes
  <2> QED
    BY <2>1, <2>2, <2>3, <2>4, <2>8
<1> QED
  BY <1>1, <1>6, <1>7, <1>8, <1>9

\* Every step keeps it: the copy is made under another name, and the name of
\* the executable is given to sound files or to contended ones.
LEMMA UnixStep ==
    ASSUME SelfUpdateAssumption, UnixInv, [Next]_vars
    PROVE  UnixInv'
<1> USE DEF SelfUpdateAssumption
<1>1. CASE UNCHANGED vars
  BY <1>1 DEF vars, UnixInv, UnixTypes, Released, Apart, Open, Sound, StagedSound, Staging
<1>2. /\ dir \in [Paths -> Inodes \cup {None}] /\ "exe" \in Paths /\ "staged" \in Paths
      /\ \A g \in Appliers : g \in Paths /\ g # "exe" /\ g # "staged"
  BY DEF UnixInv, UnixTypes, Paths
<1>3. ASSUME NEW g \in Appliers, Cleanup(g) PROVE UnixInv'
  BY <1>2, <1>3, UnixRemoves DEF Cleanup, UnixPcs, At
<1>4. ASSUME NEW g \in Appliers, Fail(g), pc[g] # "copy" PROVE UnixInv'
  BY <1>2, <1>4, UnixRemoves DEF Fail, UnixPcs
<1>5. ASSUME NEW g \in Appliers, Unix(g) PROVE UnixInv'
  <2>1. CASE Chmod(g)
    BY <1>2, <2>1, UnixRemoves DEF Chmod, At, UnixPcs
  <2>2. CASE Rename(g)
    <3>1. /\ Goto(g, "exec") /\ pc[g] # "copy" /\ dir[g] # None /\ dir' = Renamed(g, "exe")
          /\ UNCHANGED <<platform, content, fd, mixed, contended>>
      BY <2>2 DEF Rename, At
    <3>2. dir[g] \notin contended => content[dir[g]].whole /\ \A h \in Appliers : fd[h] # dir[g]
      BY <1>2, <3>1 DEF UnixInv, Sound
    <3> QED
      BY <1>2, <3>1, <3>2, UnixRenames
  <2>3. CASE RenameFails(g)
    BY <1>2, <2>3, UnixRemoves DEF RenameFails, At, UnixPcs
  <2>4. CASE Unlink(g)
    BY <1>2, <2>4, UnixRemoves DEF Unlink, At, UnixPcs
  <2>5. CASE Swap(g)
    <3>1. /\ Goto(g, "exec") /\ pc[g] = "swap" /\ dir["staged"] # None
          /\ dir' = Renamed("staged", "exe")
          /\ UNCHANGED <<platform, content, fd, mixed, contended>>
      BY <2>5 DEF Swap, At
    <3>2. ASSUME dir["staged"] \notin contended
          PROVE  content[dir["staged"]].whole /\ \A h \in Appliers : fd[h] # dir["staged"]
      <4>1. g \in Staging
        BY <3>1 DEF Staging
      <4>2. content[dir["staged"]].whole /\ \A h \in Staging : h = g
        BY <3>1, <3>2, <4>1 DEF UnixInv, StagedSound
      <4>3. \A h \in Appliers : fd[h] # None => h \in Staging /\ pc[h] = "copy"
        BY DEF UnixInv, Open, Staging
      <4> QED
        BY <3>1, <4>2, <4>3
    <3> QED
      BY <1>2, <3>1, <3>2, UnixRenames
  <2>6. CASE SwapFails(g)
    BY <1>2, <2>6, UnixRemoves DEF SwapFails, At, UnixPcs
  <2>7. CASE Exec(g)
    BY <2>7, UnixEnds DEF Exec, Started
  <2>8. CASE ChmodFails(g) \/ StageFails(g) \/ ExecFails(g)
    BY <1>4, <2>8 DEF ChmodFails, StageFails, ExecFails, At
  <2> QED
    BY <1>5, <2>1, <2>2, <2>3, <2>4, <2>5, <2>6, <2>7, <2>8, UnixStage, UnixCopies DEF Unix
<1>6. ASSUME NEW g \in Appliers, Windows(g) PROVE UnixInv'
  BY <1>6 DEF UnixInv, UnixTypes, Windows, At, UnixPcs, ClearOld, MoveAway, MoveAwayFails, Place,
              PlaceFails, Restore, RestoreFails, Spawn, SpawnFails
<1>7. CASE Crash
  BY <1>7, UnixEnds DEF Crash
<1>8. CASE Restart
  BY <1>8, UnixEnds DEF Restart, Started
<1>9. CASE Unstartable
  BY <1>1, <1>9 DEF Unstartable
<1> QED
  BY <1>1, <1>3, <1>5, <1>6, <1>7, <1>8, <1>9, UnixBegin DEF Next

\* Whenever the process ends on Unix, an executable is there to be started,
\* complete unless it is a file that several goroutines have staged at once.
THEOREM UnixWhole ==
    ASSUME SelfUpdateAssumption
    PROVE  Spec => []ExecutableWhole
<1>1. Init => UnixInv \/ WindowsInv
  BY UnixInit, WindowsInit DEF Init, SelfUpdateAssumption
<1>2. UnixInv /\ [Next]_vars => UnixInv'
  BY UnixStep
<1>3. WindowsInv /\ [Next]_vars => WindowsInv'
  BY WindowsStep
<1>4. UnixInv \/ WindowsInv => ExecutableWhole
  BY DEF UnixInv, UnixTypes, Sound, WindowsInv, ExecutableWhole, Whole, Paths
<1> QED
  BY <1>1, <1>2, <1>3, <1>4, PTL DEF Spec

\* A release that a step newly finds in the directory was downloaded by it,
\* and the executable becomes what an entry beside it held, or is spoilt.
LEMMA UnixMaps ==
    ASSUME SelfUpdateAssumption, UnixInv, UnixInv', [Next]_vars
    PROVE  [Install!Next]_(Install!vars)
<1> USE DEF SelfUpdateAssumption
<1>1. Beside' \subseteq Releases
  BY DEF Beside, UnixInv, Released
<1>2. CASE Spoilt'
  BY <1>1, <1>2 DEF Install!Next, Install!Spoil
<1>3. CASE ~Spoilt'
  <2>1. /\ platform = "unix" /\ platform' = "unix" /\ "exe" \in Paths
        /\ dir["exe"] # None /\ dir'["exe"] # None /\ dir["exe"] \in Inodes
    BY DEF UnixInv, UnixTypes, Paths
  <2>2. Spoilt' = FALSE /\ dir'["exe"] \notin contended'
    BY <1>3, <2>1 DEF Spoilt
  <2>3. content'[dir'["exe"]].whole
    BY <2>1, <2>2 DEF UnixInv, Sound
  <2>4. Program' = content'[dir'["exe"]].rel
    BY <2>1, <2>3 DEF Program, Whole
  <2>5. dir["exe"] \notin contended =>
            /\ content[dir["exe"]].whole /\ Program = content[dir["exe"]].rel /\ Spoilt = FALSE
            /\ \A g \in Appliers : fd[g] # dir["exe"]
    BY <2>1 DEF UnixInv, Sound, Program, Whole, Spoilt
  <2>6. ASSUME dir'["exe"] = dir["exe"], dir["exe"] \notin contended,
               content'[dir["exe"]] = content[dir["exe"]]
        PROVE  Install!Download
    BY <1>1, <2>2, <2>4, <2>5, <2>6 DEF Install!Download
  <2>7. ASSUME dir'["exe"] = dir["exe"], contended' = contended, content' = content
        PROVE  Install!Download
    BY <2>2, <2>6, <2>7
  <2>8. ASSUME NEW p \in Paths \ {"exe"}, dir[p] # None, dir' = Renamed(p, "exe"),
               content' = content
        PROVE  Install!Replace
    <3>1. dir'["exe"] = dir[p] /\ \A q \in Paths \ {"exe"} : dir'[q] # None => dir'[q] = dir[q]
      BY <2>8 DEF Renamed, UnixInv, UnixTypes, Paths
    <3>2. Program' \in Beside
      BY <2>4, <2>8, <3>1 DEF Beside
    <3>3. Beside' \subseteq Beside
      BY <2>8, <3>1 DEF Beside
    <3> QED
      BY <2>2, <3>2, <3>3 DEF Install!Replace
  <2>9. ASSUME NEW g \in Appliers, Begin(g) PROVE Install!Download
    <3>1. PICK i \in Unused, r \in Releases :
            /\ content' = [content EXCEPT ![i] = [rel |-> r, whole |-> TRUE]]
            /\ dir' = [dir EXCEPT ![g] = i]
            /\ contended' = contended \ {i}
      BY <2>9 DEF Begin
    <3>2. dir["exe"] # i /\ dir'["exe"] = dir["exe"]
      BY <2>1, <3>1 DEF Unused, Linked, UnixInv, UnixTypes, Paths
    <3> QED
      BY <2>1, <2>2, <2>6, <3>1, <3>2 DEF UnixInv, UnixTypes
  <2>10. ASSUME NEW g \in Appliers, Unix(g) PROVE Install!Download \/ Install!Replace
    <3>1. CASE Chmod(g) \/ ChmodFails(g) \/ RenameFails(g) \/ StageFails(g) \/ CopyFails(g)
               \/ ExecFails(g) \/ Exec(g)
      BY <2>7, <3>1 DEF Chmod, ChmodFails, RenameFails, StageFails, CopyFails, ExecFails, Fail,
                        Close, Exec, Started
    <3>2. CASE Unlink(g) \/ SwapFails(g)
      BY <2>7, <3>2 DEF Unlink, SwapFails, UnixInv, UnixTypes, Paths
    <3>3. CASE Rename(g)
      BY <2>8, <3>3 DEF Rename, Paths
    <3>4. CASE Swap(g)
      BY <2>8, <3>4 DEF Swap, Paths
    <3>5. CASE Stage(g)
      <4>1. PICK i \in IF dir["staged"] # None THEN {dir["staged"]} ELSE Unused :
              /\ dir' = [dir EXCEPT !["staged"] = i]
              /\ content' = [content EXCEPT ![i] = [rel |-> content[dir[g]].rel, whole |-> FALSE]]
              /\ contended' = IF Staging = {} THEN contended \ {i} ELSE contended \cup {i}
        BY <3>5 DEF Stage
      <4>2. i # dir["exe"] /\ dir'["exe"] = dir["exe"]
        BY <2>1, <4>1 DEF Unused, Linked, UnixInv, UnixTypes, Apart, Paths
      <4> QED
        BY <2>1, <2>2, <2>6, <4>1, <4>2 DEF UnixInv, UnixTypes
    <3>6. CASE Copy(g)
      <4>1. dir' = dir /\ contended' = contended
        BY <3>6 DEF Copy, Close
      <4>2. fd[g] # dir["exe"]
        BY <2>2, <2>5, <4>1
      <4>3. PICK whole \in BOOLEAN :
              content' = [content EXCEPT ![fd[g]] = [rel |-> content[fd[g]].rel, whole |-> whole]]
        BY <3>6 DEF Copy
      <4> QED
        BY <2>1, <2>2, <2>6, <4>1, <4>2, <4>3 DEF UnixInv, UnixTypes
    <3> QED
      BY <2>10, <3>1, <3>2, <3>3, <3>4, <3>5, <3>6 DEF Unix
  <2>11. ASSUME NEW g \in Appliers, Cleanup(g) PROVE Install!Download
    BY <2>7, <2>11 DEF Cleanup, UnixInv, UnixTypes, Paths
  <2>12. \A g \in Appliers : ~Windows(g)
    BY <2>1 DEF UnixInv, UnixTypes, Windows, At, UnixPcs, ClearOld, MoveAway, MoveAwayFails, Place,
                PlaceFails, Restore, RestoreFails, Spawn, SpawnFails
  <2>13. CASE Crash \/ Restart
    BY <2>7, <2>13 DEF Crash, Restart, Started, Install!Next
  <2>14. CASE Unstartable \/ UNCHANGED vars
    <3>1. UNCHANGED <<dir, content, contended>>
      BY <2>14 DEF Unstartable, vars
    <3> QED
      BY <2>7, <3>1 DEF Install!Next
  <2> QED
    BY <2>9, <2>10, <2>11, <2>12, <2>13, <2>14 DEF Next, Install!Next
<1> QED
  BY <1>2, <1>3

\* On Windows a step that moves the executable away leaves the program in
\* .old, and what takes its place was beside it.
LEMMA WindowsMaps ==
    ASSUME SelfUpdateAssumption, WindowsInv, WindowsInv', [Next]_vars
    PROVE  [Install!Next]_(Install!vars)
<1> USE DEF SelfUpdateAssumption, WindowsInv, Contents, Paths
<1>0. Spoilt = FALSE /\ Spoilt' = FALSE
  BY DEF Spoilt
<1>1. /\ Program = IF dir["exe"] # None THEN content[dir["exe"]].rel ELSE content[dir["old"]].rel
      /\ Program' = IF dir'["exe"] # None THEN content'[dir'["exe"]].rel ELSE content'[dir'["old"]].rel
  BY DEF Program, Whole
<1>2. Beside' \subseteq Releases
  BY DEF Beside
<1>3. ASSUME Program' = Program PROVE Install!Download
  BY <1>0, <1>2, <1>3 DEF Install!Download
<1>4. ASSUME NEW p \in Paths \ {"exe"}, dir[p] # None, dir' = Renamed(p, "exe"), content' = content
      PROVE  Install!Replace
  <2>1. dir'["exe"] = dir[p] /\ \A q \in Paths \ {"exe"} : dir'[q] # None => dir'[q] = dir[q]
    BY <1>4 DEF Renamed
  <2>2. Program' \in Beside
    BY <1>1, <1>4, <2>1 DEF Beside
  <2>3. Beside' \subseteq Beside
    BY <1>4, <2>1 DEF Beside
  <2> QED
    BY <1>0, <2>2, <2>3 DEF Install!Replace
<1>5. ASSUME NEW g \in Appliers, Begin(g) PROVE Program' = Program
  <2>1. PICK i \in Unused, r \in Releases :
          /\ content' = [content EXCEPT ![i] = [rel |-> r, whole |-> TRUE]]
          /\ dir' = [dir EXCEPT ![g] = i]
    BY <1>5 DEF Begin
  <2>2. dir["exe"] # i /\ dir["old"] # i /\ dir'["exe"] = dir["exe"] /\ dir'["old"] = dir["old"]
    BY <2>1 DEF Unused, Linked
  <2> QED
    BY <1>1, <2>1, <2>2
<1>6. ASSUME NEW g \in Appliers, Windows(g) PROVE Install!Download \/ Install!Replace
  <2>1. CASE ClearOld(g)
    BY <1>1, <1>3, <2>1 DEF ClearOld, InUse, At, Up
  <2>2. CASE MoveAway(g)
    BY <1>1, <1>3, <2>2 DEF MoveAway, Renamed
  <2>3. CASE Place(g)
    BY <1>4, <2>3 DEF Place
  <2>4. CASE Restore(g)
    BY <1>4, <2>4 DEF Restore
  <2>5. CASE PlaceFails(g) \/ MoveAwayFails(g) \/ RestoreFails(g) \/ SpawnFails(g) \/ Spawn(g)
    BY <1>1, <1>3, <2>5 DEF PlaceFails, MoveAwayFails, RestoreFails, SpawnFails, Fail, Spawn, Started
  <2> QED
    BY <1>6, <2>1, <2>2, <2>3, <2>4, <2>5 DEF Windows
<1>7. ASSUME NEW g \in Appliers, Cleanup(g) PROVE Program' = Program
  BY <1>1, <1>7 DEF Cleanup
<1>8. \A g \in Appliers : ~Unix(g)
  BY DEF Unix, At, WindowsPcs, Chmod, ChmodFails, Rename, RenameFails, Stage, StageFails,
         Copy, CopyFails, Unlink, Swap, SwapFails, Exec, ExecFails
<1>9. CASE Crash \/ Restart \/ Unstartable \/ UNCHANGED vars
  <2>1. UNCHANGED <<dir, content>>
    <3>1. CASE Crash \/ Restart
      BY <3>1 DEF Crash, Restart, Started
    <3>2. CASE Unstartable \/ UNCHANGED vars
      BY <3>2 DEF Unstartable, vars
    <3> QED
      BY <1>9, <3>1, <3>2
  <2> QED
    BY <1>1, <1>3, <2>1 DEF Install!Next
<1> QED
  BY <1>3, <1>5, <1>6, <1>7, <1>8, <1>9 DEF Next, Install!Next

\* Replacing the executable implements a replacement in one step by what was
\* downloaded, whatever fails, whenever the process ends and however many
\* goroutines do it: but for a file that several of them staged at once.
THEOREM Installs ==
    ASSUME SelfUpdateAssumption
    PROVE  Spec => IsInstalled
<1>1. Init => UnixInv \/ WindowsInv
  BY UnixInit, WindowsInit DEF Init, SelfUpdateAssumption
<1>2. UnixInv /\ [Next]_vars => UnixInv'
  BY UnixStep
<1>3. WindowsInv /\ [Next]_vars => WindowsInv'
  BY WindowsStep
<1>4. Init => Install!Init
  <2> SUFFICES ASSUME Init PROVE Program \in Releases /\ Beside = {} /\ Spoilt = FALSE
    BY DEF Install!Init
  <2>1. PICK i \in Inodes, r \in Releases :
          /\ dir = [p \in Paths |-> IF p = "exe" THEN i ELSE None]
          /\ content = [j \in Inodes |-> IF j = i THEN [rel |-> r, whole |-> TRUE]
                                         ELSE [rel |-> None, whole |-> FALSE]]
    BY DEF Init
  <2>2. dir["exe"] = i /\ content[i] = [rel |-> r, whole |-> TRUE] /\ i # None
    BY <2>1 DEF Paths, SelfUpdateAssumption
  <2>3. Program = r
    BY <2>2 DEF Program, Whole
  <2>4. Beside = {}
    BY <2>1 DEF Beside
  <2>5. Spoilt = FALSE
    BY DEF Init, Spoilt
  <2> QED
    BY <2>3, <2>4, <2>5
<1>5. UnixInv /\ UnixInv' /\ [Next]_vars => [Install!Next]_(Install!vars)
  BY UnixMaps
<1>6. WindowsInv /\ WindowsInv' /\ [Next]_vars => [Install!Next]_(Install!vars)
  BY WindowsMaps
<1> QED
  BY <1>1, <1>2, <1>3, <1>4, <1>5, <1>6, PTL DEF Spec, IsInstalled, Install!Spec
=============================================================================
