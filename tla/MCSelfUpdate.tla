---------------------------- MODULE MCSelfUpdate ----------------------------
(* SelfUpdate for TLC.                                                     *)
EXTENDS SelfUpdate, TLC

\* Goroutines differ in nothing but their names, nor do releases.
Symmetric == Permutations(Appliers) \cup Permutations(Releases)

\* Inodes differ in nothing but who refers to them, and one that nobody refers
\* to is written before it is read: each entry, open file and process is told
\* apart by what it refers to and by which others refer to the same.
Seen(i) ==
    IF i = None THEN {}
    ELSE {<<{p \in Paths : dir[p] = i}, {g \in Appliers : fd[g] = i}, i = running, content[i],
            i \in mixed, i \in contended>>}

View == <<platform, pc, Seen(running), [p \in Paths |-> Seen(dir[p])],
          [g \in Appliers |-> Seen(fd[g])]>>
=============================================================================
