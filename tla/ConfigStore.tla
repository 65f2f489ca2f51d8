---------------------------- MODULE ConfigStore ----------------------------
(***************************************************************************)
(* The configuration (internal/config/config.go): one record in memory,    *)
(* which every reader and editor shares by pointer, and its file.  An edit *)
(* changes the record in place, without a lock, and then calls Save, which *)
(* under the lock truncates the file, encodes the record field by field    *)
(* and writes it.                                                          *)
(* Edits come from handlers of the web server and from the cloud's         *)
(* commands, each in a goroutine of its own.  The process may end between  *)
(* any two steps: restartSelf and selfUpdate exit without waiting.         *)
(***************************************************************************)
EXTENDS Naturals, Sequences, FiniteSets, SequencesExt

CONSTANTS
    WebEditors,    \* goroutines that serve a request of the web interface
    CloudEditors,  \* goroutines that execute a command or a query of the cloud
    Names,         \* of data sources
    Vals,          \* what else a data source holds
    Entered,       \* bound: those of Vals and Modes that an edit asks for
    Clouds,        \* cloud credentials that are entered or obtained by pairing
    Modes,         \* of applying an update; the default is "auto"
    InitialSources,\* the lists of data sources the first process may find
    NoOne,         \* not an editor
    Unknown,       \* not a value of any part of the configuration
    MaxEdits       \* bound: edits begun

Editors == WebEditors \cup CloudEditors

ASSUME ConfigAssumption ==
    /\ WebEditors \cap CloudEditors = {}
    /\ NoOne \notin Editors
    /\ "auto" \in Modes /\ Entered \subseteq Vals \cup Modes
    /\ InitialSources \subseteq Seq([name : Names, val : Vals])
    /\ Names \cap {"cloud", "mode", "remote"} = {}  \* labels of the other parts
    /\ MaxEdits \in Nat

VARIABLES
    current,       \* the record
    file,          \* config.toml
    lock,          \* the holder of the write lock in Save
    editor,        \* per goroutine, its edit and where it stands
    process,       \* of the connector
    failing,       \* the latest Save failed (history)
    torn,          \* a deletion took of what the encoder has read (history)
    promised,      \* per part, what the latest undisturbed edit saved (history)
    edits          \* number of edits begun (history)

vars == <<current, file, lock, editor, process, failing, torn, promised, edits>>

-----------------------------------------------------------------------------
DataSource == [name : Names, val : Vals]
Config == [url : Clouds \cup {"none"}, key : Clouds \cup {"none"}, mode : Modes,
           remote : BOOLEAN, sources : Seq(DataSource)]

DefaultConfig == [url |-> "none", key |-> "none", mode |-> "auto", remote |-> TRUE,
                  sources |-> <<>>]

\* What Load makes of a file that was written only in part: the fields that
\* precede the cut, in the encoder's order, over the defaults.
Cuts(c) ==
    {DefaultConfig,
     [DefaultConfig EXCEPT !.url = c.url],
     [DefaultConfig EXCEPT !.url = c.url, !.key = c.key],
     [DefaultConfig EXCEPT !.url = c.url, !.key = c.key, !.remote = c.remote]}
    \cup {[c EXCEPT !.sources = SubSeq(@, 1, k)] : k \in 0..Len(c.sources)}

\* state: "missing"; "cut" for one that was truncated or written in part;
\* "broken" for one cut where it cannot be parsed; "torn" for one written to the
\* end, of a list from which a deletion took what was read already; "whole".
Files == [state : {"missing", "cut", "broken", "torn", "whole"}, value : Config]

\* The parts that edits change: two fields stand for the credentials, a
\* setting that is flipped and one that is set, and each data source by name.
Parts == {"cloud", "mode", "remote"} \cup Names

Ops == {"setup", "pair", "mode", "toggle", "source", "delete", "find"}
ListOps == {"source", "delete"}

\* name, val: what is edited; i, n: index and limit of the search, then i the
\* next field to encode; list: the slice that was read; snap: what the encoder
\* has read; alone: no edit of the same part has overlapped.
Idle == [op |-> "find", pc |-> "idle", name |-> NoOne, val |-> Unknown, i |-> 0, n |-> 0,
         list |-> <<>>, snap |-> DefaultConfig, alone |-> TRUE]

Saving == {"encode", "element", "write"}

TypeOK ==
    /\ current \in Config
    /\ file \in Files
    /\ lock \in Editors \cup {NoOne}
    /\ \A e \in Editors :
          /\ editor[e].op \in Ops
          /\ editor[e].pc \in {"idle", "request", "scan", "replace", "read", "assign", "key",
                               "save"} \cup Saving
          /\ editor[e].pc \in Saving <=> lock = e
          /\ editor[e].list \in Seq(DataSource) /\ editor[e].snap \in Config
    /\ process \in {"down", "up", "unstartable"}
    /\ failing \in BOOLEAN /\ torn \in BOOLEAN
    /\ DOMAIN promised = Parts

Init ==
    /\ current = DefaultConfig
    /\ \/ file = [state |-> "missing", value |-> DefaultConfig]
       \/ \E c \in Clouds, s \in InitialSources :
             file = [state |-> "whole",
                     value |-> [DefaultConfig EXCEPT !.url = c, !.key = c, !.sources = s]]
    /\ lock = NoOne
    /\ editor = [e \in Editors |-> Idle]
    /\ process = "down" /\ failing = FALSE /\ torn = FALSE
    /\ promised = [p \in Parts |-> Unknown]
    /\ edits = 0

-----------------------------------------------------------------------------
At(e, pc) == process = "up" /\ editor[e].pc = pc
Goto(e, pc) == editor' = [editor EXCEPT ![e].pc = pc]

\* The data source that FindDataSource returns: the first of its name.
Lookup(c, name) ==
    IF \E i \in DOMAIN c.sources : c.sources[i].name = name
    THEN c.sources[SelectInSeq(c.sources, LAMBDA d : d.name = name)].val
    ELSE "absent"

PartOf(c, p) ==
    CASE p = "cloud"  -> <<c.url, c.key>>
      [] p = "mode"   -> c.mode
      [] p = "remote" -> c.remote
      [] OTHER        -> Lookup(c, p)

\* The part an edit changes, and what it is to be afterwards.
Target(r) ==
    CASE r.op \in {"setup", "pair"} -> "cloud"
      [] r.op = "toggle" -> "remote"
      [] r.op = "mode"   -> "mode"
      [] OTHER           -> r.name

Wanted(r) ==
    CASE r.op \in {"setup", "pair"} -> <<r.val, r.val>>
      [] r.op = "delete" -> "absent"
      [] OTHER           -> r.val

\* Edits of the list of data sources disturb each other, whatever their names.
Disturbs(r, s) ==
    /\ r.pc # "idle" /\ s.pc # "idle" /\ "find" \notin {r.op, s.op}
    /\ Target(r) = Target(s) \/ {r.op, s.op} \subseteq ListOps

-----------------------------------------------------------------------------
(* The process.                                                            *)

\* What Load returns for a file; a missing or an empty one gives the default.
Loaded(f) == IF f.state = "missing" THEN DefaultConfig ELSE f.value

\* What an undisturbed edit saved is lost with a file that is not complete, and
\* a data source with a list that is torn.
Load ==
    /\ process = "down" /\ file.state # "broken"
    /\ process' = "up"
    /\ current' = Loaded(file)
    /\ failing' = FALSE
    /\ promised' = [p \in Parts |->
          IF file.state = "cut" \/ (file.state = "torn" /\ p \in Names) THEN Unknown
          ELSE promised[p]]
    /\ UNCHANGED <<file, lock, editor, torn, edits>>

LoadFails ==
    /\ process = "down" /\ file.state = "broken"
    /\ process' = "unstartable"
    /\ UNCHANGED <<current, file, lock, editor, failing, promised, torn, edits>>

Crash ==
    /\ process = "up"
    /\ process' = "down"
    /\ lock' = NoOne
    /\ editor' = [e \in Editors |-> Idle]
    /\ UNCHANGED <<current, file, failing, promised, torn, edits>>

-----------------------------------------------------------------------------
(* Edits, up to the change of the record.                                  *)

First(op) == CASE op = "pair" -> "request"
               [] op \in {"source", "find"} -> "scan"
               [] op \in {"delete", "toggle"} -> "read"
               [] OTHER -> "assign"

Begin(e, r) ==
    /\ At(e, "idle") /\ edits < MaxEdits
    /\ edits' = edits + 1
    /\ LET others == {f \in Editors : Disturbs(editor[f], r)}
       IN  /\ editor' = [f \in Editors |->
                  IF f = e THEN [r EXCEPT !.alone = (others = {})]
                  ELSE [editor[f] EXCEPT !.alone = @ /\ ~Disturbs(r, editor[f])]]
           /\ promised' = [p \in Parts |->
                  IF \/ r.op # "find" /\ p = Target(r)
                     \/ others # {} /\ r.op \in ListOps /\ p \in Names
                  THEN Unknown ELSE promised[p]]
    /\ UNCHANGED <<current, file, lock, process, failing, torn>>

\* Get, and for loops over the data sources the length of the slice.
Request(op, name, val) ==
    [Idle EXCEPT !.op = op, !.pc = First(op), !.name = name, !.val = val,
                 !.i = 1, !.n = Len(current.sources)]

BeginSettings(e) ==
    /\ e \in WebEditors
    /\ \/ \E op \in {"setup", "pair"}, c \in Clouds : Begin(e, Request(op, NoOne, c))
       \/ \E m \in Modes \cap Entered : Begin(e, Request("mode", NoOne, m))
       \/ Begin(e, Request("toggle", NoOne, Unknown))

BeginSource(e) ==
    \E name \in Names :
        \/ \E v \in Vals \cap Entered : Begin(e, Request("source", name, v))
        \/ Begin(e, Request("delete", name, Unknown))
        \/ Begin(e, Request("find", name, Unknown))

\* The edit ends; a part whose edit nothing disturbed and no error befell is as
\* it was asked to be.
Ends(e, saved) ==
    /\ editor' = [editor EXCEPT ![e] = Idle]
    /\ promised' = IF saved /\ editor[e].alone
                   THEN [promised EXCEPT ![Target(editor[e])] = Wanted(editor[e])]
                   ELSE promised

Unchanged == UNCHANGED <<current, file, lock, process, failing, torn, edits>>

\* handlePair: the cloud's answer, an error of which ends the edit.
Paired(e) == At(e, "request") /\ Goto(e, "assign") /\ UNCHANGED promised /\ Unchanged
NotPaired(e) == At(e, "request") /\ Ends(e, FALSE) /\ Unchanged

\* An index beyond the slice, which a deletion has shortened since its length
\* was read.  The web server recovers the panic of a handler, and safeGo that of
\* the read loop, where the cloud's edits are executed; nothing recovers that of
\* the poller, which executes them too, nor of a goroutine that runs a query.
Panics(e) ==
    \/ (e \in WebEditors \/ editor[e].op # "find") /\ Ends(e, FALSE) /\ Unchanged
    \/ e \in CloudEditors /\ Crash

OutOfRange(e) == editor[e].i > Len(current.sources)

\* One turn of the loop in SaveDataSource or FindDataSource.
Scan(e) ==
    /\ At(e, "scan")
    /\ LET r == editor[e]
       IN  \/ /\ r.i > r.n
              /\ IF r.op = "find" THEN Ends(e, FALSE) ELSE Goto(e, "read") /\ UNCHANGED promised
              /\ Unchanged
           \/ r.i <= r.n /\ OutOfRange(e) /\ Panics(e)
           \/ /\ r.i <= r.n /\ ~OutOfRange(e)
              /\ IF current.sources[r.i].name # r.name
                 THEN editor' = [editor EXCEPT ![e].i = @ + 1] /\ UNCHANGED promised
                 ELSE IF r.op = "find" THEN Ends(e, FALSE)
                 ELSE Goto(e, "replace") /\ UNCHANGED promised
              /\ Unchanged

Replace(e) ==
    /\ At(e, "replace")
    /\ IF OutOfRange(e) THEN Panics(e)
       ELSE /\ current' = [current EXCEPT !.sources[editor[e].i] =
                               [name |-> editor[e].name, val |-> editor[e].val]]
            /\ Goto(e, "save")
            /\ UNCHANGED <<file, lock, process, failing, promised, torn, edits>>

\* The slice or the flag that the new one is made from.
Read(e) ==
    /\ At(e, "read")
    /\ editor' = [editor EXCEPT ![e].pc = "assign", ![e].list = current.sources,
                                ![e].val = IF editor[e].op = "toggle" THEN ~current.remote ELSE @]
    /\ UNCHANGED promised /\ Unchanged

\* The slice without the data sources of a name, the others in their order.
Without(list, name) ==
    LET kept == {i \in DOMAIN list : list[i].name # name}
        rank == [i \in kept |-> Cardinality({k \in kept : k <= i})]
    IN  [n \in 1..Cardinality(kept) |-> list[CHOOSE i \in kept : rank[i] = n]]

Changed(r) ==
    CASE r.op = "source" ->
            [current EXCEPT !.sources = Append(r.list, [name |-> r.name, val |-> r.val])]
      [] r.op = "delete" ->
            [current EXCEPT !.sources = Without(r.list, r.name)]
      [] r.op = "toggle" -> [current EXCEPT !.remote = r.val]
      [] r.op = "mode"   -> [current EXCEPT !.mode = r.val]
      [] OTHER           -> [current EXCEPT !.url = r.val]

\* The deletion r moves the data sources behind one that the encoder s has read,
\* which then passes over the next.
Tears(r, s) ==
    /\ r.op = "delete" /\ s.pc \in {"encode", "element"}
    /\ \E i \in DOMAIN s.snap.sources : s.snap.sources[i].name = r.name

Assign(e) ==
    /\ At(e, "assign")
    /\ current' = Changed(editor[e])
    /\ torn' = (torn \/ \E f \in Editors : Tears(editor[e], editor[f]))
    /\ Goto(e, IF editor[e].op \in {"setup", "pair"} THEN "key" ELSE "save")
    /\ UNCHANGED <<file, lock, process, failing, promised, edits>>

AssignKey(e) ==
    /\ At(e, "key")
    /\ current' = [current EXCEPT !.key = editor[e].val]
    /\ Goto(e, "save")
    /\ UNCHANGED <<file, lock, process, failing, promised, torn, edits>>

-----------------------------------------------------------------------------
(* Save.                                                                   *)

\* Mutant: the lock is not taken.
Create_NoLock(e) ==
    /\ At(e, "save")
    /\ lock' = e
    /\ file' = [state |-> "cut", value |-> DefaultConfig]
    /\ editor' = [editor EXCEPT ![e].pc = "encode", ![e].i = 1,
                                ![e].snap = DefaultConfig]
    /\ torn' = FALSE
    /\ UNCHANGED <<current, process, failing, promised, edits>>

\* os.Create truncates the file.
Create(e) ==
    /\ At(e, "save") /\ lock = NoOne
    /\ lock' = e
    /\ file' = [state |-> "cut", value |-> DefaultConfig]
    /\ editor' = [editor EXCEPT ![e].pc = "encode", ![e].i = 1,
                                ![e].snap = DefaultConfig]
    /\ torn' = FALSE
    /\ UNCHANGED <<current, process, failing, promised, edits>>

CreateFails(e) ==
    /\ At(e, "save") /\ lock = NoOne
    /\ failing' = TRUE
    /\ Ends(e, FALSE)
    /\ UNCHANGED <<current, file, lock, process, torn, edits>>

\* The encoder goes by reflection from field to field of the record, which others
\* may be changing, and keeps them in its buffer.
Fields == <<"url", "key", "remote", "mode">>

EncodeField(e) ==
    /\ At(e, "encode") /\ editor[e].i <= Len(Fields)
    /\ LET field == Fields[editor[e].i]
       IN  editor' = [editor EXCEPT ![e].i = @ + 1, ![e].snap[field] = current[field]]
    /\ UNCHANGED promised /\ Unchanged

\* Of the list it takes the length before each of its data sources.
More(e) == Len(editor[e].snap.sources) < Len(current.sources)

EncodeLen(e) ==
    /\ At(e, "encode") /\ editor[e].i > Len(Fields)
    /\ Goto(e, IF More(e) THEN "element" ELSE "write")
    /\ UNCHANGED promised /\ Unchanged

EncodeElement(e) ==
    /\ At(e, "element") /\ More(e)
    /\ editor' = [editor EXCEPT ![e].pc = "encode",
           ![e].snap.sources = Append(@, current.sources[Len(@) + 1])]
    /\ UNCHANGED promised /\ Unchanged

\* A deletion came in between, and the index is out of range: the deferred calls
\* release the lock, and what is in the buffer is never written.
EncodePanics(e) ==
    /\ At(e, "element") /\ ~More(e)
    /\ \/ /\ Ends(e, FALSE)
          /\ lock' = NoOne /\ failing' = TRUE
          /\ UNCHANGED <<current, file, process, torn, edits>>
       \/ e \in CloudEditors /\ Crash

\* Mutant: what was encoded becomes the record, as if each edit had a copy.
Write_Copies(e) ==
    /\ At(e, "write")
    /\ file' = [state |-> "whole", value |-> editor[e].snap]
    /\ current' = editor[e].snap
    /\ lock' = NoOne /\ failing' = FALSE
    /\ Ends(e, TRUE)
    /\ UNCHANGED <<process, torn, edits>>

\* Storing the record's pointer again changes nothing.
Write(e) ==
    /\ At(e, "write")
    /\ file' = [state |-> IF torn THEN "torn" ELSE "whole", value |-> editor[e].snap]
    /\ lock' = NoOne /\ failing' = FALSE
    /\ Ends(e, TRUE)
    /\ UNCHANGED <<current, process, torn, edits>>

\* Mutant: the error path leaves the lock held.
WriteFails_KeepsLock(e) ==
    /\ At(e, "write")
    /\ file' \in [state : {"cut"}, value : Cuts(editor[e].snap)]
    /\ failing' = TRUE
    /\ Ends(e, FALSE)
    /\ UNCHANGED <<current, lock, process, torn, edits>>

WriteFails(e) ==
    /\ At(e, "write")
    /\ file' \in [state : {"cut"}, value : Cuts(editor[e].snap)]
                 \cup {[state |-> "broken", value |-> DefaultConfig]}
    /\ lock' = NoOne /\ failing' = TRUE
    /\ Ends(e, FALSE)
    /\ UNCHANGED <<current, process, torn, edits>>

-----------------------------------------------------------------------------
EditorStep(e) ==
    \/ Scan(e) \/ Replace(e) \/ Read(e) \/ Assign(e) \/ AssignKey(e)
    \/ Create(e) \/ CreateFails(e) \/ EncodeField(e) \/ EncodeLen(e)
    \/ EncodeElement(e) \/ EncodePanics(e) \/ Write(e) \/ WriteFails(e)

Unstartable == process = "unstartable" /\ UNCHANGED vars

Next ==
    \/ \E e \in Editors :
          \/ BeginSettings(e) \/ BeginSource(e) \/ Paired(e) \/ NotPaired(e) \/ EditorStep(e)
    \/ Load \/ LoadFails \/ Crash \/ Unstartable

\* Goroutines run and the file system answers.  The pairing request has no
\* timeout, so nothing is assumed of its answer.
Spec == Init /\ [][Next]_vars /\ \A e \in Editors : WF_vars(EditorStep(e))

-----------------------------------------------------------------------------
\* Once every edit that has changed the record has returned, the file holds
\* what the memory holds, unless the latest Save failed.
SavedWhenQuiet ==
    process = "up" /\ ~failing /\ (\A e \in Editors : editor[e].pc \notin {"key", "save"} \cup Saving)
        => Loaded(file) = current

\* An edit that saved, and that no other edit of its part overlapped, is found
\* again: in memory whatever other parts are edited at the same time, and after
\* a restart from a complete file, for a data source from one that is not torn.
SavedAlone ==
    process = "up" => \A p \in Parts : promised[p] # Unknown => PartOf(current, p) = promised[p]

\* Every edit returns, except one that waits for the answer to its pairing.
EditsReturn ==
    \A e \in Editors : editor[e].pc \notin {"idle", "request"} ~> editor[e].pc = "idle"
=============================================================================
