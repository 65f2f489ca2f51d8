---------------------------- MODULE LogForwarder ----------------------------
(***************************************************************************)
(* The log forwarder (internal/logfwd): a handler of the process's log     *)
(* that, while the cloud wants it, also collects the entries and hands     *)
(* them to the relay in batches.  Any goroutine logs at any time.  The     *)
(* cloud's enable_logs and disable_logs commands are handled by the relay's *)
(* read loop and by the HTTP poller, so that two calls may overlap.  Every *)
(* Enable starts a flush loop; Disable tries to stop one, by a send that    *)
(* does not wait for a loop to listen.                                     *)
(***************************************************************************)
EXTENDS Naturals, Sequences, FiniteSets

CONSTANTS
    Callers,       \* goroutines that handle the cloud's commands
    MaxBuffer,     \* maxBuffer (100 in the code)
    MaxEntries,    \* bound: entries logged while forwarding is enabled
    MaxLoops       \* bound: flush loops started

ASSUME LogAssumption ==
    /\ MaxBuffer \in Nat \ {0}
    /\ MaxEntries \in Nat /\ MaxLoops \in Nat

VARIABLES
    enabled,       \* Forwarder.enabled
    buffer,        \* Forwarder.buffer, entries numbered as they come
    logged,        \* number of entries buffered so far
    caller,        \* per caller, where it stands in Enable or Disable
    flusher,       \* per flush loop, where it stands
    spare,         \* batches of full buffers, each in a goroutine of its own
    pushed         \* per entry, how often it was handed to the relay

vars == <<enabled, buffer, logged, caller, flusher, spare, pushed>>

Entries == 1..MaxEntries
Loops == 1..MaxLoops
Batch == UNION {[1..n -> Entries] : n \in 0..MaxBuffer}
Idle == [pc |-> "idle", batch |-> <<>>]
Unborn == [pc |-> "unborn", batch |-> <<>>]

TypeOK ==
    /\ enabled \in BOOLEAN
    /\ buffer \in Batch /\ Len(buffer) < MaxBuffer
    /\ logged \in 0..MaxEntries
    /\ caller \in [Callers -> [pc : {"idle", "spawn", "signal", "flush", "push", "log"},
                               batch : Batch]]
    /\ flusher \in [Loops -> [pc : {"unborn", "top", "select", "flush", "push", "ended"},
                              batch : Batch]]
    /\ spare \subseteq Batch
    /\ pushed \in [Entries -> Nat]

Init ==
    /\ enabled = FALSE /\ buffer = <<>> /\ logged = 0
    /\ caller = [c \in Callers |-> Idle]
    /\ flusher = [l \in Loops |-> Unborn]
    /\ spare = {} /\ pushed = [e \in Entries |-> 0]

-----------------------------------------------------------------------------
At(c, pc) == caller[c].pc = pc
To(c, pc) == caller' = [caller EXCEPT ![c] = [pc |-> pc, batch |-> <<>>]]

\* Mutant: a full buffer is noticed one entry too late.
Handle_Late ==
    IF ~enabled THEN UNCHANGED <<buffer, logged, spare>>
    ELSE /\ logged < MaxEntries
         /\ logged' = logged + 1
         /\ LET full == Append(buffer, logged') IN
            IF Len(full) > MaxBuffer
            THEN buffer' = <<>> /\ spare' = spare \cup {full}
            ELSE buffer' = full /\ UNCHANGED spare

\* Handle: collect the entry; a full buffer goes to a goroutine that pushes it.
Handle ==
    IF ~enabled THEN UNCHANGED <<buffer, logged, spare>>
    ELSE /\ logged < MaxEntries
         /\ logged' = logged + 1
         /\ LET full == Append(buffer, logged') IN
            IF Len(full) >= MaxBuffer
            THEN buffer' = <<>> /\ spare' = spare \cup {full}
            ELSE buffer' = full /\ UNCHANGED spare

Log == Handle /\ UNCHANGED <<enabled, caller, flusher, pushed>>

\* pushFn: Relay.PushLogs, which never waits.
Push(batch) ==
    pushed' = [e \in Entries |->
                 pushed[e] + Cardinality({i \in DOMAIN batch : batch[i] = e})]

PushSpare ==
    \E batch \in spare :
        /\ Push(batch)
        /\ spare' = spare \ {batch}
        /\ UNCHANGED <<enabled, buffer, logged, caller, flusher>>

\* flush: what a goroutine becomes that takes the buffer, if there is any.
Taken(p, otherwise) ==
    IF buffer = <<>> THEN [p EXCEPT !.pc = otherwise]
    ELSE [p EXCEPT !.pc = "push", !.batch = buffer]

-----------------------------------------------------------------------------
\* Enable and Disable change the flag in one critical section ...
Enable(c) ==
    /\ At(c, "idle") /\ ~enabled
    /\ Cardinality({l \in Loops : flusher[l].pc # "unborn"})
         + Cardinality({d \in Callers : At(d, "spawn")}) < MaxLoops
    /\ enabled' = TRUE
    /\ To(c, "spawn")
    /\ UNCHANGED <<buffer, logged, flusher, spare, pushed>>

\* ... then start a loop (the next one) ...
Spawn(c) ==
    /\ At(c, "spawn")
    /\ \E l \in Loops :
          /\ \A k \in Loops : flusher[k].pc = "unborn" <=> k >= l
          /\ flusher' = [flusher EXCEPT ![l].pc = "top"]
    /\ To(c, "log")
    /\ UNCHANGED <<enabled, buffer, logged, spare, pushed>>

Disable(c) ==
    /\ At(c, "idle") /\ enabled
    /\ enabled' = FALSE
    /\ To(c, "signal")
    /\ UNCHANGED <<buffer, logged, flusher, spare, pushed>>

Listening == {l \in Loops : flusher[l].pc = "select"}

\* Mutant: the stop channel is closed instead, which every loop notices.
Signal_All(c) ==
    /\ At(c, "signal")
    /\ flusher' = [l \in Loops |-> IF l \in Listening THEN [Unborn EXCEPT !.pc = "ended"]
                                   ELSE flusher[l]]
    /\ To(c, "flush")
    /\ UNCHANGED <<enabled, buffer, logged, spare, pushed>>

\* ... or stop one: whichever loop is at its select, if any is.
Signal(c) ==
    /\ At(c, "signal")
    /\ IF Listening = {} THEN UNCHANGED flusher
       ELSE \E l \in Listening : flusher' = [flusher EXCEPT ![l].pc = "ended"]
    /\ To(c, "flush")
    /\ UNCHANGED <<enabled, buffer, logged, spare, pushed>>

\* Mutant: Disable leaves what is in the buffer to the loop.
FlushLast_Skip(c) ==
    /\ At(c, "flush")
    /\ To(c, "log")
    /\ UNCHANGED <<enabled, buffer, logged, flusher, spare, pushed>>

FlushLast(c) ==
    /\ At(c, "flush")
    /\ caller' = [caller EXCEPT ![c] = Taken(@, "log")]
    /\ buffer' = <<>>
    /\ UNCHANGED <<enabled, logged, flusher, spare, pushed>>

PushLast(c) ==
    /\ At(c, "push")
    /\ Push(caller[c].batch)
    /\ To(c, "log")
    /\ UNCHANGED <<enabled, buffer, logged, flusher, spare>>

\* Both end by logging what they did.
Announce(c) ==
    /\ At(c, "log")
    /\ Handle
    /\ To(c, "idle")
    /\ UNCHANGED <<enabled, flusher, pushed>>

-----------------------------------------------------------------------------
\* flushLoop.
Select(l) ==
    /\ flusher[l].pc = "top"
    /\ flusher' = [flusher EXCEPT ![l].pc = "select"]
    /\ UNCHANGED <<enabled, buffer, logged, caller, spare, pushed>>

Tick(l) ==
    /\ flusher[l].pc = "select"
    /\ flusher' = [flusher EXCEPT ![l].pc = "flush"]
    /\ UNCHANGED <<enabled, buffer, logged, caller, spare, pushed>>

\* Mutant: the loop copies the buffer and does not empty it.
Flush_Copies(l) ==
    /\ flusher[l].pc = "flush"
    /\ flusher' = [flusher EXCEPT ![l] = Taken(@, "top")]
    /\ UNCHANGED <<enabled, buffer, logged, caller, spare, pushed>>

Flush(l) ==
    /\ flusher[l].pc = "flush"
    /\ flusher' = [flusher EXCEPT ![l] = Taken(@, "top")]
    /\ buffer' = <<>>
    /\ UNCHANGED <<enabled, logged, caller, spare, pushed>>

PushBatch(l) ==
    /\ flusher[l].pc = "push"
    /\ Push(flusher[l].batch)
    /\ flusher' = [flusher EXCEPT ![l] = [pc |-> "top", batch |-> <<>>]]
    /\ UNCHANGED <<enabled, buffer, logged, caller, spare>>

-----------------------------------------------------------------------------
CallerStep(c) == Spawn(c) \/ Signal(c) \/ FlushLast(c) \/ PushLast(c) \/ Announce(c)
LoopStep(l) == Select(l) \/ Tick(l) \/ Flush(l) \/ PushBatch(l)

Next ==
    \/ Log \/ PushSpare
    \/ \E c \in Callers : Enable(c) \/ Disable(c) \/ CallerStep(c)
    \/ \E l \in Loops : LoopStep(l)

Spec == Init /\ [][Next]_vars

\* Goroutines run and the ticker ticks; nobody has to log or to command.
FairSpec ==
    /\ Spec
    /\ WF_vars(PushSpare)
    /\ \A c \in Callers : WF_vars(CallerStep(c))
    /\ \A l \in Loops : WF_vars(LoopStep(l))

-----------------------------------------------------------------------------
InBatch(e, batch) == \E i \in DOMAIN batch : batch[i] = e

\* Every entry logged while forwarding was enabled is in one place, the buffer
\* or the hands of one goroutine, until it is pushed, and it is pushed once:
\* the loops of several Enables and a Disable all empty the same buffer.
EntriesConserved ==
    \A e \in 1..logged :
        Cardinality({c \in Callers : InBatch(e, caller[c].batch)})
          + Cardinality({l \in Loops : InBatch(e, flusher[l].batch)})
          + Cardinality({b \in spare : InBatch(e, b)})
          + Cardinality({i \in DOMAIN buffer : buffer[i] = e})
          + pushed[e] = 1

\* No entry is left in the buffer for the next Enable to send, however late:
\* when forwarding is disabled and no Disable is on its way, it is empty.
NothingLeftBehind ==
    ~enabled /\ (\A c \in Callers : caller[c].pc \notin {"signal", "flush"})
        => buffer = <<>>

\* A buffered entry is pushed in the end: the stop signal of a Disable may miss
\* the loop it was meant for, or hit that of a later Enable, but never the
\* last one while forwarding is enabled.
EntriesForwarded == \A e \in Entries : InBatch(e, buffer) ~> pushed[e] = 1
=============================================================================
