------------------------------- MODULE Poller -------------------------------
(***************************************************************************)
(* The HTTP polling fallback (internal/relay/poller.go) with the handler   *)
(* of commands it calls (cmd/pyrolis-connector/main.go) and the cloud's    *)
(* list of pending commands.  Requests and their answers may be lost, and  *)
(* an acknowledgement may arrive after the client has given it up.  The    *)
(* process may end between any two steps, and a restart command ends it a  *)
(* second after it was handled, wherever the polling loop is by then.      *)
(***************************************************************************)
EXTENDS Naturals, Sequences, FiniteSets, SequencesExt

CONSTANTS
    Commands,      \* identifiers that the cloud gives commands
    Kind,          \* per command: what it asks for
    MaxIssued,     \* a bound on the commands that the cloud issues
    MaxRuns,       \* a bound on the goroutines that execute one query
    Lossy          \* requests of the poller and their answers may be lost

\* What runs in a goroutine of its own is a query (or a sync), or a restart;
\* an edit stands for every command that the handler executes itself.
Kinds == {"query", "edit", "restart"}

ASSUME PollerAssumption ==
    /\ Kind \in [Commands -> Kinds]
    /\ MaxIssued \in Nat /\ MaxRuns \in Nat \ {0}
    /\ Lossy \in BOOLEAN

VARIABLES
    issued,        \* commands the cloud has ever had
    pending,       \* commands it lists as not acknowledged
    acks,          \* acknowledgements on their way
    poller,        \* where the polling loop is
    batch,         \* the commands of the poll that are left
    running,       \* per query, how many goroutines are executing it
    restarting,    \* restart commands whose goroutine sleeps
    executed,      \* commands that were carried out (history)
    cut,           \* commands whose goroutine an end of the process cut off (history)
    confirmed      \* commands whose acknowledgement was answered (history)

process == <<poller, batch, running, restarting>>
history == <<executed, cut, confirmed>>
pollerVars == <<issued, pending, acks, process, history>>

Asking(kind) == {c \in Commands : Kind[c] = kind}

\* Commands that goroutines of this process are at work on, and all that the
\* handler was called with.
InHand == {c \in Commands : running[c] > 0} \cup restarting
Handled == executed \cup cut \cup InHand

PollerTypeOK ==
    /\ pending \subseteq issued /\ issued \subseteq Commands
    /\ acks \subseteq Handled /\ confirmed \subseteq Handled /\ Handled \subseteq issued
    /\ poller \in {"wait", "fetch", "handle", "ack", "answer"}
    /\ batch \in Seq(issued) /\ IsInjective(batch)
    /\ poller \in {"handle", "ack", "answer"} <=> batch # <<>>
    /\ running \in [Commands -> 0..MaxRuns]
    /\ \A c \in Commands \ Asking("query") : running[c] = 0
    /\ restarting \subseteq Asking("restart")

PollerInit ==
    /\ issued = {} /\ pending = {} /\ acks = {}
    /\ poller = "wait" /\ batch = <<>>
    /\ running = [c \in Commands |-> 0] /\ restarting = {}
    /\ executed = {} /\ cut = {} /\ confirmed = {}

-----------------------------------------------------------------------------
(* The cloud.                                                              *)

Issue(c) ==
    /\ c \notin issued /\ Cardinality(issued) < MaxIssued
    /\ issued' = issued \cup {c} /\ pending' = pending \cup {c}
    /\ UNCHANGED <<acks, process, history>>

\* An acknowledgement arrives, whether or not the client still waits for it.
Acknowledge(c) ==
    /\ c \in acks
    /\ acks' = acks \ {c} /\ pending' = pending \ {c}
    /\ UNCHANGED <<issued, process, history>>

LoseAck(c) ==
    /\ Lossy /\ c \in acks
    /\ acks' = acks \ {c}
    /\ UNCHANGED <<issued, pending, process, history>>

-----------------------------------------------------------------------------
(* The polling loop.                                                       *)

Loop(p, b) == poller' = p /\ batch' = b
Rest == UNCHANGED <<issued, pending, running, restarting, executed, cut>>

\* The interval is over: the list of pending commands is requested.
Poll ==
    /\ poller = "wait"
    /\ Loop("fetch", <<>>)
    /\ UNCHANGED <<acks, confirmed>> /\ Rest

\* Mutant: the commands are acknowledged when they are received.
Fetched_AcksAll ==
    /\ poller = "fetch"
    /\ \E b \in SetToSeqs(pending) : Loop(IF b = <<>> THEN "wait" ELSE "handle", b)
    /\ acks' = acks \cup pending
    /\ UNCHANGED confirmed /\ Rest

\* The answer, in an order the cloud chooses; it may be empty.
Fetched ==
    /\ poller = "fetch"
    /\ \E b \in SetToSeqs(pending) : Loop(IF b = <<>> THEN "wait" ELSE "handle", b)
    /\ UNCHANGED <<acks, confirmed>> /\ Rest

FetchFails ==
    /\ poller = "fetch" /\ Lossy
    /\ Loop("wait", <<>>)
    /\ UNCHANGED <<acks, confirmed>> /\ Rest

\* Mutant: no command is begun any more when the process is about to restart.
Handle_Skips ==
    /\ poller = "handle"
    /\ restarting' = restarting \cup ({Head(batch)} \cap Asking("restart"))
    /\ Loop("ack", batch)
    /\ UNCHANGED <<issued, pending, acks, running, history>>

\* The handler starts a goroutine for a query and for a restart, another one
\* each time the command is delivered; any other it executes itself.
Handle ==
    /\ poller = "handle"
    /\ LET c == Head(batch)
       IN  /\ Kind[c] = "query" => running[c] < MaxRuns
           /\ running' = IF Kind[c] = "query" THEN [running EXCEPT ![c] = @ + 1] ELSE running
           /\ restarting' = IF Kind[c] = "restart" THEN restarting \cup {c} ELSE restarting
           /\ executed' = IF Kind[c] = "edit" THEN executed \cup {c} ELSE executed
    /\ Loop("ack", batch)
    /\ UNCHANGED <<issued, pending, acks, cut, confirmed>>

\* The request with the acknowledgement leaves.
SendAck ==
    /\ poller = "ack"
    /\ acks' = acks \cup {Head(batch)}
    /\ Loop("answer", batch)
    /\ UNCHANGED confirmed /\ Rest

\* On to the next command, if there is one.
Advance == Loop(IF Len(batch) = 1 THEN "wait" ELSE "handle", Tail(batch))

Acked ==
    /\ poller = "answer" /\ Head(batch) \notin pending
    /\ confirmed' = confirmed \cup {Head(batch)}
    /\ Advance
    /\ UNCHANGED acks /\ Rest

\* Mutant: a failed acknowledgement is repeated from the list of a stale poll.
AckFails_Again ==
    /\ poller \in {"ack", "answer"} /\ Lossy
    /\ \E b \in SetToSeqs(issued) : b # <<>> /\ Loop("handle", b)
    /\ UNCHANGED <<acks, confirmed>> /\ Rest

\* Not sent, lost, answered with an error, or given up after 15 seconds: it is
\* logged, and the loop goes on.
AckFails ==
    /\ poller \in {"ack", "answer"} /\ Lossy
    /\ Advance
    /\ UNCHANGED <<acks, confirmed>> /\ Rest

-----------------------------------------------------------------------------
(* The goroutines of the handler, and the end of the process.              *)

\* One of the goroutines of a query is done.  Its result goes to the channel of
\* the WebSocket, which is Relay's; SubmitResult is never called.
Execute(c) ==
    /\ running[c] > 0
    /\ running' = [running EXCEPT ![c] = @ - 1]
    /\ executed' = executed \cup {c}
    /\ UNCHANGED <<issued, pending, acks, poller, batch, restarting, cut, confirmed>>

\* The process ends, which carries out the commands in done, and the next one
\* begins with what the cloud has on its list.
Ended(done) ==
    /\ Loop("wait", <<>>)
    /\ running' = [c \in Commands |-> 0] /\ restarting' = {}
    /\ executed' = executed \cup done /\ cut' = cut \cup (InHand \ done)
    /\ UNCHANGED <<issued, pending, acks, confirmed>>

RestartSelf == restarting # {} /\ Ended(restarting)

Crash == Ended({})

-----------------------------------------------------------------------------
PollerNext ==
    \/ \E c \in Commands : Issue(c) \/ Acknowledge(c) \/ LoseAck(c) \/ Execute(c)
    \/ Poll \/ Fetched \/ FetchFails \/ Handle \/ SendAck \/ Acked \/ AckFails
    \/ RestartSelf \/ Crash

\* The loop and the goroutines run.  A request is answered if it is made again
\* and again, whatever order the list has: neither the network nor the process
\* fails each time.
Fairness ==
    /\ WF_pollerVars(Poll) /\ WF_pollerVars(FetchFails) /\ WF_pollerVars(AckFails)
    /\ WF_pollerVars(RestartSelf)
    /\ SF_pollerVars(Handle) /\ SF_pollerVars(SendAck) /\ SF_pollerVars(Acked)
    /\ \A c \in Commands :
          /\ SF_pollerVars(Fetched /\ batch' # <<>> /\ batch'[1] = c)
          /\ SF_pollerVars(Acknowledge(c)) /\ WF_pollerVars(Execute(c))

PollerSpec == PollerInit /\ [][PollerNext]_pollerVars /\ Fairness

-----------------------------------------------------------------------------
\* What the cloud no longer lists was carried out.  Only a query or a restart
\* may still be in the hands of a goroutine, since it is acknowledged as soon as
\* that was started: the end of the process then loses it, and nothing else
\* does, whatever requests get lost.
LostOnlyWhenCut ==
    \A c \in issued \ pending :
        c \in executed \/ (Kind[c] # "edit" /\ c \in InHand \cup cut)

\* A command whose acknowledgement was answered is not handled again, by this
\* process or by a later one.
AckedIsOver == poller = "handle" => ToSet(batch) \cap confirmed = {}

\* Every command is carried out or cut off, and at some time taken off the
\* cloud's list.
EveryCommandHandled ==
    \A c \in Commands : c \in issued ~> c \in executed \cup cut /\ c \notin pending

=============================================================================
