---------------------------- MODULE Reconnection ----------------------------
(***************************************************************************)
(* connectLoop and the beginning of runSession (internal/relay/relay.go):  *)
(* when the relay tries again, when it gives up and restarts the process,  *)
(* and with which configuration it connects.  The web server's setup pages *)
(* (internal/web/routes.go) change the configuration in place, field by    *)
(* field, while a session reads it, and then call Reconnect; edits that    *)
(* overlap are ConfigStore's.  Durations are in seconds and pass in whole  *)
(* steps of the loop, which is alone in measuring them.                    *)
(***************************************************************************)
EXTENDS Naturals, Sequences

CONSTANTS
    Durations,     \* that an attempt or a session may take
    MaxEdits       \* bound: changes of the configuration

maxReconnectDelay == 60
selfRestartTimeout == 300

ASSUME ReconnectionAssumption ==
    /\ Durations \subseteq Nat
    /\ MaxEdits \in Nat

VARIABLES
    config,        \* versions of the URL with its key, and of the connector's id
    editor,        \* how far the goroutine of a setup page is with a change
    edits,         \* number of changes begun, which numbers the versions
    promised,      \* the version that the latest Reconnect was called for (history)
    pc,            \* where connectLoop is
    used,          \* what the session has read of the configuration
    stored,        \* r.cancel belongs to this session
    cancelled,     \* the session's context
    missed,        \* Reconnect came before the context was stored (history)
    delay,         \* before the next attempt
    failing,       \* time.Since(firstFailureAt)
    failed,        \* firstFailureAt is set
    outage,        \* time since the first failure of this process (history)
    attempts,      \* attempts since the first failure (history)
    reached        \* a session was joined since the first failure (history)

configVars == <<config, editor, edits, promised>>
sessionVars == <<used, stored, cancelled, missed>>
timeVars == <<delay, failing, failed, outage, attempts, reached>>
reconnectVars == <<configVars, pc, sessionVars, timeVars>>

Versions == [url : 0..MaxEdits, id : 0..MaxEdits]

ReconnectTypeOK ==
    /\ config \in Versions /\ used \in Versions
    /\ used.url <= config.url /\ used.id <= config.id
    /\ editor \in {"idle", "url", "id", "save", "reconnect"}
    /\ edits \in 0..MaxEdits /\ promised \in 0..edits
    /\ pc \in {"begin", "url", "dial", "join", "joined", "ended", "sleep", "restart"}
    /\ {stored, cancelled, missed, failed, reached} \subseteq BOOLEAN
    /\ delay \in {1, 2, 4, 8, 16, 32, 60}
    /\ {failing, outage, attempts} \subseteq Nat
    /\ failing <= outage

ReconnectInit ==
    /\ config = [url |-> 0, id |-> 0] /\ used = config
    /\ editor = "idle"
    /\ edits = 0 /\ promised = 0
    /\ pc = "begin"
    /\ stored = FALSE /\ cancelled = FALSE /\ missed = FALSE
    /\ delay = 1
    /\ failing = 0 /\ failed = FALSE /\ outage = 0 /\ attempts = 0 /\ reached = FALSE

-----------------------------------------------------------------------------
(* The setup pages.                                                        *)

Edit ==
    /\ editor = "idle" /\ edits < MaxEdits
    /\ edits' = edits + 1
    /\ editor' = "url"
    /\ UNCHANGED <<config, promised, pc, sessionVars, timeVars>>

AssignUrl ==
    /\ editor = "url"
    /\ config' = [url |-> edits, id |-> config.id]
    /\ editor' = "id"
    /\ UNCHANGED <<edits, promised, pc, sessionVars, timeVars>>

AssignId ==
    /\ editor = "id"
    /\ config' = [url |-> config.url, id |-> edits]
    /\ editor' = "save"
    /\ UNCHANGED <<edits, promised, pc, sessionVars, timeVars>>

\* handleSetupSave returns without a Reconnect if Save fails.
Save ==
    /\ editor = "save"
    /\ editor' \in {"reconnect", "idle"}
    /\ UNCHANGED <<config, edits, promised, pc, sessionVars, timeVars>>

\* Mutant: a dial that is under way is left alone.
Cancel_Joined == cancelled' = (cancelled \/ (stored /\ pc = "joined"))

\* r.cancel is the session's, or that of an earlier one, whose context is done.
Cancel == cancelled' = (cancelled \/ stored)

Reconnect ==
    /\ editor = "reconnect"
    /\ Cancel
    /\ missed' = (missed \/ pc = "url")
    /\ promised' = edits
    /\ editor' = "idle"
    /\ UNCHANGED <<config, edits, pc, used, stored, timeVars>>

\* handleTestConnection calls it too.
TestConnection ==
    /\ Cancel
    /\ UNCHANGED <<configVars, pc, used, stored, missed, timeVars>>

-----------------------------------------------------------------------------
(* The session.                                                            *)

Begin ==
    /\ pc = "begin"
    /\ pc' = "url"
    /\ used' = [url |-> config.url, id |-> used.id]
    /\ cancelled' = FALSE /\ missed' = FALSE
    /\ UNCHANGED <<configVars, stored, timeVars>>

StoreCancel ==
    /\ pc = "url"
    /\ pc' = "dial"
    /\ stored' = TRUE
    /\ UNCHANGED <<configVars, used, cancelled, missed, timeVars>>

Dialled ==
    /\ pc = "dial" /\ ~cancelled
    /\ pc' = "join"
    /\ used' = [url |-> used.url, id |-> config.id]
    /\ UNCHANGED <<configVars, stored, cancelled, missed, timeVars>>

Joined ==
    /\ pc = "join" /\ ~cancelled
    /\ pc' = "joined"
    /\ reached' = failed
    /\ UNCHANGED <<configVars, sessionVars, delay, failing, failed, outage, attempts>>

\* Mutant: the time of the failure is set by every failure.
Fails_Restamps ==
    /\ pc \in {"url", "dial", "join", "joined"}
    /\ pc' = "ended"
    /\ \E d \in Durations :
          /\ failing' = 0
          /\ outage' = IF failed THEN outage + d ELSE 0
    /\ failed' = TRUE
    /\ stored' = FALSE
    /\ UNCHANGED <<configVars, used, cancelled, missed, delay, attempts, reached>>

\* The session ends for any reason, before it begins if the URL is not one, and
\* the loop reads the configuration's pointer again; runSession returns an error in each case.
Fails ==
    /\ pc \in {"url", "dial", "join", "joined"}
    /\ pc' = "ended"
    /\ \E d \in Durations :
          /\ failing' = IF failed THEN failing + d ELSE 0
          /\ outage' = IF failed THEN outage + d ELSE 0
    /\ failed' = TRUE
    /\ stored' = FALSE
    /\ UNCHANGED <<configVars, used, cancelled, missed, delay, attempts, reached>>

GiveUp ==
    /\ pc = "ended" /\ failing > selfRestartTimeout
    /\ pc' = "restart"
    /\ UNCHANGED <<configVars, sessionVars, timeVars>>

Sleep ==
    /\ pc = "ended" /\ failing <= selfRestartTimeout
    /\ pc' = "sleep"
    /\ UNCHANGED <<configVars, sessionVars, timeVars>>

\* A quarter of the delay is added or taken off, in seconds below and above.
Jitter == {(3 * delay) \div 4, delay, (5 * delay + 3) \div 4}

\* Mutant: the delay starts again after each failure.
Doubled_Resets == 1

Doubled == IF 2 * delay > maxReconnectDelay THEN maxReconnectDelay ELSE 2 * delay

Wake ==
    /\ pc = "sleep"
    /\ pc' = "begin"
    /\ \E j \in Jitter : failing' = failing + j /\ outage' = outage + j
    /\ delay' = Doubled
    /\ attempts' = attempts + 1
    /\ UNCHANGED <<configVars, sessionVars, failed, reached>>

\* restartSelf: the next process begins with what is in memory or, if that was
\* not saved, in the file; which does not matter to what it connects with.
Restart ==
    /\ pc = "restart"
    /\ pc' = "begin"
    /\ stored' = FALSE /\ cancelled' = FALSE
    /\ editor' = "idle"
    /\ delay' = 1
    /\ failing' = 0 /\ failed' = FALSE /\ outage' = 0 /\ attempts' = 0 /\ reached' = FALSE
    /\ UNCHANGED <<config, edits, promised, used, missed>>

-----------------------------------------------------------------------------
ReconnectNext ==
    \/ Edit \/ AssignUrl \/ AssignId \/ Save \/ Reconnect \/ TestConnection
    \/ Begin \/ StoreCancel \/ Dialled \/ Joined \/ Fails \/ GiveUp \/ Sleep \/ Wake \/ Restart

ReconnectSpec == ReconnectInit /\ [][ReconnectNext]_reconnectVars

-----------------------------------------------------------------------------
\* A relay that does not get through does not go on trying for long: when an
\* attempt begins, the first failure is no older than the limit and the longest
\* sleep.  So no outage is longer; the other side of a count that no success
\* resets is RestartsOnlyWhenFailing.
GivesUpInTime == pc = "begin" => outage <= selfRestartTimeout + (5 * maxReconnectDelay) \div 4

\* relay.go:251, 256, 267: a "successful session" is to "reset failure tracker",
\* and the process restarts itself "if failing for too long".  It does so too when
\* it was connected for most of the time: runSession returns an error whenever a
\* session ends, so the first connection that is lost counts as failing ever since.
RestartsOnlyWhenFailing == pc = "restart" => ~reached

\* The least time in which n attempts may follow a failure, sleep by sleep: 0, 1,
\* 3, 6, 12 and 24 seconds for the delays 1 to 32, and 45 for each of 60 after them.
Least(n) == IF n <= 6 THEN <<0, 0, 1, 4, 10, 22, 46>>[n + 1] ELSE 46 + 45 * (n - 6)

\* relay.go:293: no "thundering herd": a relay that cannot connect tries ever
\* less often, whatever its attempts last and its configuration becomes.
LoadBounded == outage >= Least(attempts)

\* A session that goes on after a Reconnect has read what was configured before
\* that call, unless the call came before the session's context was stored.
NewConfigUsed ==
    pc = "joined" /\ ~cancelled /\ ~missed => used.url >= promised /\ used.id >= promised

=============================================================================
