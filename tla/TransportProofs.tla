--------------------------- MODULE TransportProofs ---------------------------
(***************************************************************************)
(* Theorems about the two ways of reaching the cloud: Reconnection, for    *)
(* attempts of any duration and any number of changes of the               *)
(* configuration, and Poller, for any set of commands and any network.     *)
(***************************************************************************)
EXTENDS Reconnection, Poller, FiniteSetTheorems, TLAPS

-----------------------------------------------------------------------------
(* Giving up.                                                              *)

Delays == {1, 2, 4, 8, 16, 32, 60}

TimeInv ==
    /\ delay \in Delays
    /\ failing \in Nat /\ outage = failing
    /\ failed \in BOOLEAN
    /\ pc \in {"ended", "sleep"} => failed = TRUE
    /\ failed = FALSE => failing = 0
    /\ pc = "sleep" => failing <= selfRestartTimeout
    /\ pc = "begin" => failing <= 375

\* A sleep takes at most 75 seconds.
LEMMA JitterBound == ASSUME delay \in Delays PROVE \A j \in Jitter : j \in Nat /\ j <= 75
<1>1. CASE delay = 1
  BY <1>1 DEF Jitter
<1>2. CASE delay = 2
  BY <1>2 DEF Jitter
<1>3. CASE delay = 4
  BY <1>3 DEF Jitter
<1>4. CASE delay = 8
  BY <1>4 DEF Jitter
<1>5. CASE delay = 16
  BY <1>5 DEF Jitter
<1>6. CASE delay = 32
  BY <1>6 DEF Jitter
<1>7. CASE delay = 60
  BY <1>7 DEF Jitter
<1> QED
  BY <1>1, <1>2, <1>3, <1>4, <1>5, <1>6, <1>7 DEF Delays

\* The delay stays one of the powers of two up to the cap, or the cap.
LEMMA DoubledDelay == ASSUME delay \in Delays PROVE Doubled \in Delays
  BY DEF Doubled, Delays, maxReconnectDelay

\* What the loop measures is bounded whenever it goes to sleep.
LEMMA TimeStep == ASSUME ReconnectionAssumption, TimeInv, [ReconnectNext]_reconnectVars PROVE TimeInv'
<1> USE DEF TimeInv, ReconnectionAssumption
<1>1. CASE Edit \/ AssignUrl \/ AssignId \/ Save
  BY <1>1 DEF Edit, AssignUrl, AssignId, Save, timeVars
<1>2. CASE Reconnect \/ TestConnection
  BY <1>2 DEF Reconnect, TestConnection, timeVars
<1>3. CASE Begin \/ StoreCancel \/ Dialled \/ Joined
  BY <1>3 DEF Begin, StoreCancel, Dialled, Joined, timeVars
<1>4. CASE Fails
  BY <1>4 DEF Fails
<1>5. CASE GiveUp \/ Sleep
  BY <1>5 DEF GiveUp, Sleep, timeVars, selfRestartTimeout
<1>6. CASE Wake
  <2>1. PICK j \in Jitter : failing' = failing + j /\ outage' = outage + j
    BY <1>6 DEF Wake
  <2>2. j \in Nat /\ j <= 75
    BY JitterBound, <2>1
  <2>3. delay' \in Delays
    BY <1>6, DoubledDelay DEF Wake
  <2>4. failed' = failed /\ pc' = "begin" /\ failing <= 300
    BY <1>6 DEF Wake, selfRestartTimeout
  <2>5. failed = TRUE
    BY <1>6 DEF Wake
  <2> QED
    BY <2>1, <2>2, <2>3, <2>4, <2>5
<1>7. CASE Restart
  <2>1. failed' \in BOOLEAN
    BY <1>7 DEF Restart
  <2>2. delay' \in Delays
    BY <1>7 DEF Restart, Delays
  <2> QED
    BY <1>7, <2>1, <2>2 DEF Restart
<1>8. CASE UNCHANGED reconnectVars
  BY <1>8 DEF reconnectVars, timeVars
<1> QED
  BY <1>1, <1>2, <1>3, <1>4, <1>5, <1>6, <1>7, <1>8 DEF ReconnectNext

\* A relay that cannot connect restarts the process in time: no attempt begins
\* later than the limit and the longest sleep after the first failure.
THEOREM GivesUp == ASSUME ReconnectionAssumption PROVE ReconnectSpec => []GivesUpInTime
<1>1. ASSUME ReconnectInit PROVE TimeInv
  <2>1. failed \in BOOLEAN
    BY <1>1 DEF ReconnectInit
  <2>2. delay \in Delays
    BY <1>1 DEF ReconnectInit, Delays
  <2> QED
    BY <1>1, <2>1, <2>2 DEF ReconnectInit, TimeInv
<1>2. TimeInv /\ [ReconnectNext]_reconnectVars => TimeInv'
  BY TimeStep
<1>3. TimeInv => GivesUpInTime
  BY DEF TimeInv, GivesUpInTime, selfRestartTimeout, maxReconnectDelay
<1> QED
  BY <1>1, <1>2, <1>3, PTL DEF ReconnectSpec

-----------------------------------------------------------------------------
(* The load on the server.                                                 *)

\* The delay that follows n attempts.
DelayAfter(n) == IF n <= 6 THEN <<1, 2, 4, 8, 16, 32, 60>>[n + 1] ELSE 60

\* The delay tells how many attempts there were, up to the cap; and no attempt is
\* counted before a failure, when the outage would begin again.
LoadInv ==
    /\ attempts \in Nat /\ outage \in Nat
    /\ delay = DelayAfter(attempts)
    /\ outage >= Least(attempts)
    /\ failed \in BOOLEAN
    /\ pc \in {"ended", "sleep"} => failed = TRUE
    /\ failed = FALSE => attempts = 0

\* The attempts before the cap is reached, and those after it.
LEMMA AttemptCases ==
    ASSUME NEW n \in Nat
    PROVE  n = 0 \/ n = 1 \/ n = 2 \/ n = 3 \/ n = 4 \/ n = 5 \/ n >= 6
  OBVIOUS

\* One attempt more doubles the delay, up to the cap, and adds its least sleep.
LEMMA OneMore ==
    ASSUME NEW n \in Nat, delay = DelayAfter(n)
    PROVE  /\ Doubled = DelayAfter(n + 1)
           /\ \A j \in Jitter : j \in Nat /\ Least(n) + j >= Least(n + 1)
<1>1. CASE n = 0
  BY <1>1 DEF DelayAfter, Least, Doubled, maxReconnectDelay, Jitter
<1>2. CASE n = 1
  BY <1>2 DEF DelayAfter, Least, Doubled, maxReconnectDelay, Jitter
<1>3. CASE n = 2
  BY <1>3 DEF DelayAfter, Least, Doubled, maxReconnectDelay, Jitter
<1>4. CASE n = 3
  BY <1>4 DEF DelayAfter, Least, Doubled, maxReconnectDelay, Jitter
<1>5. CASE n = 4
  BY <1>5 DEF DelayAfter, Least, Doubled, maxReconnectDelay, Jitter
<1>6. CASE n = 5
  BY <1>6 DEF DelayAfter, Least, Doubled, maxReconnectDelay, Jitter
<1>7. CASE n >= 6
  <2>1. delay = 60 /\ Least(n + 1) = Least(n) + 45 /\ DelayAfter(n + 1) = 60
    BY <1>7 DEF DelayAfter, Least
  <2>2. Doubled = 60 /\ Jitter = {45, 60, 75}
    BY <2>1 DEF Doubled, Jitter, maxReconnectDelay
  <2>3. Least(n) \in Nat
    BY <1>7 DEF Least
  <2> QED
    BY <2>1, <2>2, <2>3
<1> QED
  BY AttemptCases, <1>1, <1>2, <1>3, <1>4, <1>5, <1>6, <1>7

\* Only a sleep adds an attempt, and a new process begins both counts again.
LEMMA LoadStep == ASSUME ReconnectionAssumption, LoadInv, [ReconnectNext]_reconnectVars PROVE LoadInv'
<1> USE DEF LoadInv, ReconnectionAssumption
<1>1. CASE Edit \/ AssignUrl \/ AssignId \/ Save
  BY <1>1 DEF Edit, AssignUrl, AssignId, Save, timeVars
<1>2. CASE Reconnect \/ TestConnection
  BY <1>2 DEF Reconnect, TestConnection, timeVars
<1>3. CASE Begin \/ StoreCancel \/ Dialled \/ Joined
  BY <1>3 DEF Begin, StoreCancel, Dialled, Joined, timeVars
<1>4. CASE Fails
  <2>1. PICK d \in Durations : outage' = IF failed THEN outage + d ELSE 0
    BY <1>4 DEF Fails
  <2>2. d \in Nat
    BY <2>1
  <2>3. attempts' = attempts /\ delay' = delay /\ failed' = TRUE
    BY <1>4 DEF Fails
  <2>4. CASE failed = TRUE
    <3>1. Least(attempts) \in Nat
      BY AttemptCases DEF Least
    <3> QED
      BY <2>1, <2>2, <2>3, <2>4, <3>1
  <2>5. CASE failed = FALSE
    BY <2>1, <2>3, <2>5 DEF Least
  <2> QED
    BY <2>4, <2>5
<1>5. CASE GiveUp \/ Sleep
  BY <1>5 DEF GiveUp, Sleep, timeVars
<1>6. CASE Wake
  <2>1. PICK j \in Jitter : outage' = outage + j
    BY <1>6 DEF Wake
  <2>2. attempts' = attempts + 1 /\ delay' = Doubled /\ failed' = failed /\ pc' = "begin"
    BY <1>6 DEF Wake
  <2>3. failed = TRUE
    BY <1>6 DEF Wake
  <2>4. /\ delay' = DelayAfter(attempts + 1)
        /\ j \in Nat /\ Least(attempts) + j >= Least(attempts + 1)
    BY <2>1, <2>2, OneMore
  <2>5. Least(attempts) \in Nat /\ Least(attempts + 1) \in Nat
    BY AttemptCases DEF Least
  <2>6. outage' >= Least(attempts')
    BY <2>1, <2>2, <2>4, <2>5
  <2> QED
    BY <2>1, <2>2, <2>3, <2>4, <2>6
<1>7. CASE Restart
  <2>1. failed' \in BOOLEAN /\ failed' = FALSE
    BY <1>7 DEF Restart
  <2>2. attempts' = 0 /\ outage' = 0 /\ delay' = 1 /\ pc' = "begin"
    BY <1>7 DEF Restart
  <2> QED
    BY <2>1, <2>2 DEF DelayAfter, Least
<1>8. CASE UNCHANGED reconnectVars
  BY <1>8 DEF reconnectVars, timeVars
<1> QED
  BY <1>1, <1>2, <1>3, <1>4, <1>5, <1>6, <1>7, <1>8 DEF ReconnectNext

\* A relay that cannot connect tries ever less often: so many attempts take at
\* least the sleeps between them, each twice the one before it up to the cap.
THEOREM BoundsLoad == ASSUME ReconnectionAssumption PROVE ReconnectSpec => []LoadBounded
<1>1. ASSUME ReconnectInit PROVE LoadInv
  <2>1. failed \in BOOLEAN /\ failed = FALSE
    BY <1>1 DEF ReconnectInit
  <2>2. attempts = 0 /\ outage = 0 /\ delay = 1 /\ pc = "begin"
    BY <1>1 DEF ReconnectInit
  <2> QED
    BY <2>1, <2>2 DEF LoadInv, DelayAfter, Least
<1>2. LoadInv /\ [ReconnectNext]_reconnectVars => LoadInv'
  BY LoadStep
<1>3. LoadInv => LoadBounded
  BY DEF LoadInv, LoadBounded
<1> QED
  BY <1>1, <1>2, <1>3, PTL DEF ReconnectSpec

-----------------------------------------------------------------------------
(* Changes of the configuration.                                           *)

Live == pc \in {"dial", "join", "joined"}

\* What was assigned before a Reconnect is still there after it; a session that
\* read the configuration before the call is cancelled by it, or was missed.
ConfigInv ==
    /\ config \in [url : Nat, id : Nat] /\ used \in [url : Nat, id : Nat]
    /\ edits \in Nat /\ promised \in Nat /\ promised <= edits
    /\ editor \in {"idle", "url", "id", "save", "reconnect"}
    /\ config.url >= promised /\ config.id >= promised
    /\ editor \in {"id", "save", "reconnect"} => config.url = edits
    /\ editor \in {"save", "reconnect"} => config.id = edits
    /\ stored \in BOOLEAN /\ cancelled \in BOOLEAN /\ missed \in BOOLEAN
    /\ Live => stored = TRUE
    /\ (pc = "url" \/ Live) /\ cancelled = FALSE /\ missed = FALSE =>
          used.url >= promised
    /\ pc \in {"join", "joined"} /\ cancelled = FALSE /\ missed = FALSE =>
          used.id >= promised

\* Every step of the editor and of the loop keeps that.
LEMMA ConfigStep == ASSUME ConfigInv, [ReconnectNext]_reconnectVars PROVE ConfigInv'
<1> USE DEF ConfigInv, Live
<1>1. CASE Edit
  BY <1>1 DEF Edit, sessionVars
<1>2. CASE AssignUrl
  BY <1>2 DEF AssignUrl, sessionVars
<1>3. CASE AssignId
  BY <1>3 DEF AssignId, sessionVars
<1>4. CASE Save
  BY <1>4 DEF Save, sessionVars
<1>5. CASE Reconnect
  <2>1. cancelled' \in BOOLEAN /\ missed' \in BOOLEAN /\ stored' \in BOOLEAN
    BY <1>5 DEF Reconnect, Cancel
  <2>2. Live' => cancelled' = TRUE
    BY <1>5 DEF Reconnect, Cancel
  <2>3. pc' = "url" => missed' = TRUE
    BY <1>5 DEF Reconnect
  <2> QED
    BY <1>5, <2>1, <2>2, <2>3 DEF Reconnect
<1>6. CASE TestConnection
  BY <1>6 DEF TestConnection, Cancel, configVars
<1>7. CASE Begin
  BY <1>7 DEF Begin, configVars
<1>8. CASE StoreCancel
  BY <1>8 DEF StoreCancel, configVars
<1>9. CASE Dialled
  BY <1>9 DEF Dialled, configVars
<1>10. CASE Joined
  BY <1>10 DEF Joined, configVars, sessionVars
<1>11. CASE Fails
  BY <1>11 DEF Fails, configVars
<1>12. CASE GiveUp \/ Sleep \/ Wake
  BY <1>12 DEF GiveUp, Sleep, Wake, configVars, sessionVars
<1>13. CASE Restart
  BY <1>13 DEF Restart
<1>14. CASE UNCHANGED reconnectVars
  BY <1>14 DEF reconnectVars, configVars, sessionVars
<1> QED
  BY <1>1, <1>2, <1>3, <1>4, <1>5, <1>6, <1>7, <1>8, <1>9, <1>10, <1>11, <1>12, <1>13, <1>14
     DEF ReconnectNext

\* A session that goes on after a Reconnect uses what was configured before
\* that call, unless the call came before the session's context was stored.
THEOREM UsesNewConfig == ReconnectSpec => []NewConfigUsed
<1>1. ASSUME ReconnectInit PROVE ConfigInv
  <2>1. stored \in BOOLEAN /\ cancelled \in BOOLEAN /\ missed \in BOOLEAN
    BY <1>1 DEF ReconnectInit
  <2>2. config \in [url : Nat, id : Nat] /\ used \in [url : Nat, id : Nat]
    BY <1>1 DEF ReconnectInit
  <2>3. config.url = 0 /\ config.id = 0
    BY <1>1 DEF ReconnectInit
  <2> QED
    BY <1>1, <2>1, <2>2, <2>3 DEF ReconnectInit, ConfigInv, Live
<1>2. ConfigInv /\ [ReconnectNext]_reconnectVars => ConfigInv'
  BY ConfigStep
<1>3. ConfigInv => NewConfigUsed
  BY DEF ConfigInv, Live, NewConfigUsed
<1> QED
  BY <1>1, <1>2, <1>3, PTL DEF ReconnectSpec
-----------------------------------------------------------------------------
(* Types.                                                                  *)

\* The configuration has no version that was not begun, and what the session
\* has read of it is no later than what it is.
TypeInv == ReconnectTypeOK /\ config.url <= edits /\ config.id <= edits

\* Every step keeps the types.
LEMMA TypeStep == ASSUME ReconnectionAssumption, TypeInv, [ReconnectNext]_reconnectVars PROVE TypeInv'
<1> USE DEF TypeInv, ReconnectTypeOK, Versions, ReconnectionAssumption
<1>1. CASE Edit
  BY <1>1 DEF Edit, sessionVars, timeVars
<1>2. CASE AssignUrl
  BY <1>2 DEF AssignUrl, sessionVars, timeVars
<1>3. CASE AssignId
  BY <1>3 DEF AssignId, sessionVars, timeVars
<1>4. CASE Save
  BY <1>4 DEF Save, sessionVars, timeVars
<1>5. CASE Reconnect
  BY <1>5 DEF Reconnect, Cancel, timeVars
<1>6. CASE TestConnection
  BY <1>6 DEF TestConnection, Cancel, configVars, timeVars
<1>7. CASE Begin
  <2>1. {stored, cancelled, missed, failed, reached}' \subseteq BOOLEAN
    BY <1>7, Zenon DEF Begin, timeVars, configVars
  <2> QED
    BY <1>7, <2>1 DEF Begin, configVars, timeVars
<1>8. CASE StoreCancel
  BY <1>8 DEF StoreCancel, configVars, timeVars
<1>9. CASE Dialled
  BY <1>9 DEF Dialled, configVars, timeVars
<1>10. CASE Joined
  BY <1>10 DEF Joined, configVars, sessionVars, timeVars
<1>11. CASE Fails
  <2>1. {stored, cancelled, missed, failed, reached}' \subseteq BOOLEAN
    BY <1>11, Zenon DEF Fails, timeVars, configVars
  <2> QED
    BY <1>11, <2>1 DEF Fails, configVars, timeVars
<1>12. CASE GiveUp \/ Sleep
  BY <1>12 DEF GiveUp, Sleep, configVars, sessionVars, timeVars
<1>13. CASE Wake
  <2>1. PICK j \in Jitter : failing' = failing + j /\ outage' = outage + j
    BY <1>13 DEF Wake
  <2>2. j \in Nat
    BY JitterBound, <2>1 DEF Delays
  <2>3. delay' \in {1, 2, 4, 8, 16, 32, 60}
    BY <1>13, DoubledDelay DEF Wake, Delays
  <2>4. failing' \in Nat /\ outage' \in Nat /\ attempts' \in Nat /\ failing' <= outage'
    BY <1>13, <2>1, <2>2 DEF Wake
  <2> QED
    BY <1>13, <2>3, <2>4 DEF Wake, configVars, sessionVars
<1>14. CASE Restart
  <2>1. {stored, cancelled, missed, failed, reached}' \subseteq BOOLEAN
    BY <1>14, Zenon DEF Restart, timeVars, configVars
  <2> QED
    BY <1>14, <2>1 DEF Restart, configVars, timeVars
<1>15. CASE UNCHANGED reconnectVars
  BY <1>15 DEF reconnectVars, configVars, sessionVars, timeVars
<1> QED
  BY <1>1, <1>2, <1>3, <1>4, <1>5, <1>6, <1>7, <1>8, <1>9, <1>10, <1>11, <1>12, <1>13, <1>14, <1>15
     DEF ReconnectNext

\* Versions, delays and durations have their types, and a session has read no
\* version that the configuration does not have yet.
THEOREM TypeCorrect == ASSUME ReconnectionAssumption PROVE ReconnectSpec => []ReconnectTypeOK
<1>1. ASSUME ReconnectInit PROVE TypeInv
  <2>1. {stored, cancelled, missed, failed, reached} \subseteq BOOLEAN
    BY <1>1, Zenon DEF ReconnectInit
  <2> QED
    BY <1>1, <2>1 DEF ReconnectInit, TypeInv, ReconnectTypeOK, Versions, ReconnectionAssumption
<1>2. TypeInv /\ [ReconnectNext]_reconnectVars => TypeInv'
  BY TypeStep
<1>3. TypeInv => ReconnectTypeOK
  BY DEF TypeInv
<1> QED
  BY <1>1, <1>2, <1>3, PTL DEF ReconnectSpec

-----------------------------------------------------------------------------
(* The polling fallback.                                                   *)

\* What the polling loop holds is distinct commands; past the head none is
\* confirmed, and the head is not before it is acknowledged.
PolledTypeInv ==
    /\ pending \subseteq issued /\ issued \subseteq Commands /\ IsFiniteSet(issued)
    /\ batch \in Seq(issued)
    /\ poller \in {"wait", "fetch", "handle", "ack", "answer"}
    /\ poller \in {"handle", "ack", "answer"} <=> batch # <<>>
    /\ running \in [Commands -> 0..MaxRuns]
    /\ \A c \in Commands : running[c] > 0 => Kind[c] = "query"
    /\ \A c \in restarting : c \in Commands /\ Kind[c] = "restart"
    /\ acks \subseteq Handled /\ confirmed \subseteq Handled /\ Handled \subseteq issued

Distinct == \A i, j \in DOMAIN batch : batch[i] = batch[j] => i = j

Over ==
    /\ confirmed \cap pending = {}
    /\ \A i \in DOMAIN batch : batch[i] \notin confirmed

\* An edit is carried out where it is handled, anything else by a goroutine
\* that is at work, done or cut off.
Done == \A c \in Handled : c \in executed \/ (Kind[c] # "edit" /\ c \in InHand \cup cut)

PolledInv ==
    /\ PolledTypeInv /\ Distinct /\ Over /\ Done
    /\ issued \ pending \subseteq Handled
    /\ poller \in {"ack", "answer"} => batch[1] \in Handled

-----------------------------------------------------------------------------
\* A sequence of a finite set's elements holds each of them once.
LEMMA Ordering ==
    ASSUME NEW S, IsFiniteSet(S), NEW b \in SetToSeqs(S)
    PROVE  /\ b \in Seq(S)
           /\ \A i, j \in DOMAIN b : b[i] = b[j] => i = j
<1>1. Cardinality(S) \in Nat
  BY FS_CardinalityType
<1> QED
  BY <1>1 DEF SetToSeqs

\* The invariant holds before anything is issued.
LEMMA PolledInit == ASSUME PollerAssumption PROVE PollerInit => PolledInv
  BY FS_EmptySet
     DEF PollerAssumption, PollerInit, PolledInv, PolledTypeInv, Distinct, Over, Done,
         Handled, InHand

\* With the process go its goroutines: what they were at is done or cut off.
LEMMA PolledEnded ==
    ASSUME PollerAssumption, PolledInv, NEW done \in SUBSET restarting, Ended(done)
    PROVE  PolledInv'
<1> USE DEF PollerAssumption
<1>1. /\ poller' = "wait" /\ batch' = <<>> /\ UNCHANGED <<issued, pending, acks, confirmed>>
      /\ running' = [c \in Commands |-> 0] /\ restarting' = {}
      /\ executed' = executed \cup done /\ cut' = cut \cup (InHand \ done)
  BY DEF Ended, Loop
<1>2. InHand' = {} /\ done \subseteq InHand
  BY <1>1 DEF InHand
<1>3. Handled' = Handled
  BY <1>1, <1>2 DEF Handled
<1>4. \A c \in InHand : Kind[c] # "edit"
  BY DEF InHand, PolledInv, PolledTypeInv
<1>5. Done'
  <2> SUFFICES ASSUME NEW c \in Handled
               PROVE  c \in executed' \/ (Kind[c] # "edit" /\ c \in cut')
    BY <1>3 DEF Done
  <2> QED
    BY <1>1, <1>2, <1>4 DEF PolledInv, Done
<1>6. PolledTypeInv'
  BY <1>1, <1>3 DEF PolledInv, PolledTypeInv
<1> QED
  BY <1>1, <1>3, <1>5, <1>6 DEF PolledInv, Distinct, Over

\* A step of the loop that changes neither goroutines nor what was carried out.
LEMMA PolledKeeps ==
    ASSUME UNCHANGED <<running, restarting, executed, cut>>, PolledInv
    PROVE  InHand' = InHand /\ Handled' = Handled /\ Done'
<1>1. InHand' = InHand
  BY DEF InHand
<1>2. Handled' = Handled
  BY <1>1 DEF Handled
<1> QED
  BY <1>1, <1>2 DEF PolledInv, Done

\* The next command is taken from what is left: distinct, and not confirmed.
LEMMA PolledAdvance ==
    ASSUME PolledInv, batch # <<>>, Advance, Rest, UNCHANGED acks,
           confirmed' = confirmed \/ (confirmed' = confirmed \cup {Head(batch)}
                                      /\ Head(batch) \notin pending /\ Head(batch) \in Handled)
    PROVE  PolledInv'
<1> USE DEF PolledInv, PolledTypeInv, Distinct, Over
<1>0. /\ UNCHANGED <<issued, pending, running, restarting, executed, cut>>
      /\ Handled' = Handled /\ Done'
  BY PolledKeeps DEF Rest
<1>1. batch' = Tail(batch) /\ poller' = IF Len(batch) = 1 THEN "wait" ELSE "handle"
  BY DEF Advance, Loop
<1>2. /\ Len(batch) \in Nat \ {0} /\ Len(Tail(batch)) = Len(batch) - 1
      /\ Tail(batch) \in Seq(issued) /\ Head(batch) = batch[1]
      /\ DOMAIN batch = 1..Len(batch) /\ DOMAIN Tail(batch) = 1..(Len(batch) - 1)
      /\ \A i \in DOMAIN Tail(batch) : Tail(batch)[i] = batch[i + 1]
  OBVIOUS
<1>3. \A i \in DOMAIN Tail(batch) : i + 1 \in DOMAIN batch /\ i + 1 # 1 /\ 1 \in DOMAIN batch
  BY <1>2
<1>4. \A i \in DOMAIN Tail(batch) : Tail(batch)[i] \notin confirmed'
  BY <1>2, <1>3
<1>5. \A i, j \in DOMAIN Tail(batch) : Tail(batch)[i] = Tail(batch)[j] => i = j
  BY <1>2, <1>3
<1>6. poller' = "handle" <=> Tail(batch) # <<>>
  BY <1>1, <1>2
<1>7. PolledTypeInv'
  BY <1>0, <1>1, <1>2, <1>6
<1>8. confirmed' \cap pending' = {} /\ poller' \notin {"ack", "answer"}
  BY <1>0, <1>1
<1> QED
  BY <1>0, <1>1, <1>4, <1>5, <1>7, <1>8

\* The handler keeps it: what it executes itself is done, and the rest is in
\* the hands of a goroutine.
LEMMA PolledHandle == ASSUME PollerAssumption, PolledInv, Handle PROVE PolledInv'
<1> USE DEF PollerAssumption, PolledInv, PolledTypeInv
<1>1. PICK c \in Commands : c = Head(batch) /\ c = batch[1] /\ c \in issued /\ batch # <<>>
  BY DEF Handle
<1>2. /\ Kind[c] = "query" => running[c] < MaxRuns
      /\ running' = IF Kind[c] = "query" THEN [running EXCEPT ![c] = running[c] + 1] ELSE running
      /\ restarting' = IF Kind[c] = "restart" THEN restarting \cup {c} ELSE restarting
      /\ executed' = IF Kind[c] = "edit" THEN executed \cup {c} ELSE executed
      /\ poller' = "ack" /\ batch' = batch
      /\ UNCHANGED <<issued, pending, acks, cut, confirmed>>
  BY <1>1 DEF Handle, Loop
<1>3. Kind[c] \in Kinds /\ running[c] \in 0..MaxRuns
  OBVIOUS
<1>4. /\ running' \in [Commands -> 0..MaxRuns]
      /\ \A d \in Commands : running[d] > 0 => running'[d] > 0
      /\ \A d \in Commands \ {c} : running'[d] = running[d]
      /\ running'[c] > 0 => Kind[c] = "query"
      /\ Kind[c] = "query" => running'[c] > 0
  BY <1>2, <1>3
<1>5. /\ InHand \subseteq InHand' /\ InHand' \subseteq InHand \cup {c}
      /\ Kind[c] # "edit" => c \in InHand'
  BY <1>2, <1>3, <1>4 DEF InHand, Kinds
<1>6. Handled' = Handled \cup {c}
  BY <1>2, <1>5 DEF Handled
<1>7. Done'
  <2> SUFFICES ASSUME NEW d \in Handled \cup {c}
               PROVE  d \in executed' \/ (Kind[d] # "edit" /\ d \in InHand' \cup cut')
    BY <1>6 DEF Done
  <2> QED
    BY <1>2, <1>5 DEF Done
<1>8. PolledTypeInv'
  <2>1. \A d \in Commands : running'[d] > 0 => Kind[d] = "query"
    BY <1>4
  <2>2. \A d \in restarting' : d \in Commands /\ Kind[d] = "restart"
    BY <1>2
  <2> QED
    BY <1>1, <1>2, <1>4, <1>6, <2>1, <2>2
<1> QED
  BY <1>1, <1>2, <1>6, <1>7, <1>8 DEF Distinct, Over

\* Every step keeps the invariant.
LEMMA PolledStep ==
    ASSUME PollerAssumption, PolledInv, [PollerNext]_pollerVars PROVE PolledInv'
<1> USE DEF PolledInv, PolledTypeInv, Distinct, Over
<1>1. ASSUME NEW c \in Commands, Issue(c) PROVE PolledInv'
  <2>1. IsFiniteSet(issued')
    BY <1>1, FS_AddElement DEF Issue
  <2>2. batch \in Seq(issued \cup {c})
    OBVIOUS
  <2>3. Handled' = Handled /\ Done'
    BY <1>1, PolledKeeps DEF Issue, process, history
  <2>4. c \notin Handled
    BY <1>1 DEF Issue
  <2>5. confirmed' \cap pending' = {}
    BY <1>1, <2>4 DEF Issue, history
  <2>6. PolledTypeInv'
    BY <1>1, <2>1, <2>2, <2>3 DEF Issue, process, history
  <2> QED
    BY <1>1, <2>3, <2>5, <2>6 DEF Issue, process, history
<1>2. ASSUME NEW c \in Commands, Acknowledge(c) PROVE PolledInv'
  <2>1. Handled' = Handled /\ Done'
    BY <1>2, PolledKeeps DEF Acknowledge, process, history
  <2> QED
    BY <1>2, <2>1 DEF Acknowledge, process, history
<1>3. ASSUME NEW c \in Commands, LoseAck(c) PROVE PolledInv'
  <2>1. Handled' = Handled /\ Done'
    BY <1>3, PolledKeeps DEF LoseAck, process, history
  <2> QED
    BY <1>3, <2>1 DEF LoseAck, process, history
<1>4. ASSUME NEW c \in Commands, Execute(c) PROVE PolledInv'
  <2>1. /\ running[c] \in 1..MaxRuns /\ executed' = executed \cup {c}
        /\ running' = [running EXCEPT ![c] = running[c] - 1]
        /\ UNCHANGED <<issued, pending, acks, poller, batch, restarting, cut, confirmed>>
    BY <1>4 DEF Execute, PollerAssumption
  <2>2. /\ running' \in [Commands -> 0..MaxRuns]
        /\ \A d \in Commands \ {c} : running'[d] = running[d]
    BY <2>1 DEF PollerAssumption
  <2>3. InHand \subseteq InHand' \cup {c} /\ InHand' \subseteq InHand /\ c \in InHand
    BY <2>1, <2>2 DEF InHand
  <2>4. Handled' = Handled
    BY <2>1, <2>3 DEF Handled
  <2>5. Done'
    <3> SUFFICES ASSUME NEW d \in Handled
                 PROVE  d \in executed' \/ (Kind[d] # "edit" /\ d \in InHand' \cup cut')
      BY <2>4 DEF Done
    <3> QED
      BY <2>1, <2>3 DEF Done
  <2>6. \A d \in Commands : running'[d] > 0 => Kind[d] = "query"
    BY <2>1, <2>2
  <2> QED
    BY <2>1, <2>2, <2>4, <2>5, <2>6
<1>5. CASE Poll \/ FetchFails
  <2>1. batch' = <<>> /\ poller' \in {"wait", "fetch"}
    BY <1>5 DEF Poll, FetchFails, Loop
  <2>2. UNCHANGED <<issued, pending, acks, confirmed, running, restarting, executed, cut>>
    BY <1>5 DEF Poll, FetchFails, Rest
  <2>3. Handled' = Handled /\ Done'
    BY <2>2, PolledKeeps
  <2> QED
    BY <2>1, <2>2, <2>3
<1>6. CASE Fetched
  <2>1. PICK b \in SetToSeqs(pending) : Loop(IF b = <<>> THEN "wait" ELSE "handle", b)
    BY <1>6 DEF Fetched
  <2>2. IsFiniteSet(pending)
    BY FS_Subset
  <2>3. b \in Seq(pending) /\ \A i, j \in DOMAIN b : b[i] = b[j] => i = j
    BY <2>2, Ordering
  <2>4. b \in Seq(issued) /\ \A i \in DOMAIN b : b[i] \in pending
    BY <2>3
  <2>5. UNCHANGED <<issued, pending, acks, confirmed, running, restarting, executed, cut>>
    BY <1>6 DEF Fetched, Rest
  <2>6. Handled' = Handled /\ Done'
    BY <2>5, PolledKeeps
  <2> QED
    BY <2>1, <2>3, <2>4, <2>5, <2>6 DEF Loop
<1>7. CASE Handle
  BY <1>7, PolledHandle
<1>8. CASE SendAck
  <2>1. Head(batch) = batch[1] /\ batch[1] \in Handled
    BY <1>8 DEF SendAck
  <2>2. Handled' = Handled /\ Done'
    BY <1>8, PolledKeeps DEF SendAck, Rest
  <2> QED
    BY <1>8, <2>1, <2>2 DEF SendAck, Loop, Rest
<1>9. CASE Acked
  <2>1. Head(batch) = batch[1] /\ batch[1] \in Handled /\ batch # <<>>
    BY <1>9 DEF Acked
  <2> QED
    BY <1>9, <2>1, PolledAdvance DEF Acked
<1>10. CASE AckFails
  BY <1>10, PolledAdvance DEF AckFails
<1>11. CASE RestartSelf \/ Crash
  BY <1>11, PolledEnded DEF RestartSelf, Crash
<1>12. CASE UNCHANGED pollerVars
  <2>1. UNCHANGED <<issued, pending, acks, poller, batch, confirmed>>
        /\ UNCHANGED <<running, restarting, executed, cut>>
    BY <1>12 DEF pollerVars, process, history
  <2>2. Handled' = Handled /\ Done'
    BY <2>1, PolledKeeps
  <2> QED
    BY <2>1, <2>2
<1> QED
  BY <1>1, <1>2, <1>3, <1>4, <1>5, <1>6, <1>7, <1>8, <1>9, <1>10, <1>11, <1>12 DEF PollerNext

\* What the loop holds are distinct commands the cloud has issued, and it holds
\* some just while it handles or acknowledges one.
THEOREM PolledTypes == ASSUME PollerAssumption PROVE PollerSpec => []PollerTypeOK
<1>1. PolledInv => PollerTypeOK
  BY DEF PolledInv, PolledTypeInv, Distinct, PollerTypeOK, IsInjective, Asking, PollerAssumption
<1>2. PolledInv /\ [PollerNext]_pollerVars => PolledInv'
  BY PolledStep
<1> QED
  BY PolledInit, <1>1, <1>2, PTL DEF PollerSpec

\* A command that the cloud has taken off its list was carried out, or its
\* goroutine is at work or was cut off with the process, which cannot happen to
\* an edit: whatever the network loses and whenever the process ends.
THEOREM PolledLostOnlyWhenCut ==
    ASSUME PollerAssumption PROVE PollerSpec => []LostOnlyWhenCut
<1>1. PolledInv => LostOnlyWhenCut
  BY DEF PolledInv, Done, LostOnlyWhenCut
<1>2. PolledInv /\ [PollerNext]_pollerVars => PolledInv'
  BY PolledStep
<1> QED
  BY PolledInit, <1>1, <1>2, PTL DEF PollerSpec

\* A command whose acknowledgement was answered is never handled again.
THEOREM PolledOnce == ASSUME PollerAssumption PROVE PollerSpec => []AckedIsOver
<1>1. PolledInv => AckedIsOver
  BY DEF PolledInv, Over, AckedIsOver, ToSet
<1>2. PolledInv /\ [PollerNext]_pollerVars => PolledInv'
  BY PolledStep
<1> QED
  BY PolledInit, <1>1, <1>2, PTL DEF PollerSpec
=============================================================================
