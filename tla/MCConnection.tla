---------------------------- MODULE MCConnection ----------------------------
(* The connection to the cloud for TLC, in its two parts: the attempts to  *)
(* reach it, which are Reconnection's, or one session, which is Monitors'. *)
EXTENDS Monitors, Reconnection

VARIABLE part      \* which of them goes on

MCInit == part \in {"attempts", "session"} /\ Init /\ ReconnectInit

Session(A) == part = "session" /\ A /\ UNCHANGED <<part, reconnectVars>>
Attempts(A) == part = "attempts" /\ A /\ UNCHANGED <<part, vars>>

MCNext ==
    \/ Session(Cease) \/ Session(Reply) \/ Session(Say)
    \/ Session(Read) \/ Session(Ask) \/ Session(ReadFails)
    \/ Session(Heartbeat) \/ Session(PongTimeout) \/ Session(Pushed) \/ Session(Watch)
    \/ Session(Lock) \/ Session(Unlock) \/ Session(Tick) \/ Session(Over)
    \/ Attempts(Edit) \/ Attempts(AssignUrl) \/ Attempts(AssignId) \/ Attempts(Save)
    \/ Attempts(Reconnect) \/ Attempts(TestConnection)
    \/ Attempts(Begin) \/ Attempts(StoreCancel) \/ Attempts(Dialled) \/ Attempts(Joined)
    \/ Attempts(Fails) \/ Attempts(GiveUp) \/ Attempts(Sleep) \/ Attempts(Wake)
    \/ Attempts(Restart)

MCSpec == MCInit /\ [][MCNext]_<<part, vars, reconnectVars>>
=============================================================================
