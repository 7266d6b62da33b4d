------------------------------ MODULE MCServices ------------------------------
(***************************************************************************)
(* Instances, for TLC, of what the event loop must bring to an end: the    *)
(* client's idle events, the dispatch of ready sockets, the handling of    *)
(* signals, the dialogue of idle mode and the attempts to connect.  Each   *)
(* module has its own picture of the loop, so one run checks them side by  *)
(* side: "served" is the one that works, the others rest.                  *)
(***************************************************************************)
EXTENDS MpdClient, Sockets, Signals, IdleSource, AsyncConnect

VARIABLE served

parts == <<s, sockets, signals, talk, attempts>>

ServicesInit ==
    /\ served \in {"client", "sockets", "signals", "talk", "attempts"}
    /\ Init /\ SocketsInit /\ SignalsInit /\ TalkInit /\ AttemptsInit
    /\ served # "talk" => talk = NoTalk(Known)             \* one of each that rests
    /\ served # "attempts" => attempts.fallback

ServicesNext ==
    /\ UNCHANGED served
    /\ \/ served = "client" /\ Next /\ UNCHANGED <<sockets, signals, talk, attempts>>
       \/ served = "sockets" /\ SocketsNext /\ UNCHANGED <<s, signals, talk, attempts>>
       \/ served = "signals" /\ SignalsNext /\ UNCHANGED <<s, sockets, talk, attempts>>
       \/ served = "talk" /\ TalkNext /\ UNCHANGED <<s, sockets, signals, attempts>>
       \/ served = "attempts" /\ AttemptsNext /\ UNCHANGED <<s, sockets, signals, talk>>
       \/ (signals.finished \/ sockets.quit) /\ UNCHANGED parts     \* the program has ended

\* What each module assumes, of the part that works: each condition has at most one disjunct for
\* each part, and so is theirs side by side.
ClientStep(A) == served = "client" /\ A /\ UNCHANGED <<sockets, signals, talk, attempts, served>>
SocketStep(A) == served = "sockets" /\ A /\ UNCHANGED <<s, signals, talk, attempts, served>>
SignalStep(A) == served = "signals" /\ A /\ UNCHANGED <<s, sockets, talk, attempts, served>>
TalkStep(A) == served = "talk" /\ A /\ UNCHANGED <<s, sockets, signals, attempts, served>>
AttemptStep(A) == served = "attempts" /\ A /\ UNCHANGED <<s, sockets, signals, talk, served>>
ServicesFairness ==
    /\ SF_parts(ClientStep(OnReconnectTimer) \/ TalkStep(EnterIdleMode))
    /\ SF_parts(ClientStep(OnEnterIdleTimer))
    /\ SF_parts(ClientStep(OnConnectTimeout))
    /\ SF_parts(ClientStep(CancelDialog \/ EnterPassword))
    /\ WF_parts(ClientStep(OnUpdateScreen) \/ SocketStep(LoopStep) \/ SignalStep(MonitorStep)
                    \/ TalkStep(MpdReads) \/ AttemptStep(ConnectEvent))
    /\ WF_parts(ClientStep(Sockets) \/ TalkStep(ClientRuns) \/ AttemptStep(ConnectTimeout))
    /\ WF_parts(ClientStep(Poll /\ "mpd" \in s'.ready) \/ AttemptStep(ReceiveWelcome))
    /\ WF_parts(ClientStep(Poll /\ s.task = "dialog" /\ "input" \in s'.ready))

ServicesSpec == ServicesInit /\ [][ServicesNext]_<<parts, served>> /\ ServicesFairness

\* What has been found ready, announced, sent, reported or begun comes to its end.
ReportsServed == EventsNoticed /\ ReadyGetsItsTurn /\ SignalIsHandled /\ NewsArrive /\ AttemptEnds
=============================================================================
