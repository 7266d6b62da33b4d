----------------------------- MODULE MpdClient -----------------------------
(***************************************************************************)
(* The life of the connection: struct mpdclient (client/mpdclient.cxx) with *)
(* its idle source (client/gidle.cxx), the callbacks of struct Instance     *)
(* (Main.cxx, callbacks.cxx), the password dialog (screen.cxx) and the      *)
(* event loop which runs them.  What is in the replies is QueueSync.tla's.  *)
(*                                                                         *)
(* The client has one thread, but its callbacks nest: a request may leave   *)
(* idle mode, whose events run an update, which may lose the connection,    *)
(* which updates the screen ...  A handler is therefore an operator from a  *)
(* state to the set of states it may return in, and handlers are composed   *)
(* as the calls are.  A step is one callback of the event loop.             *)
(***************************************************************************)

CONSTANTS Settings,  \* the server addresses one can connect to
          Answers,   \* bound: how the user may leave the password dialog; a right
                     \* password is named after the permission it gives
          Remote     \* LIRC is in use: commands may come while a dialog is open

ASSUME SettingsAssumption ==
    /\ "default" \in Settings
    /\ Answers \subseteq {"read", "control", "wrong", "cancel"}
    /\ Remote \in BOOLEAN

VARIABLE s

Permissions == {"none", "read", "control"}

States ==
    [link       : BOOLEAN,      \* the TCP connection is usable (external)
     perm       : Permissions,  \* what MPD lets it do (external)
     changed    : BOOLEAN,      \* MPD has an idle event for it (external)
     settings   : Settings,     \* current_settings
     connecting : {"no", "socket", "welcome"},  \* async_connect and its phase
     conn       : BOOLEAN,      \* connection != nullptr, and source != nullptr
     idle       : BOOLEAN,
     idleTimer  : BOOLEAN,      \* enter_idle_timer is pending
     auth       : BOOLEAN,      \* authenticating
     playing    : BOOLEAN,
     events     : BOOLEAN,      \* events != 0
     task       : {"none", "dialog", "busy"},   \* query_password_task
     page       : {"connections", "other"},     \* the visible page
     active     : Settings,     \* the address ConnectionsPage shows as active
     reconnect  : BOOLEAN,      \* reconnect_timer is pending
     updTimer   : BOOLEAN,      \* update_timer is pending
     screen     : BOOLEAN,      \* update_screen_event is pending
     ready      : SUBSET {"input", "remote", "mpd"}]  \* ready_sockets

IsReady(c) == c.conn /\ ~c.auth
IsDead(c) == ~c.conn /\ c.connecting = "no"

-----------------------------------------------------------------------------
(* Losing the connection.                                                  *)

\* mpdclient::Disconnect
Disconnect(c) ==
    [c EXCEPT !.link = FALSE, !.perm = "none", !.changed = FALSE,
              !.connecting = "no", !.conn = FALSE, !.idle = FALSE,
              !.idleTimer = FALSE, !.auth = FALSE, !.playing = FALSE,
              !.events = TRUE, !.ready = @ \ {"mpd"}]

\* The coroutine of the dialog ends or is destroyed.
EndTask(c) == [c EXCEPT !.task = "none", !.auth = FALSE]

\* mutant: the dialog survives its connection
CancelTaskNot(c) == c

\* ScreenManager::Update: without a connection, destroy the coroutine (but
\* not while it is the caller).
CancelTask(c) == IF ~c.conn /\ c.task = "dialog" THEN EndTask(c) ELSE c

\* Disconnect() and OnMpdConnectionLost()
ConnectionLost(c) == [CancelTask(Disconnect(c)) EXCEPT !.reconnect = TRUE]

\* Disconnect() and OnMpdConnectFailed()
ConnectFailed(c) == [Disconnect(c) EXCEPT !.reconnect = TRUE]

-----------------------------------------------------------------------------
(* Requests.  These operators describe a client which is not in idle mode. *)

\* OnMpdAuth(), QueryPassword() and EnterPassword() up to the dialog
QueryPassword(c) ==
    IF c.auth \/ c.task # "none" THEN c
    ELSE [c EXCEPT !.task = "dialog", !.auth = TRUE]

Allowed(c, p) == p = "none" \/ c.perm \in {p, "control"}

\* A request which needs the permission p, with HandleError().  The
\* connection may break before the response is complete.
Request(c, p) ==
    {ConnectionLost(c)}
    \cup (IF c.link THEN {IF Allowed(c, p) THEN c ELSE QueryPassword(c)} ELSE {})

\* Update() with a connection
RunStatus(c) ==
    {ConnectionLost(c)}
    \cup (IF ~c.link THEN {}
          ELSE IF Allowed(c, "read") THEN {[c EXCEPT !.playing = p] : p \in BOOLEAN}
          ELSE {QueryPassword([c EXCEPT !.playing = FALSE])})

\* ScreenManager::Update(): ConnectionsPage marks the address in use, other
\* pages may have to reload something.
ShowPage(c) ==
    LET d == CancelTask(c)
    IN  [d EXCEPT !.active = IF d.page = "connections" THEN d.settings ELSE @]

UpdatePage(c) ==
    {ShowPage(c)}
    \cup (IF IsReady(c) /\ c.page = "other" THEN Request(c, "read") ELSE {})

ScheduleEnterIdle(c) == [c EXCEPT !.idleTimer = @ \/ c.conn]

\* auto_update_timer
AutoUpdateTimer(c) == [c EXCEPT !.updTimer = c.playing]

-----------------------------------------------------------------------------
(* Idle mode.                                                              *)

\* mutant: OnIdle() does not schedule the return to idle mode
OnIdleOnce(c) ==
    LET reported == [c EXCEPT !.idle = FALSE, !.changed = FALSE, !.events = TRUE]
    IN  {[AutoUpdateTimer(d) EXCEPT !.events = FALSE] :
            d \in UNION {UpdatePage(u) : u \in RunStatus(reported)}}

\* mpdclient::OnIdle and Instance::OnMpdIdle
OnIdle(c) ==
    LET reported == [c EXCEPT !.idle = FALSE, !.changed = FALSE, !.events = TRUE]
    IN  {ScheduleEnterIdle([AutoUpdateTimer(d) EXCEPT !.events = FALSE]) :
            d \in UNION {UpdatePage(u) : u \in RunStatus(reported)}}

\* MpdIdleSource::Leave: "noidle", then OnIdle() if there were events.  An
\* error (MPD has refused "idle", too) means the connection is lost.
Leave(c) ==
    LET left == [c EXCEPT !.idle = FALSE, !.ready = @ \ {"mpd"}]
    IN  {ConnectionLost(left)}
        \cup (IF ~c.link \/ ~Allowed(c, "read") THEN {}
              ELSE IF c.changed THEN OnIdle(left) ELSE {left})

\* mpdclient::GetConnection, not authenticating
GetConnection(c) ==
    IF c.conn /\ c.idle THEN {ScheduleEnterIdle(d) : d \in Leave(c)} ELSE {c}

\* Any code that calls GetConnection() and sends one request
Command(c, p) ==
    IF c.auth THEN {c}
    ELSE UNION {IF d.conn THEN Request(d, p) ELSE {d} : d \in GetConnection(c)}

\* mpdclient::Update
Update(c) ==
    IF c.auth THEN {c}
    ELSE UNION {IF d.conn THEN RunStatus(d) ELSE {d} : d \in GetConnection(c)}

\* ScreenManager::Update
UpdateScreen(c) ==
    {ShowPage(c)}
    \cup (IF c.page = "other" THEN Command(CancelTask(c), "read") ELSE {})

\* Instance::UpdateClient
UpdateClient(c) ==
    LET updated == IF IsReady(c) /\ (c.events \/ c.playing) THEN Update(c) ELSE {c}
    IN  {[d EXCEPT !.events = FALSE] : d \in UNION {UpdateScreen(u) : u \in updated}}

-----------------------------------------------------------------------------
(* Connecting.                                                             *)

\* mutant: nobody retries when the fallback attempt fails at once
ConnectErrorGivesUp(c) ==
    LET failed == [c EXCEPT !.connecting = "no"]
    IN  IF c.settings = "default" /\ "fallback" \in Settings
        THEN LET fallback == [failed EXCEPT !.settings = "fallback"]
             IN  {[fallback EXCEPT !.connecting = "socket"], fallback}
        ELSE {[failed EXCEPT !.reconnect = TRUE]}

\* OnAsyncMpdConnectError: try the fallback address, or again in 5 seconds.
\* A new attempt may fail at once (the resolver, socket()).
ConnectError(c) ==
    LET failed == [c EXCEPT !.connecting = "no"]
    IN  IF c.settings = "default" /\ "fallback" \in Settings
        THEN LET fallback == [failed EXCEPT !.settings = "fallback"]
             IN  {[fallback EXCEPT !.connecting = "socket"],
                  [fallback EXCEPT !.reconnect = TRUE]}
        ELSE {[failed EXCEPT !.reconnect = TRUE]}

\* DoConnect() and StartConnect()
DoConnect(c) ==
    {[Disconnect(c) EXCEPT !.connecting = "socket"]} \cup ConnectError(Disconnect(c))

\* Connect(): start with the default address again
Connect(c) ==
    DoConnect([c EXCEPT !.settings = IF @ = "fallback" THEN "default" ELSE @])

\* Instance::OnMpdConnected; MPD may be too old
OnMpdConnected(c) ==
    LET connected == [c EXCEPT !.reconnect = FALSE]
    IN  {[Disconnect(connected) EXCEPT !.reconnect = TRUE]}
        \cup {AutoUpdateTimer(d) : d \in UpdateClient(connected)}

\* mpdclient::OnConnected: the password or the tag list may be refused
OnConnected(c) ==
    {ConnectFailed([c EXCEPT !.conn = TRUE])}
    \cup UNION {OnMpdConnected([c EXCEPT !.conn = TRUE, !.link = TRUE, !.perm = p,
                                         !.changed = FALSE, !.idleTimer = TRUE,
                                         !.events = TRUE]) : p \in Permissions}

\* OnAsyncMpdConnect; the password is sent a first time here
OnAsyncMpdConnect(c) ==
    LET connected == [c EXCEPT !.connecting = "no"]
    IN  {[connected EXCEPT !.reconnect = TRUE]} \cup OnConnected(connected)

-----------------------------------------------------------------------------
(* The event loop: sockets are polled when no idle event (update_screen) is *)
(* pending, then the ready ones are served, then timers and idle events.    *)

Looping == s.ready = {}

OnReconnectTimer ==
    /\ Looping /\ s.reconnect
    /\ s' \in Connect([s EXCEPT !.reconnect = FALSE])

\* mutant: idle mode is entered behind the password dialog
OnEnterIdleTimerAlways ==
    /\ Looping /\ s.idleTimer
    /\ s' \in {[s EXCEPT !.idleTimer = FALSE, !.idle = TRUE]}

OnEnterIdleTimer ==
    /\ Looping /\ s.idleTimer
    /\ LET expired == [s EXCEPT !.idleTimer = FALSE]
       IN  IF s.auth THEN s' = expired
           ELSE s' \in {[expired EXCEPT !.idle = TRUE]}
                       \cup (IF s.link THEN {} ELSE {ConnectionLost(expired)})

\* mutant: the timer is not scheduled again
OnUpdateTimerOnce ==
    /\ Looping /\ s.updTimer
    /\ s' \in UpdateClient([s EXCEPT !.updTimer = FALSE])

OnUpdateTimer ==
    /\ Looping /\ s.updTimer
    /\ s' \in {[d EXCEPT !.updTimer = @ \/ d.playing] :
                  d \in UpdateClient([s EXCEPT !.updTimer = FALSE])}

OnUpdateScreen ==
    /\ Looping /\ s.screen
    /\ s' \in {AutoUpdateTimer([d EXCEPT !.events = FALSE]) :
                  d \in UpdateScreen([s EXCEPT !.screen = FALSE])}

\* the 30 seconds of ConnectSocket are over
OnConnectTimeout ==
    /\ Looping /\ s.connecting = "socket"
    /\ s' \in ConnectError(s)

\* MPD's socket is readable in idle mode ...
IdleReadable == s.idle /\ (s.changed \/ ~s.link \/ ~Allowed(s, "read"))

\* ... and may become so while connecting.
Poll ==
    /\ Looping /\ ~s.screen
    /\ \E r \in SUBSET {"input", "remote", "mpd"} :
          /\ r # {}
          /\ "remote" \in r => Remote
          /\ "mpd" \in r => IdleReadable \/ s.connecting # "no"
          /\ IdleReadable => "mpd" \in r
          /\ s' = [s EXCEPT !.ready = r]

Served(socket) == [s EXCEPT !.ready = @ \ {socket}]

\* ConnectSocket::OnEvent
OnSocketConnected ==
    /\ "mpd" \in s.ready /\ s.connecting = "socket"
    /\ s' \in {[Served("mpd") EXCEPT !.connecting = "welcome"]}
              \cup ConnectError(Served("mpd"))

\* AsyncMpdConnect::OnReceive
OnReceive ==
    /\ "mpd" \in s.ready /\ s.connecting = "welcome"
    /\ s' \in OnAsyncMpdConnect(Served("mpd")) \cup ConnectError(Served("mpd"))

\* MpdIdleSource::OnSocketReady
OnSocketReady ==
    /\ "mpd" \in s.ready /\ s.idle
    /\ IF s.link /\ Allowed(s, "read") /\ s.changed
         THEN s' \in OnIdle(Served("mpd"))
         ELSE s' = ConnectionLost(Served("mpd"))

\* ConnectionsPage::Activate
Activate(c) ==
    IF c.page = "connections"
    THEN UNION {DoConnect([c EXCEPT !.settings = a]) : a \in Settings \ {c.active}}
    ELSE {}

\* ScreenManager::Switch, which updates the new page
Switch(c) ==
    UNION {UpdateScreen([c EXCEPT !.page = p]) : p \in {"connections", "other"} \ {c.page}}

\* Instance::OnCommand: nothing of interest, a request, another page, another
\* server.  The volume commands stop the update timer.
OnCommand(c) ==
    LET d == [c EXCEPT !.screen = TRUE]
        controlled == Command(d, "control")
    IN  {d} \cup Command(d, "read") \cup controlled
        \cup {[e EXCEPT !.updTimer = FALSE] : e \in controlled}
        \cup Switch(d) \cup Activate(d)

\* A key or a mouse click, with no dialog on the screen
OnInput ==
    /\ "input" \in s.ready /\ s.task = "none"
    /\ s' \in OnCommand(Served("input"))

\* LIRC does not ask for the dialog; a command may open another dialog, which
\* cancels this one.
OnRemote ==
    /\ "remote" \in s.ready
    /\ s' \in OnCommand(Served("remote"))
              \cup (IF s.task = "dialog"
                      THEN {EndTask([Served("remote") EXCEPT !.screen = TRUE])} ELSE {})

\* A key that edits the password
OnDialogKey ==
    /\ "input" \in s.ready /\ s.task = "dialog"
    /\ s' = [Served("input") EXCEPT !.screen = TRUE]

\* Escape, an empty password or a mouse click
CancelDialog ==
    /\ "input" \in s.ready /\ s.task = "dialog"
    /\ "cancel" \in Answers
    /\ \E key \in BOOLEAN :
          s' = EndTask([Served("input") EXCEPT !.screen = @ \/ key])

\* mutant: the password is accepted, but idle mode is not scheduled
AuthenticationFinishedOnly(c) == RunStatus([c EXCEPT !.events = TRUE])

\* AuthenticationFinished()
AuthenticationFinished(c) ==
    RunStatus(ScheduleEnterIdle([c EXCEPT !.events = TRUE]))

\* The rest of _QueryPassword(): send the password.  A wrong one is reported
\* by HandleAuthError().
SendPassword(c, password) ==
    {ConnectionLost(c)}
    \cup (IF ~c.link THEN {}
          ELSE IF password = "wrong" THEN {c}
          ELSE AuthenticationFinished([c EXCEPT !.perm = password]))

EnterPassword ==
    /\ "input" \in s.ready /\ s.task = "dialog"
    /\ \E password \in Answers \ {"cancel"} :
          LET entered == [Served("input") EXCEPT !.screen = TRUE, !.auth = FALSE]
              sent == UNION {IF d.conn
                               THEN SendPassword([d EXCEPT !.task = "busy"], password)
                               ELSE {d} : d \in GetConnection(entered)}
          IN  s' \in {EndTask(d) : d \in sent}

-----------------------------------------------------------------------------
(* The server.                                                             *)

\* MPD has something to report.
ServerEvent ==
    /\ s.conn /\ s.link /\ ~s.changed
    /\ s' = [s EXCEPT !.changed = TRUE]

\* The connection breaks.
LinkDown ==
    /\ s.link
    /\ s' = [s EXCEPT !.link = FALSE, !.changed = FALSE]

-----------------------------------------------------------------------------
Init ==
    s = [link |-> FALSE, perm |-> "none", changed |-> FALSE,
         settings |-> "default", connecting |-> "no", conn |-> FALSE,
         idle |-> FALSE, idleTimer |-> FALSE, auth |-> FALSE,
         playing |-> FALSE, events |-> FALSE, task |-> "none",
         page |-> "other", active |-> "default",
         reconnect |-> TRUE, updTimer |-> FALSE, screen |-> FALSE, ready |-> {}]

Timers == OnReconnectTimer \/ OnEnterIdleTimer \/ OnUpdateTimer \/ OnConnectTimeout

Sockets ==
    \/ OnSocketConnected \/ OnReceive \/ OnSocketReady
    \/ OnInput \/ OnRemote \/ OnDialogKey \/ CancelDialog \/ EnterPassword

Next == Timers \/ OnUpdateScreen \/ Poll \/ Sockets \/ ServerEvent \/ LinkDown

Spec == Init /\ [][Next]_s

\* The loop runs every due timer before it polls, idle events before it polls
\* again, and every ready socket.  A readable socket is reported by a poll.
LoopFairness ==
    /\ SF_s(OnReconnectTimer) /\ SF_s(OnEnterIdleTimer) /\ SF_s(OnConnectTimeout)
    /\ WF_s(OnUpdateScreen) /\ WF_s(Sockets) /\ WF_s(Poll /\ "mpd" \in s'.ready)

\* The user does not leave the password dialog open forever.
UserFairness ==
    /\ WF_s(Poll /\ s.task = "dialog" /\ "input" \in s'.ready)
    /\ SF_s(CancelDialog \/ EnterPassword)

FairSpec == Spec /\ LoopFairness /\ UserFairness

-----------------------------------------------------------------------------
(* Properties.                                                             *)

\* The type of the state.
TypeOK == s \in States

\* Idle mode excludes every other use of the connection: what the assertions
\* of OnEnterIdleTimer, OnIdle and OnIdleError say (mpdclient.cxx:21, 22, 57,
\* 76), at every time one of these callbacks may come.
IdleExclusive ==
    /\ s.idle => IsReady(s) /\ ~s.idleTimer
    /\ s.idleTimer => s.conn
    /\ "mpd" \in s.ready => s.idle \/ s.connecting # "no"

\* The dialog owns the connection until it is left ("exclude others from using
\* the connection meanwhile", screen.cxx:387), so its coroutine is never
\* destroyed by a call it makes itself.  A dialog that has outlived its
\* connection is gone before there is another one.
DialogOwnsConnection ==
    /\ s.auth => s.conn /\ s.task = "dialog"
    /\ s.task = "dialog" /\ ~s.auth => ~s.conn /\ s.screen /\ "mpd" \notin s.ready
    /\ s.task # "busy"

\* However a connection or an attempt ends, there is another attempt to come,
\* and none that would cut off a connection.
ReconnectsWhenDead ==
    /\ IsDead(s) => s.reconnect
    /\ s.conn => ~s.reconnect /\ s.connecting = "no"

\* While MPD is playing, the display is refreshed: the update timer is pending
\* or an update of the screen, which restarts it.
DisplayRefreshed == s.playing => s.conn /\ (s.updTimer \/ s.screen)

\* Whatever has to happen without the user or MPD has its timer: a dead client the
\* next attempt (screen_client.cxx, Main.cxx), a playing one the next update.
TimersPending == ReconnectsWhenDead /\ DisplayRefreshed

\* A connection that may read is in idle mode or about to enter it whenever the
\* user is not being asked for a password: "this ensures that everything is reloaded
\* and "idle" mode is re-entered" (mpdclient.hxx:308).
Attentive == IsReady(s) /\ Allowed(s, "read") => s.idle \/ s.idleTimer

\* The assertion of OnReconnectTimer (Main.cxx:98): it reconnects a dead
\* client only.
RestartsOnlyWhenDead == [][OnReconnectTimer => IsDead(s)]_s

\* Every event of MPD is noticed and every broken connection found out, unless
\* the client is attached to another server before.
EventsNoticed == s.conn /\ (s.changed \/ ~s.link) ~> ~(s.conn /\ (s.changed \/ ~s.link))
=============================================================================
