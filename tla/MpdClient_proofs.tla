-------------------------- MODULE MpdClient_proofs --------------------------
(***************************************************************************)
(* Proofs about MpdClient: the invariants of the connection, for any set of *)
(* servers, any behaviour of the user and with or without LIRC.             *)
(*                                                                         *)
(* Handlers are operators from a state to a set of states, so the proof     *)
(* follows the calls: a lemma per handler says that every state it returns  *)
(* in is Sane when the state it was called in is, and a callback combines   *)
(* the lemmas of the handlers it calls.                                     *)
(***************************************************************************)
EXTENDS MpdClient, TLAPS

\* What holds between any two calls, in the middle of a callback, too, when
\* update_screen_event may have just been taken.
Nearly(c) ==
    /\ c \in States
    /\ c.idle => c.conn /\ ~c.auth /\ ~c.idleTimer
    /\ c.idleTimer => c.conn
    /\ "mpd" \in c.ready => c.idle \/ c.connecting # "no"
    /\ c.auth => c.conn /\ c.task = "dialog"
    /\ c.task = "dialog" /\ ~c.auth => ~c.conn /\ "mpd" \notin c.ready
    /\ ~c.conn /\ c.connecting = "no" => c.reconnect
    /\ c.conn => ~c.reconnect /\ c.connecting = "no"
    /\ c.playing => c.conn

\* A dialog that has lost its connection waits for ScreenManager::Update().
Sane(c) == Nearly(c) /\ (c.task = "dialog" /\ ~c.auth => c.screen)

\* What no handler below the callbacks changes.
Keeps(c, d) ==
    /\ d.screen = c.screen
    /\ d.task = "busy" => c.task = "busy"
    /\ d.ready \subseteq c.ready

Refreshed(c) == c.playing => c.updTimer \/ c.screen

\* ... and what a request does to the display.
Continues(c, d) == d.playing => c.playing /\ d.updTimer = c.updTimer

\* The inductive invariant: the state between two callbacks.
Inv ==
    /\ Sane(s) /\ s.task # "busy" /\ Refreshed(s)
    /\ "remote" \in s.ready => Remote

-----------------------------------------------------------------------------

\* Disconnect() leaves nothing of the connection behind.
LEMMA DisconnectType ==
    ASSUME NEW c \in States
    PROVE  /\ Disconnect(c) \in States
           /\ ~Disconnect(c).conn /\ ~Disconnect(c).idle /\ ~Disconnect(c).idleTimer
           /\ ~Disconnect(c).auth /\ ~Disconnect(c).playing
           /\ Disconnect(c).connecting = "no" /\ "mpd" \notin Disconnect(c).ready
           /\ Disconnect(c).task = c.task /\ Disconnect(c).screen = c.screen
           /\ Disconnect(c).settings = c.settings
           /\ Disconnect(c).ready \subseteq c.ready
<1> DEFINE d == [c EXCEPT !.link = FALSE, !.perm = "none", !.changed = FALSE,
                          !.connecting = "no", !.conn = FALSE, !.idle = FALSE,
                          !.idleTimer = FALSE, !.auth = FALSE, !.playing = FALSE,
                          !.events = TRUE]
<1>1. d \in States
  BY ZenonT(60) DEF States, Permissions
<1>2. /\ ~d.conn /\ ~d.idle /\ ~d.idleTimer /\ ~d.auth /\ ~d.playing
      /\ d.connecting = "no" /\ d.task = c.task /\ d.screen = c.screen
      /\ d.settings = c.settings /\ d.ready = c.ready /\ d.updTimer = c.updTimer
  BY DEF States
<1>3. Disconnect(c) = [d EXCEPT !.ready = @ \ {"mpd"}]
  BY <1>2 DEF Disconnect, States
<1> HIDE DEF d
<1>4. Disconnect(c) \in States
  BY <1>1, <1>3 DEF States
<1>5. QED
  BY <1>1, <1>2, <1>3, <1>4 DEF States

\* After a lost connection the client is dead, without a dialog, and will try
\* to connect again.
LEMMA ConnectionLostSane ==
    ASSUME NEW c \in States
    PROVE  /\ Sane(ConnectionLost(c)) /\ Keeps(c, ConnectionLost(c))
           /\ ~ConnectionLost(c).conn /\ ~ConnectionLost(c).playing
<1> DEFINE d == Disconnect(c)
<1>1. /\ d \in States /\ ~d.conn /\ ~d.idle /\ ~d.idleTimer /\ ~d.auth /\ ~d.playing
      /\ d.connecting = "no" /\ "mpd" \notin d.ready /\ d.task = c.task
      /\ d.screen = c.screen /\ d.ready \subseteq c.ready
  BY DisconnectType
<1> HIDE DEF d
<1> DEFINE e == CancelTask(d)
<1>2. /\ e \in States /\ ~e.conn /\ ~e.idle /\ ~e.idleTimer /\ ~e.auth /\ ~e.playing
      /\ e.connecting = "no" /\ "mpd" \notin e.ready
      /\ e.task \in {c.task, "none"} \ {"dialog"}
      /\ e.screen = c.screen /\ e.ready \subseteq c.ready
  <2>1. CASE d.task = "dialog"
    <3>1. e = [d EXCEPT !.task = "none", !.auth = FALSE]
      BY <1>1, <2>1 DEF CancelTask, EndTask
    <3>2. QED
      BY <1>1, <3>1, ZenonT(60) DEF States
  <2>2. CASE d.task # "dialog"
    <3>1. e = d
      BY <2>2 DEF CancelTask
    <3>2. QED
      BY <1>1, <2>2, <3>1
  <2>3. QED
    BY <2>1, <2>2
<1>3. ConnectionLost(c) = [e EXCEPT !.reconnect = TRUE]
  BY DEF ConnectionLost, d
<1> HIDE DEF e
<1>4. QED
  BY <1>2, <1>3, ZenonT(60) DEF States, Sane, Nearly, Keeps

\* The dialog needs a connection which is not in idle mode.
LEMMA QueryPasswordSane ==
    ASSUME NEW c, Sane(c), c.conn, ~c.idle
    PROVE  LET d == QueryPassword(c)
           IN  /\ Sane(d) /\ Keeps(c, d)
               /\ d.playing = c.playing /\ d.updTimer = c.updTimer /\ ~d.idle
<1>1. CASE c.auth \/ c.task # "none"
  BY <1>1 DEF QueryPassword, Keeps
<1>2. CASE ~c.auth /\ c.task = "none"
  <2>1. QueryPassword(c) = [c EXCEPT !.task = "dialog", !.auth = TRUE]
    BY <1>2 DEF QueryPassword
  <2>2. QED
    BY <1>2, <2>1, ZenonT(60) DEF Sane, Nearly, States, Keeps
<1>3. QED
  BY <1>1, <1>2

\* A request does not enter idle mode and does not start anything.
LEMMA RequestSane ==
    ASSUME NEW c, Sane(c), c.conn, ~c.idle, NEW p, NEW d \in Request(c, p)
    PROVE  /\ Sane(d) /\ Keeps(c, d)
           /\ Continues(c, d) /\ ~d.idle
<1>1. CASE d = ConnectionLost(c)
  BY <1>1, ConnectionLostSane DEF Sane, Nearly, Continues
<1>2. CASE d = c
  BY <1>2 DEF Keeps, Continues
<1>3. CASE d = QueryPassword(c)
  BY <1>3, QueryPasswordSane DEF Continues
<1>4. QED
  BY <1>1, <1>2, <1>3 DEF Request

\* "status" tells whether MPD is playing.
LEMMA RunStatusSane ==
    ASSUME NEW c, Sane(c), c.conn, ~c.idle, NEW d \in RunStatus(c)
    PROVE  Sane(d) /\ Keeps(c, d) /\ ~d.idle
<1>1. CASE d = ConnectionLost(c)
  BY <1>1, ConnectionLostSane DEF Sane, Nearly
<1>2. ASSUME NEW p \in BOOLEAN
      PROVE  LET e == [c EXCEPT !.playing = p]
             IN  Sane(e) /\ Keeps(c, e) /\ e.conn /\ ~e.idle
  BY DEF Sane, Nearly, States, Keeps
<1>3. CASE \E p \in BOOLEAN : d = [c EXCEPT !.playing = p]
  BY <1>2, <1>3
<1>4. CASE d = QueryPassword([c EXCEPT !.playing = FALSE])
  <2> DEFINE e == [c EXCEPT !.playing = FALSE]
  <2>1. Sane(e) /\ Keeps(c, e) /\ e.conn /\ ~e.idle
    BY <1>2
  <2> HIDE DEF e
  <2>2. Sane(d) /\ Keeps(e, d) /\ ~d.idle
    BY <1>4, <2>1, QueryPasswordSane DEF e
  <2>3. QED
    BY <2>1, <2>2 DEF Keeps
<1>5. QED
  BY <1>1, <1>3, <1>4 DEF RunStatus

\* A sane client is nearly sane.
LEMMA SaneNearly == ASSUME NEW c, Sane(c) PROVE Nearly(c)
  BY DEF Sane

\* Destroying a dialog which has lost its connection disturbs nothing else.
LEMMA CancelTaskSane ==
    ASSUME NEW c, Nearly(c)
    PROVE  LET d == CancelTask(c)
           IN  /\ Sane(d) /\ Keeps(c, d)
               /\ d.conn = c.conn /\ d.auth = c.auth /\ d.idle = c.idle
               /\ d.playing = c.playing /\ d.updTimer = c.updTimer
<1>1. CASE ~c.conn /\ c.task = "dialog"
  <2>1. CancelTask(c) = [c EXCEPT !.task = "none", !.auth = FALSE]
    BY <1>1 DEF CancelTask, EndTask
  <2>2. ~c.auth
    BY <1>1 DEF Sane, Nearly, States
  <2>3. c.auth = FALSE
    BY <2>2 DEF States, Nearly
  <2>4. QED
    BY <1>1, <2>1, <2>3, ZenonT(60) DEF Sane, Nearly, States, Keeps
<1>2. CASE c.conn \/ c.task # "dialog"
  BY <1>2 DEF CancelTask, Sane, Nearly, States, Keeps
<1>3. QED
  BY <1>1, <1>2

\* The connections page only marks an address.
LEMMA ShowPageSane ==
    ASSUME NEW c, Nearly(c)
    PROVE  LET d == ShowPage(c)
           IN  /\ Sane(d) /\ Keeps(c, d)
               /\ d.idle = c.idle /\ d.playing = c.playing /\ d.updTimer = c.updTimer
<1> DEFINE e == CancelTask(c)
<1>1. /\ Sane(e) /\ Keeps(c, e)
      /\ e.idle = c.idle /\ e.playing = c.playing /\ e.updTimer = c.updTimer
  BY CancelTaskSane
<1> HIDE DEF e
<1>2. PICK a \in Settings : ShowPage(c) = [e EXCEPT !.active = a]
  BY <1>1 DEF ShowPage, e, Sane, Nearly, States
<1>3. QED
  BY <1>1, <1>2 DEF Sane, Nearly, States, Keeps

\* A page that reloads something sends a request.
LEMMA UpdatePageSane ==
    ASSUME NEW c, Sane(c), ~c.idle, NEW d \in UpdatePage(c)
    PROVE  /\ Sane(d) /\ Keeps(c, d)
           /\ Continues(c, d) /\ ~d.idle
<1>1. CASE d = ShowPage(c)
  BY <1>1, SaneNearly, ShowPageSane DEF Continues
<1>2. CASE c.conn /\ d \in Request(c, "read")
  BY <1>2, RequestSane
<1>3. QED
  BY <1>1, <1>2 DEF UpdatePage, IsReady

-----------------------------------------------------------------------------

\* OnIdle() comes back outside of idle mode, with the timers of a new round.
LEMMA OnIdleSane ==
    ASSUME NEW c, Sane(c), c.conn, "mpd" \notin c.ready, ~c.auth,
           NEW d \in OnIdle(c)
    PROVE  Sane(d) /\ Keeps(c, d) /\ (d.playing => d.updTimer) /\ ~d.idle
<1> DEFINE reported == [c EXCEPT !.idle = FALSE, !.changed = FALSE, !.events = TRUE]
<1>1. Sane(reported) /\ Keeps(c, reported) /\ reported.conn /\ ~reported.idle
  BY DEF Sane, Nearly, States, Keeps
<1>2. PICK u \in RunStatus(reported) : \E e \in UpdatePage(u) :
        d = ScheduleEnterIdle([AutoUpdateTimer(e) EXCEPT !.events = FALSE])
  BY DEF OnIdle
<1>3. PICK e \in UpdatePage(u) :
        d = ScheduleEnterIdle([AutoUpdateTimer(e) EXCEPT !.events = FALSE])
  BY <1>2
<1> HIDE DEF reported
<1>4. Sane(u) /\ Keeps(c, u) /\ ~u.idle
  BY <1>1, <1>2, RunStatusSane DEF Keeps
<1>5. Sane(e) /\ Keeps(c, e) /\ ~e.idle
  BY <1>3, <1>4, UpdatePageSane DEF Keeps
<1> DEFINE f == [e EXCEPT !.updTimer = e.playing, !.events = FALSE]
<1>6. Sane(f) /\ Keeps(c, f) /\ ~f.idle /\ f.updTimer = f.playing
  <2>1. e.playing \in BOOLEAN /\ e \in States
    BY <1>5 DEF Sane, Nearly, States
  <2>2. f \in States
    BY <2>1, ZenonT(60) DEF States
  <2>3. /\ f.conn = e.conn /\ f.idle = e.idle /\ f.idleTimer = e.idleTimer
        /\ f.reconnect = e.reconnect /\ f.connecting = e.connecting
        /\ f.ready = e.ready /\ f.auth = e.auth /\ f.task = e.task
        /\ f.screen = e.screen /\ f.playing = e.playing
        /\ f.updTimer = e.playing
    BY <2>1, ZenonT(60) DEF States
  <2>4. QED
    BY <1>5, <2>2, <2>3, ZenonT(60) DEF Sane, Nearly, Keeps
<1>7. d = [f EXCEPT !.idleTimer = @ \/ f.conn]
  BY <1>3 DEF ScheduleEnterIdle, AutoUpdateTimer
<1> HIDE DEF f
<1>8. (f.idleTimer \/ f.conn) \in BOOLEAN /\ (f.idleTimer \/ f.conn => f.conn)
  BY <1>6 DEF Sane, Nearly, States
<1>9. QED
  BY <1>6, <1>7, <1>8 DEF Sane, Nearly, States, Keeps

\* "noidle" leaves idle mode, one way or the other.
LEMMA LeaveSane ==
    ASSUME NEW c, Sane(c), c.conn, ~c.auth, NEW d \in Leave(c)
    PROVE  /\ Sane(d) /\ Keeps(c, d) /\ ~d.idle
           /\ Refreshed(c) => Refreshed(d)
<1> DEFINE left == [c EXCEPT !.idle = FALSE, !.ready = @ \ {"mpd"}]
<1>1. /\ Sane(left) /\ Keeps(c, left) /\ left.conn /\ ~left.idle /\ ~left.auth
      /\ "mpd" \notin left.ready
      /\ left.playing = c.playing /\ left.updTimer = c.updTimer
  BY DEF Sane, Nearly, States, Keeps
<1>2. d = ConnectionLost(left) \/ d \in OnIdle(left) \/ d = left
  BY DEF Leave
<1> HIDE DEF left
<1>3. CASE d = ConnectionLost(left)
  BY <1>1, <1>3, ConnectionLostSane DEF Sane, Nearly, Keeps, Refreshed
<1>4. CASE d \in OnIdle(left)
  BY <1>1, <1>4, OnIdleSane DEF Keeps, Refreshed
<1>5. CASE d = left
  BY <1>1, <1>5 DEF Keeps, Refreshed
<1>6. QED
  BY <1>2, <1>3, <1>4, <1>5

\* A connection that may be used is not in idle mode.
LEMMA GetConnectionSane ==
    ASSUME NEW c, Sane(c), ~c.auth, NEW d \in GetConnection(c)
    PROVE  /\ Sane(d) /\ Keeps(c, d) /\ ~d.idle
           /\ Refreshed(c) => Refreshed(d)
<1>1. CASE c.conn /\ c.idle
  <2>1. PICK e \in Leave(c) : d = [e EXCEPT !.idleTimer = @ \/ e.conn]
    BY <1>1 DEF GetConnection, ScheduleEnterIdle
  <2>2. Sane(e) /\ Keeps(c, e) /\ ~e.idle /\ (Refreshed(c) => Refreshed(e))
    BY <1>1, <2>1, LeaveSane
  <2>3. (e.idleTimer \/ e.conn) \in BOOLEAN /\ (e.idleTimer \/ e.conn => e.conn)
    BY <2>2 DEF Sane, Nearly, States
  <2>4. QED
    BY <2>1, <2>2, <2>3 DEF Sane, Nearly, States, Keeps, Refreshed
<1>2. CASE ~(c.conn /\ c.idle)
  BY <1>2 DEF GetConnection, Sane, Nearly, Keeps
<1>3. QED
  BY <1>1, <1>2

\* A command of the user, on whatever page.
LEMMA CommandSane ==
    ASSUME NEW c, Sane(c), NEW p, NEW d \in Command(c, p)
    PROVE  Sane(d) /\ Keeps(c, d) /\ (Refreshed(c) => Refreshed(d))
<1>1. CASE c.auth
  BY <1>1 DEF Command, Keeps
<1>2. CASE ~c.auth
  <2>1. PICK e \in GetConnection(c) : d \in IF e.conn THEN Request(e, p) ELSE {e}
    BY <1>2 DEF Command
  <2>2. Sane(e) /\ Keeps(c, e) /\ ~e.idle /\ (Refreshed(c) => Refreshed(e))
    BY <1>2, <2>1, GetConnectionSane
  <2>3. CASE e.conn
    <3>1. Sane(d) /\ Keeps(e, d) /\ Continues(e, d)
      BY <2>1, <2>2, <2>3, RequestSane
    <3>2. QED
      BY <2>2, <3>1 DEF Keeps, Refreshed, Continues
  <2>4. CASE ~e.conn
    BY <2>1, <2>2, <2>4
  <2>5. QED
    BY <2>3, <2>4
<1>3. QED
  BY <1>1, <1>2

\* Update() leaves idle mode first.
LEMMA UpdateSane ==
    ASSUME NEW c, Sane(c), NEW d \in Update(c)
    PROVE  Sane(d) /\ Keeps(c, d)
<1>1. CASE c.auth
  BY <1>1 DEF Update, Keeps
<1>2. CASE ~c.auth
  <2>1. PICK e \in GetConnection(c) : d \in IF e.conn THEN RunStatus(e) ELSE {e}
    BY <1>2 DEF Update
  <2>2. Sane(e) /\ Keeps(c, e) /\ ~e.idle
    BY <1>2, <2>1, GetConnectionSane
  <2>3. CASE e.conn
    BY <2>1, <2>2, <2>3, RunStatusSane DEF Keeps
  <2>4. CASE ~e.conn
    BY <2>1, <2>2, <2>4
  <2>5. QED
    BY <2>3, <2>4
<1>3. QED
  BY <1>1, <1>2

\* ScreenManager::Update(), also when it is all that update_screen_event does.
LEMMA UpdateScreenSane ==
    ASSUME NEW c, Nearly(c), NEW d \in UpdateScreen(c)
    PROVE  Sane(d) /\ Keeps(c, d) /\ (Refreshed(c) => Refreshed(d))
<1>1. CASE d = ShowPage(c)
  BY <1>1, ShowPageSane DEF Keeps, Refreshed
<1>2. CASE d \in Command(CancelTask(c), "read")
  <2> DEFINE e == CancelTask(c)
  <2>1. Sane(e) /\ Keeps(c, e) /\ e.playing = c.playing /\ e.updTimer = c.updTimer
    BY CancelTaskSane
  <2>2. Sane(d) /\ Keeps(e, d) /\ (Refreshed(e) => Refreshed(d))
    BY <1>2, <2>1, CommandSane
  <2> HIDE DEF e
  <2>3. QED
    BY <2>1, <2>2 DEF Keeps, Refreshed
<1>3. QED
  BY <1>1, <1>2 DEF UpdateScreen

\* UpdateClient() updates the client, then the screen.
LEMMA UpdateClientSane ==
    ASSUME NEW c, Sane(c), NEW d \in UpdateClient(c)
    PROVE  Sane(d) /\ Keeps(c, d)
<1>1. PICK u : /\ u = c \/ u \in Update(c)
               /\ \E e \in UpdateScreen(u) : d = [e EXCEPT !.events = FALSE]
  BY DEF UpdateClient
<1>2. PICK e \in UpdateScreen(u) : d = [e EXCEPT !.events = FALSE]
  BY <1>1
<1>3. Sane(u) /\ Keeps(c, u)
  BY <1>1, UpdateSane DEF Keeps
<1>4. Sane(e) /\ Keeps(c, e)
  BY <1>2, <1>3, SaneNearly, UpdateScreenSane DEF Keeps
<1>5. QED
  BY <1>2, <1>4, ZenonT(60) DEF Sane, Nearly, States, Keeps

-----------------------------------------------------------------------------

\* A client without a connection, between an attempt and the next.
Down(c) ==
    /\ c \in States
    /\ ~c.conn /\ ~c.idle /\ ~c.idleTimer /\ ~c.auth /\ ~c.playing
    /\ "mpd" \notin c.ready
    /\ c.task = "dialog" => c.screen

\* Giving up an attempt, or starting one, yields a sane client.
LEMMA AttemptSane ==
    ASSUME NEW c, Down(c), NEW a \in Settings
    PROVE  LET start == [c EXCEPT !.settings = a, !.connecting = "socket"]
               wait == [c EXCEPT !.settings = a, !.connecting = "no", !.reconnect = TRUE]
           IN  /\ Sane(start) /\ Keeps(c, start) /\ ~start.playing
               /\ Sane(wait) /\ Keeps(c, wait) /\ ~wait.playing
  BY DEF Down, Sane, Nearly, States, Keeps

\* A failed attempt is followed by the fallback or by the timer.
LEMMA ConnectErrorSane ==
    ASSUME NEW c, Down(c), NEW d \in ConnectError(c)
    PROVE  Sane(d) /\ Keeps(c, d) /\ ~d.playing
<1>1. PICK a \in Settings :
        \/ d = [c EXCEPT !.settings = a, !.connecting = "socket"]
        \/ d = [c EXCEPT !.settings = a, !.connecting = "no", !.reconnect = TRUE]
  <2>1. CASE c.settings = "default" /\ "fallback" \in Settings
    <3>1. \/ d = [[[c EXCEPT !.connecting = "no"] EXCEPT !.settings = "fallback"]
                    EXCEPT !.connecting = "socket"]
          \/ d = [[[c EXCEPT !.connecting = "no"] EXCEPT !.settings = "fallback"]
                    EXCEPT !.reconnect = TRUE]
      BY <2>1 DEF ConnectError
    <3>2. \/ d = [c EXCEPT !.settings = "fallback", !.connecting = "socket"]
          \/ d = [c EXCEPT !.settings = "fallback", !.connecting = "no",
                           !.reconnect = TRUE]
      BY <3>1 DEF Down, States
    <3>3. QED
      BY <2>1, <3>2
  <2>2. CASE ~(c.settings = "default" /\ "fallback" \in Settings)
    <3>1. d = [[c EXCEPT !.connecting = "no"] EXCEPT !.reconnect = TRUE]
      BY <2>2 DEF ConnectError
    <3>2. d = [c EXCEPT !.settings = c.settings, !.connecting = "no",
                        !.reconnect = TRUE]
      BY <3>1 DEF Down, States
    <3>3. c.settings \in Settings
      BY DEF Down, States
    <3>4. QED
      BY <3>2, <3>3
  <2>3. QED
    BY <2>1, <2>2
<1>2. CASE d = [c EXCEPT !.settings = a, !.connecting = "socket"]
  BY <1>2, AttemptSane
<1>3. CASE d = [c EXCEPT !.settings = a, !.connecting = "no", !.reconnect = TRUE]
  BY <1>3, AttemptSane
<1>4. QED
  BY <1>1, <1>2, <1>3

\* A new attempt takes the old connection down.
LEMMA DoConnectSane ==
    ASSUME NEW c \in States, c.task = "dialog" => c.screen, NEW d \in DoConnect(c)
    PROVE  Sane(d) /\ Keeps(c, d) /\ ~d.playing
<1> DEFINE e == Disconnect(c)
<1>1. Down(e) /\ Keeps(c, e)
  BY DisconnectType DEF Down, Keeps
<1>2. d = [e EXCEPT !.connecting = "socket"] \/ d \in ConnectError(e)
  BY DEF DoConnect
<1> HIDE DEF e
<1>3. CASE d = [e EXCEPT !.connecting = "socket"]
  <2>1. e.settings \in Settings
    BY <1>1 DEF Down, States
  <2>2. d = [e EXCEPT !.settings = e.settings, !.connecting = "socket"]
    BY <1>1, <1>3 DEF Down, States
  <2>3. Sane(d) /\ Keeps(e, d) /\ ~d.playing
    BY <1>1, <2>1, <2>2, AttemptSane
  <2>4. QED
    BY <1>1, <2>3 DEF Keeps
<1>4. CASE d \in ConnectError(e)
  <2>1. Sane(d) /\ Keeps(e, d) /\ ~d.playing
    BY <1>1, <1>4, ConnectErrorSane
  <2>2. QED
    BY <1>1, <2>1 DEF Keeps
<1>5. QED
  BY <1>2, <1>3, <1>4

\* A connection that has just been made.
Fresh(c) ==
    /\ c \in States
    /\ c.conn /\ c.connecting = "no" /\ ~c.idle /\ ~c.auth
    /\ "mpd" \notin c.ready
    /\ c.task # "dialog"

\* A new connection stops the reconnect timer and starts the display.
LEMMA OnMpdConnectedSane ==
    ASSUME NEW c, Fresh(c), NEW d \in OnMpdConnected(c)
    PROVE  Sane(d) /\ Keeps(c, d) /\ Refreshed(d)
<1> DEFINE connected == [c EXCEPT !.reconnect = FALSE]
<1>1. Sane(connected) /\ Keeps(c, connected) /\ connected.task # "dialog"
  BY DEF Fresh, Sane, Nearly, States, Keeps
<1>2. \/ d = [Disconnect(connected) EXCEPT !.reconnect = TRUE]
      \/ \E e \in UpdateClient(connected) : d = AutoUpdateTimer(e)
  BY DEF OnMpdConnected
<1> HIDE DEF connected
<1>3. CASE d = [Disconnect(connected) EXCEPT !.reconnect = TRUE]
  <2> DEFINE e == Disconnect(connected)
  <2>1. /\ e \in States /\ ~e.conn /\ ~e.idle /\ ~e.idleTimer /\ ~e.auth
        /\ ~e.playing /\ e.connecting = "no" /\ "mpd" \notin e.ready
        /\ e.task # "dialog" /\ Keeps(c, e)
    BY <1>1, DisconnectType DEF Sane, Nearly, Keeps
  <2>2. d = [e EXCEPT !.reconnect = TRUE]
    BY <1>3
  <2> HIDE DEF e
  <2>3. QED
    BY <2>1, <2>2 DEF Sane, Nearly, States, Keeps, Refreshed
<1>4. ASSUME NEW e \in UpdateClient(connected), d = AutoUpdateTimer(e)
      PROVE  Sane(d) /\ Keeps(c, d) /\ Refreshed(d)
  <2>1. Sane(e) /\ Keeps(c, e)
    BY <1>1, UpdateClientSane DEF Keeps
  <2>2. d = [e EXCEPT !.updTimer = e.playing]
    BY <1>4 DEF AutoUpdateTimer
  <2>3. QED
    BY <2>1, <2>2 DEF Sane, Nearly, States, Keeps, Refreshed
<1>5. QED
  BY <1>2, <1>3, <1>4

\* The end of an attempt that has reached MPD.
LEMMA OnAsyncMpdConnectSane ==
    ASSUME NEW c, Down(c), c.task # "dialog", NEW d \in OnAsyncMpdConnect(c)
    PROVE  Sane(d) /\ Keeps(c, d) /\ Refreshed(d)
<1> DEFINE e == [c EXCEPT !.connecting = "no"]
<1>1. /\ Down(e) /\ Keeps(c, e) /\ e.connecting = "no" /\ e.task # "dialog"
  BY DEF Down, States, Keeps
<1>2. \/ d = [e EXCEPT !.reconnect = TRUE]
      \/ d = ConnectFailed([e EXCEPT !.conn = TRUE])
      \/ \E p \in Permissions :
           d \in OnMpdConnected([e EXCEPT !.conn = TRUE, !.link = TRUE, !.perm = p,
                                          !.changed = FALSE, !.idleTimer = TRUE,
                                          !.events = TRUE])
  BY DEF OnAsyncMpdConnect, OnConnected
<1> HIDE DEF e
<1>3. CASE d = [e EXCEPT !.reconnect = TRUE]
  BY <1>1, <1>3 DEF Down, Sane, Nearly, States, Keeps, Refreshed
<1>4. CASE d = ConnectFailed([e EXCEPT !.conn = TRUE])
  <2> DEFINE f == [e EXCEPT !.conn = TRUE]
             g == Disconnect(f)
  <2>1. f \in States /\ f.task = e.task /\ f.screen = e.screen /\ f.ready = e.ready
    BY <1>1 DEF Down, States
  <2> HIDE DEF f
  <2>2. /\ g \in States /\ ~g.conn /\ ~g.idle /\ ~g.idleTimer /\ ~g.auth
        /\ ~g.playing /\ g.connecting = "no" /\ "mpd" \notin g.ready
        /\ g.task # "dialog" /\ Keeps(c, g)
    BY <1>1, <2>1, DisconnectType DEF Keeps
  <2>3. d = [g EXCEPT !.reconnect = TRUE]
    BY <1>4 DEF ConnectFailed, f
  <2> HIDE DEF g
  <2>4. QED
    BY <2>2, <2>3 DEF Sane, Nearly, States, Keeps, Refreshed
<1>5. ASSUME NEW p \in Permissions,
             d \in OnMpdConnected([e EXCEPT !.conn = TRUE, !.link = TRUE, !.perm = p,
                                            !.changed = FALSE, !.idleTimer = TRUE,
                                            !.events = TRUE])
      PROVE  Sane(d) /\ Keeps(c, d) /\ Refreshed(d)
  <2> DEFINE f == [e EXCEPT !.conn = TRUE, !.link = TRUE, !.perm = p,
                            !.changed = FALSE, !.idleTimer = TRUE, !.events = TRUE]
  <2>1. f \in States
    BY <1>1 DEF Down, States
  <2>2. Fresh(f) /\ Keeps(c, f)
    BY <1>1, <2>1 DEF Down, States, Fresh, Keeps
  <2> HIDE DEF f
  <2>3. Sane(d) /\ Keeps(f, d) /\ Refreshed(d)
    BY <1>5, <2>2, OnMpdConnectedSane DEF f
  <2>4. QED
    BY <2>2, <2>3 DEF Keeps
<1>6. QED
  BY <1>2, <1>3, <1>4, <1>5

-----------------------------------------------------------------------------

\* The state at the end of a callback.
LEMMA InvAfter ==
    ASSUME NEW c, c.task # "busy", "remote" \in c.ready => Remote,
           Sane(s'), Keeps(c, s'), Refreshed(s')
    PROVE  Inv'
  BY DEF Inv, Keeps

\* The reconnect timer fires without a connection, so a dialog is stale.
LEMMA OnReconnectTimerStep == ASSUME Inv, OnReconnectTimer PROVE Inv'
<1>1. PICK a \in Settings : s' \in DoConnect([[s EXCEPT !.reconnect = FALSE]
                                                EXCEPT !.settings = a])
  BY SettingsAssumption DEF OnReconnectTimer, Connect, Inv, Sane, Nearly, States
<1> DEFINE c == [[s EXCEPT !.reconnect = FALSE] EXCEPT !.settings = a]
<1>2. c \in States /\ c.task = s.task /\ c.screen = s.screen /\ c.ready = s.ready
  BY DEF Inv, Sane, Nearly, States
<1>3. c.task = "dialog" => c.screen
  BY <1>2 DEF OnReconnectTimer, Inv, Sane, Nearly
<1> HIDE DEF c
<1>4. Sane(s') /\ Keeps(c, s') /\ ~(s'.playing)
  BY <1>1, <1>2, <1>3, DoConnectSane DEF c
<1>5. QED
  BY <1>2, <1>4, InvAfter DEF Inv, Refreshed

\* Idle mode is entered behind the back of no dialog.
LEMMA OnEnterIdleTimerStep == ASSUME Inv, OnEnterIdleTimer PROVE Inv'
<1> DEFINE expired == [s EXCEPT !.idleTimer = FALSE]
<1>1. /\ Sane(expired) /\ Keeps(s, expired) /\ Refreshed(expired)
      /\ expired.conn /\ expired.auth = s.auth /\ expired.ready = {}
      /\ expired.playing = s.playing /\ expired.updTimer = s.updTimer
  BY DEF OnEnterIdleTimer, Looping, Inv, Sane, Nearly, States, Keeps, Refreshed
<1>2. \/ s' = expired
      \/ ~s.auth /\ s' = [expired EXCEPT !.idle = TRUE]
      \/ s' = ConnectionLost(expired)
  BY DEF OnEnterIdleTimer
<1> HIDE DEF expired
<1>3. CASE s' = expired
  BY <1>1, <1>3, InvAfter DEF Inv
<1>4. CASE ~s.auth /\ s' = [expired EXCEPT !.idle = TRUE]
  <2>1. ~expired.idleTimer
    BY DEF expired, Inv, Sane, Nearly, States
  <2>2. Sane(s') /\ Keeps(s, s') /\ Refreshed(s')
    BY <1>1, <1>4, <2>1 DEF Sane, Nearly, States, Keeps, Refreshed
  <2>3. QED
    BY <2>2, InvAfter DEF Inv
<1>5. CASE s' = ConnectionLost(expired)
  <2>1. Sane(s') /\ Keeps(expired, s') /\ ~(s'.playing)
    BY <1>1, <1>5, ConnectionLostSane DEF Sane, Nearly
  <2>2. QED
    BY <1>1, <2>1, InvAfter DEF Inv, Keeps, Refreshed
<1>6. QED
  BY <1>2, <1>3, <1>4, <1>5

\* The update timer schedules itself again while MPD plays.
LEMMA OnUpdateTimerStep == ASSUME Inv, OnUpdateTimer PROVE Inv'
<1> DEFINE c == [s EXCEPT !.updTimer = FALSE]
<1>1. Sane(c) /\ c.task # "busy" /\ ("remote" \in c.ready => Remote)
  BY DEF Inv, Sane, Nearly, States
<1>2. PICK d \in UpdateClient(c) : s' = [d EXCEPT !.updTimer = @ \/ d.playing]
  BY DEF OnUpdateTimer
<1> HIDE DEF c
<1>3. Sane(d) /\ Keeps(c, d)
  BY <1>1, <1>2, UpdateClientSane
<1>4. (d.updTimer \/ d.playing) \in BOOLEAN /\ (d.playing => (d.updTimer \/ d.playing))
  BY <1>3 DEF Sane, Nearly, States
<1>5. Sane(s') /\ Keeps(c, s') /\ Refreshed(s')
  BY <1>2, <1>3, <1>4 DEF Sane, Nearly, States, Keeps, Refreshed
<1>6. QED
  BY <1>1, <1>5, InvAfter

\* The idle event takes a stale dialog away and restarts the update timer.
LEMMA OnUpdateScreenStep == ASSUME Inv, OnUpdateScreen PROVE Inv'
<1> DEFINE c == [s EXCEPT !.screen = FALSE]
<1>1. PICK d \in UpdateScreen(c) : s' = AutoUpdateTimer([d EXCEPT !.events = FALSE])
  BY DEF OnUpdateScreen
<1>2. Nearly(c) /\ c.task # "busy" /\ c.ready = s.ready
  BY ZenonT(60) DEF Inv, Sane, Nearly, States
<1> HIDE DEF c
<1>3. Sane(d) /\ Keeps(c, d)
  BY <1>1, <1>2, UpdateScreenSane
<1>4. s' = [d EXCEPT !.events = FALSE, !.updTimer = d.playing]
  BY <1>1, <1>3 DEF AutoUpdateTimer, Sane, Nearly, States
<1>5. Sane(s') /\ Keeps(c, s') /\ Refreshed(s')
  BY <1>3, <1>4 DEF Sane, Nearly, States, Keeps, Refreshed
<1>6. QED
  BY <1>2, <1>5, InvAfter DEF Inv

\* The timeout of an attempt is one of its failures.
LEMMA OnConnectTimeoutStep == ASSUME Inv, OnConnectTimeout PROVE Inv'
<1>1. Down(s) /\ s' \in ConnectError(s)
  BY DEF OnConnectTimeout, Looping, Inv, Sane, Nearly, Down
<1>2. Sane(s') /\ Keeps(s, s') /\ ~(s'.playing)
  BY <1>1, ConnectErrorSane
<1>3. QED
  BY <1>2, InvAfter DEF Inv, Refreshed

\* Polling finds what is readable and changes nothing else.
LEMMA PollStep == ASSUME Inv, Poll PROVE Inv'
<1>1. PICK r \in SUBSET {"input", "remote", "mpd"} :
        /\ "remote" \in r => Remote
        /\ "mpd" \in r => IdleReadable \/ s.connecting # "no"
        /\ s' = [s EXCEPT !.ready = r]
  BY DEF Poll
<1>2. "mpd" \in r => s.idle \/ s.connecting # "no"
  BY <1>1 DEF IdleReadable
<1>3. s.task = "dialog" /\ ~s.auth => "mpd" \notin r
  BY DEF Poll, Inv, Sane, Nearly
<1>4. Sane(s') /\ s'.task = s.task /\ s'.ready = r /\ Refreshed(s')
  BY <1>1, <1>2, <1>3 DEF Inv, Sane, Nearly, States, Refreshed
<1>5. QED
  BY <1>1, <1>4 DEF Inv

\* A ready socket: what its callback finds.
LEMMA ServedSane ==
    ASSUME Inv, NEW socket
    PROVE  LET c == Served(socket)
           IN  /\ Sane(c) /\ Keeps(s, c) /\ Refreshed(c) /\ c.task # "busy"
               /\ "remote" \in c.ready => Remote
               /\ c.conn = s.conn /\ c.auth = s.auth /\ c.idle = s.idle
               /\ c.task = s.task /\ c.connecting = s.connecting
               /\ c.ready = s.ready \ {socket}
<1>1. Served(socket) = [s EXCEPT !.ready = @ \ {socket}]
  BY DEF Served
<1>2. QED
  BY <1>1 DEF Inv, Sane, Nearly, States, Keeps, Refreshed

\* ... and when the socket is the one of an attempt.
LEMMA AttemptServed ==
    ASSUME Inv, "mpd" \in s.ready, s.connecting # "no"
    PROVE  Down(Served("mpd")) /\ Served("mpd").task # "dialog"
  BY ServedSane DEF Inv, Sane, Nearly, Down

\* The TCP connection is there, or the attempt has failed.
LEMMA OnSocketConnectedStep == ASSUME Inv, OnSocketConnected PROVE Inv'
<1> DEFINE c == Served("mpd")
<1>1. /\ Down(c) /\ Sane(c) /\ Refreshed(c) /\ c.task # "busy" /\ c.connecting # "no"
      /\ "remote" \in c.ready => Remote
  BY ServedSane, AttemptServed DEF OnSocketConnected
<1>2. s' = [c EXCEPT !.connecting = "welcome"] \/ s' \in ConnectError(c)
  BY DEF OnSocketConnected
<1> HIDE DEF c
<1>3. CASE s' = [c EXCEPT !.connecting = "welcome"]
  <2>1. Sane(s') /\ Keeps(c, s') /\ Refreshed(s')
    BY <1>1, <1>3 DEF Down, Sane, Nearly, States, Keeps, Refreshed
  <2>2. QED
    BY <1>1, <2>1, InvAfter
<1>4. CASE s' \in ConnectError(c)
  <2>1. Sane(s') /\ Keeps(c, s') /\ ~(s'.playing)
    BY <1>1, <1>4, ConnectErrorSane
  <2>2. QED
    BY <1>1, <2>1, InvAfter DEF Refreshed
<1>5. QED
  BY <1>2, <1>3, <1>4

\* The welcome line is there, or the attempt has failed.
LEMMA OnReceiveStep == ASSUME Inv, OnReceive PROVE Inv'
<1> DEFINE c == Served("mpd")
<1>1. /\ Down(c) /\ c.task # "busy" /\ c.task # "dialog"
      /\ "remote" \in c.ready => Remote
  BY ServedSane, AttemptServed DEF OnReceive
<1>2. s' \in OnAsyncMpdConnect(c) \/ s' \in ConnectError(c)
  BY DEF OnReceive
<1> HIDE DEF c
<1>3. Sane(s') /\ Keeps(c, s') /\ Refreshed(s')
  BY <1>1, <1>2, OnAsyncMpdConnectSane, ConnectErrorSane DEF Refreshed
<1>4. QED
  BY <1>1, <1>3, InvAfter

\* MPD's socket is readable in idle mode.
LEMMA OnSocketReadyStep == ASSUME Inv, OnSocketReady PROVE Inv'
<1> DEFINE c == Served("mpd")
<1>1. /\ Sane(c) /\ c.task # "busy" /\ c.conn /\ ~c.auth /\ "mpd" \notin c.ready
      /\ "remote" \in c.ready => Remote
  BY ServedSane DEF OnSocketReady, Inv, Sane, Nearly
<1>2. s' \in OnIdle(c) \/ s' = ConnectionLost(c)
  BY DEF OnSocketReady
<1> HIDE DEF c
<1>3. Sane(s') /\ Keeps(c, s') /\ Refreshed(s')
  BY <1>1, <1>2, OnIdleSane, ConnectionLostSane DEF Refreshed, Sane, Nearly
<1>4. QED
  BY <1>1, <1>3, InvAfter

\* A command given on a page or by LIRC.
LEMMA OnCommandSane ==
    ASSUME NEW c, Sane(c), NEW d \in OnCommand(c)
    PROVE  /\ Sane(d) /\ Refreshed(d) /\ (d.task = "busy" => c.task = "busy")
           /\ d.ready \subseteq c.ready
<1> DEFINE e == [c EXCEPT !.screen = TRUE]
<1>1. Sane(e) /\ e.screen /\ e.task = c.task /\ e.ready = c.ready
  BY DEF Sane, Nearly, States
<1>2. \/ d = e
      \/ d \in Command(e, "read")
      \/ d \in Command(e, "control")
      \/ \E f \in Command(e, "control") : d = [f EXCEPT !.updTimer = FALSE]
      \/ d \in Switch(e)
      \/ d \in Activate(e)
  BY DEF OnCommand
<1> HIDE DEF e
<1>3. ASSUME NEW f, Sane(f), Keeps(e, f)
      PROVE  /\ Refreshed(f) /\ (f.task = "busy" => c.task = "busy")
             /\ f.ready \subseteq c.ready
  BY <1>1, <1>3 DEF Keeps, Refreshed
<1>4. CASE d = e
  BY <1>1, <1>4 DEF Refreshed
<1>5. CASE d \in Command(e, "read") \/ d \in Command(e, "control")
  BY <1>1, <1>3, <1>5, CommandSane
<1>6. ASSUME NEW f \in Command(e, "control"), d = [f EXCEPT !.updTimer = FALSE]
      PROVE  /\ Sane(d) /\ Refreshed(d) /\ (d.task = "busy" => c.task = "busy")
             /\ d.ready \subseteq c.ready
  <2>1. Sane(f) /\ Keeps(e, f)
    BY <1>1, CommandSane
  <2>2. Sane(d) /\ Keeps(e, d)
    BY <1>6, <2>1 DEF Sane, Nearly, States, Keeps
  <2>3. QED
    BY <1>3, <2>2
<1>7. CASE d \in Switch(e)
  <2>1. PICK p \in {"connections", "other"} : d \in UpdateScreen([e EXCEPT !.page = p])
    BY <1>7 DEF Switch
  <2> DEFINE f == [e EXCEPT !.page = p]
  <2>2. Sane(f) /\ Keeps(e, f)
    BY <1>1, ZenonT(60) DEF Sane, Nearly, States, Keeps
  <2> HIDE DEF f
  <2>3. Sane(d) /\ Keeps(f, d)
    BY <2>1, <2>2, SaneNearly, UpdateScreenSane DEF f
  <2>4. QED
    BY <1>3, <2>2, <2>3 DEF Keeps
<1>8. CASE d \in Activate(e)
  <2>1. PICK a \in Settings : d \in DoConnect([e EXCEPT !.settings = a])
    BY <1>8 DEF Activate
  <2> DEFINE f == [e EXCEPT !.settings = a]
  <2>2. f \in States /\ f.screen /\ Keeps(e, f)
    BY <1>1 DEF Sane, Nearly, States, Keeps
  <2> HIDE DEF f
  <2>3. Sane(d) /\ Keeps(f, d)
    BY <2>1, <2>2, DoConnectSane DEF f
  <2>4. QED
    BY <1>3, <2>2, <2>3 DEF Keeps
<1>9. QED
  BY <1>2, <1>4, <1>5, <1>6, <1>7, <1>8

\* A key pressed on a page is a command.
LEMMA OnInputStep == ASSUME Inv, OnInput PROVE Inv'
<1> DEFINE c == Served("input")
<1>1. Sane(c) /\ c.task # "busy" /\ ("remote" \in c.ready => Remote)
  BY ServedSane
<1>2. s' \in OnCommand(c)
  BY DEF OnInput
<1> HIDE DEF c
<1>3. QED
  BY <1>1, <1>2, OnCommandSane DEF Inv

\* The end of the coroutine leaves everything else as it is.
LEMMA EndTaskSane ==
    ASSUME NEW c, Sane(c)
    PROVE  LET d == EndTask(c)
           IN  /\ Sane(d) /\ d.task = "none" /\ (Refreshed(c) => Refreshed(d))
               /\ d.ready = c.ready
<1>1. EndTask(c) = [c EXCEPT !.task = "none", !.auth = FALSE]
  BY DEF EndTask
<1>2. QED
  BY <1>1, ZenonT(60) DEF Sane, Nearly, States, Refreshed

\* A button of the remote control may cancel a dialog.
LEMMA OnRemoteStep == ASSUME Inv, OnRemote PROVE Inv'
<1> DEFINE c == Served("remote")
           d == [c EXCEPT !.screen = TRUE]
<1>1. Sane(c) /\ c.task # "busy" /\ ("remote" \in c.ready => Remote)
  BY ServedSane
<1>2. s' \in OnCommand(c) \/ s' = EndTask(d)
  BY DEF OnRemote
<1> HIDE DEF c
<1>3. Sane(d) /\ Refreshed(d) /\ d.ready = c.ready
  BY <1>1 DEF Sane, Nearly, States, Refreshed
<1> HIDE DEF d
<1>4. CASE s' \in OnCommand(c)
  BY <1>1, <1>4, OnCommandSane DEF Inv
<1>5. CASE s' = EndTask(d)
  BY <1>1, <1>3, <1>5, EndTaskSane DEF Inv
<1>6. QED
  BY <1>2, <1>4, <1>5

\* A key pressed in a dialog repaints it.
LEMMA OnDialogKeyStep == ASSUME Inv, OnDialogKey PROVE Inv'
<1> DEFINE c == Served("input")
<1>1. Sane(c) /\ c.task # "busy" /\ ("remote" \in c.ready => Remote)
  BY ServedSane
<1>2. s' = [c EXCEPT !.screen = TRUE]
  BY DEF OnDialogKey
<1> HIDE DEF c
<1>3. Sane(s') /\ s'.task # "busy" /\ Refreshed(s') /\ s'.ready = c.ready
  BY <1>1, <1>2 DEF Sane, Nearly, States, Refreshed
<1>4. QED
  BY <1>1, <1>3 DEF Inv

\* A cancelled dialog releases the connection.
LEMMA CancelDialogStep == ASSUME Inv, CancelDialog PROVE Inv'
<1> DEFINE c == Served("input")
<1>1. Sane(c) /\ Refreshed(c) /\ ("remote" \in c.ready => Remote)
  BY ServedSane
<1>2. PICK key \in BOOLEAN : s' = EndTask([c EXCEPT !.screen = @ \/ key])
  BY DEF CancelDialog
<1> HIDE DEF c
<1> DEFINE d == [c EXCEPT !.screen = @ \/ key]
<1>3. (c.screen \/ key) \in BOOLEAN /\ (c.screen => c.screen \/ key)
  BY <1>1 DEF Sane, Nearly, States
<1>4. Sane(d) /\ Refreshed(d) /\ d.ready = c.ready
  BY <1>1, <1>3 DEF Sane, Nearly, States, Refreshed
<1> HIDE DEF d
<1>5. QED
  BY <1>1, <1>2, <1>4, EndTaskSane DEF Inv, d

\* The password is sent by the coroutine itself, which no call may destroy.
LEMMA SendPasswordSane ==
    ASSUME NEW c, Sane(c), c.conn, ~c.idle, NEW password \in Answers \ {"cancel"},
           NEW d \in SendPassword(c, password)
    PROVE  Sane(d) /\ Keeps(c, d)
<1>1. CASE d = ConnectionLost(c)
  BY <1>1, ConnectionLostSane DEF Sane, Nearly
<1>2. CASE d = c
  BY <1>2 DEF Keeps
<1>3. CASE password # "wrong"
           /\ d \in RunStatus(ScheduleEnterIdle([[c EXCEPT !.perm = password]
                                                 EXCEPT !.events = TRUE]))
  <2>1. password \in Permissions
    BY <1>3, SettingsAssumption DEF Permissions
  <2> DEFINE e == [[c EXCEPT !.perm = password] EXCEPT !.events = TRUE]
             f == [e EXCEPT !.idleTimer = @ \/ e.conn]
  <2>2. Sane(e) /\ Keeps(c, e) /\ e.conn /\ ~e.idle
    BY <2>1 DEF Sane, Nearly, States, Keeps
  <2>3. d \in RunStatus(f)
    BY <1>3 DEF ScheduleEnterIdle
  <2> HIDE DEF e
  <2>4. (e.idleTimer \/ e.conn) \in BOOLEAN
    BY <2>2 DEF Sane, Nearly, States
  <2>5. Sane(f) /\ Keeps(e, f) /\ f.conn /\ ~f.idle
    BY <2>2, <2>4 DEF Sane, Nearly, States, Keeps
  <2> HIDE DEF f
  <2>6. QED
    BY <2>2, <2>3, <2>5, RunStatusSane DEF Keeps
<1>4. QED
  BY <1>1, <1>2, <1>3 DEF SendPassword, AuthenticationFinished

\* The password is sent on the dialog's own connection, if it is still there.
LEMMA EnterPasswordStep == ASSUME Inv, EnterPassword PROVE Inv'
<1> DEFINE c == Served("input")
           entered == [c EXCEPT !.screen = TRUE, !.auth = FALSE]
           busy == [entered EXCEPT !.task = "busy"]
<1>1. Sane(c) /\ c.task = "dialog" /\ ("remote" \in c.ready => Remote)
  BY ServedSane DEF EnterPassword
<1>2. PICK password \in Answers \ {"cancel"} :
        s' \in {EndTask(d) : d \in
                  UNION {IF d.conn THEN SendPassword([d EXCEPT !.task = "busy"], password)
                         ELSE {d} : d \in GetConnection(entered)}}
  BY DEF EnterPassword
<1>3. PICK d : s' = EndTask(d) /\ d \in
                  UNION {IF e.conn THEN SendPassword([e EXCEPT !.task = "busy"], password)
                         ELSE {e} : e \in GetConnection(entered)}
  BY <1>2
<1> HIDE DEF c
<1>4. entered.conn = c.conn /\ ~entered.idle /\ entered.screen /\ entered.ready = c.ready
  BY <1>1 DEF Sane, Nearly, States
<1>5. GetConnection(entered) = {entered}
  BY <1>4 DEF GetConnection
<1>6. d \in IF entered.conn THEN SendPassword(busy, password) ELSE {entered}
  BY <1>3, <1>5
<1>7. CASE entered.conn
  <2>1. Sane(busy) /\ busy.conn /\ ~busy.idle /\ busy.screen /\ busy.ready = c.ready
    BY <1>1, <1>4, <1>7 DEF Sane, Nearly, States
  <2>2. d \in SendPassword(busy, password)
    BY <1>6, <1>7
  <2> HIDE DEF busy
  <2>3. Sane(d) /\ Keeps(busy, d)
    BY <2>1, <2>2, SendPasswordSane
  <2>4. Refreshed(d) /\ ("remote" \in d.ready => Remote)
    BY <1>1, <2>1, <2>3 DEF Keeps, Refreshed
  <2>5. QED
    BY <1>3, <2>3, <2>4, EndTaskSane DEF Inv
<1>8. CASE ~entered.conn
  <2>1. d = entered
    BY <1>6, <1>8
  <2>2. Sane(entered) /\ Refreshed(entered)
    BY <1>1, <1>4, <1>8 DEF Sane, Nearly, States, Refreshed
  <2> HIDE DEF entered
  <2>3. QED
    BY <1>1, <1>3, <1>4, <2>1, <2>2, EndTaskSane DEF Inv
<1>9. QED
  BY <1>7, <1>8

\* The server changes nothing of the client.
LEMMA ServerStep == ASSUME Inv, ServerEvent \/ LinkDown PROVE Inv'
<1>1. ASSUME ServerEvent
      PROVE  Sane(s') /\ Keeps(s, s') /\ Refreshed(s')
  BY <1>1 DEF ServerEvent, Inv, Sane, Nearly, States, Keeps, Refreshed
<1>2. ASSUME LinkDown
      PROVE  Sane(s') /\ Keeps(s, s') /\ Refreshed(s')
  BY <1>2 DEF LinkDown, Inv, Sane, Nearly, States, Keeps, Refreshed
<1>3. QED
  BY <1>1, <1>2, InvAfter DEF Inv

-----------------------------------------------------------------------------

\* At the start the client is dead and its first attempt is scheduled.
LEMMA InitInv == Init => Inv
  BY SettingsAssumption DEF Init, Inv, Sane, Nearly, States, Permissions, Refreshed

\* Every callback preserves the invariant.
LEMMA NextInv == Inv /\ [Next]_s => Inv'
<1> SUFFICES ASSUME Inv, [Next]_s PROVE Inv'
  OBVIOUS
<1>1. CASE Timers
  BY <1>1, OnReconnectTimerStep, OnEnterIdleTimerStep, OnUpdateTimerStep,
     OnConnectTimeoutStep DEF Timers
<1>2. CASE OnUpdateScreen
  BY <1>2, OnUpdateScreenStep
<1>3. CASE Poll
  BY <1>3, PollStep
<1>4. CASE Sockets
  BY <1>4, OnSocketConnectedStep, OnReceiveStep, OnSocketReadyStep, OnInputStep,
     OnRemoteStep, OnDialogKeyStep, CancelDialogStep, EnterPasswordStep DEF Sockets
<1>5. CASE ServerEvent \/ LinkDown
  BY <1>5, ServerStep
<1>6. CASE UNCHANGED s
  BY <1>6 DEF Inv, Sane, Nearly, Refreshed
<1>7. QED
  BY <1>1, <1>2, <1>3, <1>4, <1>5, <1>6 DEF Next

\* The invariant of the state between two callbacks.
THEOREM SpecImpliesInv == Spec => []Inv
<1>1. QED
  BY InitInv, NextInv, PTL DEF Spec

\* The type of the state.
THEOREM TypesCorrect == Spec => []TypeOK
<1>1. Inv => TypeOK
  BY DEF Inv, Sane, Nearly, TypeOK
<1>2. QED
  BY <1>1, SpecImpliesInv, PTL

\* Idle mode excludes every other use of the connection, in every interleaving
\* of timers, sockets, idle events and nested calls.
THEOREM IdleIsExclusive == Spec => []IdleExclusive
<1>1. Inv => IdleExclusive
  BY DEF Inv, Sane, Nearly, IdleExclusive, IsReady
<1>2. QED
  BY <1>1, SpecImpliesInv, PTL

\* The password dialog owns its connection and never outlives the next one.
THEOREM DialogIsSafe == Spec => []DialogOwnsConnection
<1>1. Inv => DialogOwnsConnection
  BY DEF Inv, Sane, Nearly, DialogOwnsConnection
<1>2. QED
  BY <1>1, SpecImpliesInv, PTL

\* A dead client always has an attempt to come.
LEMMA InvReconnects == Inv => ReconnectsWhenDead
  BY DEF Inv, Sane, Nearly, ReconnectsWhenDead, IsDead

\* While MPD plays, an update of the display is pending.
LEMMA InvRefreshes == Inv => DisplayRefreshed
  BY DEF Inv, Sane, Nearly, Refreshed, DisplayRefreshed

\* Nothing that has to happen by itself is left without a timer.
THEOREM TimersArePending == Spec => []TimersPending
<1>1. Inv => TimersPending
  BY InvReconnects, InvRefreshes DEF TimersPending
<1>2. QED
  BY <1>1, SpecImpliesInv, PTL

-----------------------------------------------------------------------------
(* Attentive: the return to idle mode *)

\* Attentive, of any state
AttentiveIn(c) == c.conn /\ ~c.auth /\ Allowed(c, "read") => c.idle \/ c.idleTimer

\* Without a connection there is nothing to attend to.
LEMMA LostIsAttentive == ASSUME NEW c \in States PROVE AttentiveIn(ConnectionLost(c))
  BY ConnectionLostSane DEF AttentiveIn

\* The timer is enough, whatever has happened.
LEMMA ScheduledIsAttentive == ASSUME NEW c \in States PROVE AttentiveIn(ScheduleEnterIdle(c))
<1>1. (c.idleTimer \/ c.conn) \in BOOLEAN
  BY DEF States
<1>2. QED
  BY <1>1 DEF ScheduleEnterIdle, AttentiveIn, States

\* A refused request opens the dialog, which is allowed to keep the connection.
LEMMA QueryIsAttentive == ASSUME NEW c \in States, AttentiveIn(c) PROVE AttentiveIn(QueryPassword(c))
  BY DEF QueryPassword, AttentiveIn, States

\* A request either comes back, opens the dialog or loses the connection.
LEMMA RequestIsAttentive ==
    ASSUME NEW c \in States, AttentiveIn(c), NEW p, NEW d \in Request(c, p)
    PROVE  AttentiveIn(d)
  BY LostIsAttentive, QueryIsAttentive DEF Request

\* So does "status".
LEMMA StatusIsAttentive ==
    ASSUME NEW c \in States, AttentiveIn(c), NEW d \in RunStatus(c)
    PROVE  AttentiveIn(d)
<1>1. ASSUME NEW p \in BOOLEAN
      PROVE  [c EXCEPT !.playing = p] \in States /\ AttentiveIn([c EXCEPT !.playing = p])
  BY DEF States, AttentiveIn, Allowed
<1> DEFINE e == [c EXCEPT !.playing = FALSE]
<1>2. \/ d = ConnectionLost(c)
      \/ \E p \in BOOLEAN : d = [c EXCEPT !.playing = p]
      \/ d = QueryPassword(e)
  BY DEF RunStatus
<1>3. e \in States /\ AttentiveIn(e)
  BY <1>1
<1> HIDE DEF e
<1>4. QED
  BY <1>1, <1>2, <1>3, LostIsAttentive, QueryIsAttentive

\* The end of a stale dialog
LEMMA CancelIsAttentive ==
    ASSUME NEW c \in States, AttentiveIn(c)
    PROVE  AttentiveIn(CancelTask(c))
  BY DEF CancelTask, EndTask, AttentiveIn, States

\* What ScreenManager::Update() does itself
LEMMA ShowPageIsAttentive ==
    ASSUME NEW c, Nearly(c), AttentiveIn(c)
    PROVE  AttentiveIn(ShowPage(c))
<1> DEFINE e == CancelTask(c)
<1>1. e \in States /\ AttentiveIn(e)
  BY CancelTaskSane, CancelIsAttentive DEF Sane, Nearly
<1> HIDE DEF e
<1>2. PICK a \in Settings : ShowPage(c) = [e EXCEPT !.active = a]
  BY <1>1 DEF ShowPage, e, States
<1>3. QED
  BY <1>1, <1>2 DEF AttentiveIn, Allowed, States

\* OnIdle() schedules the timer when all has been reloaded, however that went.
LEMMA OnIdleIsAttentive ==
    ASSUME NEW c, Sane(c), c.conn, "mpd" \notin c.ready, ~c.auth, NEW d \in OnIdle(c)
    PROVE  AttentiveIn(d)
<1> DEFINE reported == [c EXCEPT !.idle = FALSE, !.changed = FALSE, !.events = TRUE]
<1>1. Sane(reported) /\ reported.conn /\ ~reported.idle
  BY DEF Sane, Nearly, States
<1>2. PICK u \in RunStatus(reported) : \E e \in UpdatePage(u) :
        d = ScheduleEnterIdle([AutoUpdateTimer(e) EXCEPT !.events = FALSE])
  BY DEF OnIdle
<1>3. PICK e \in UpdatePage(u) :
        d = ScheduleEnterIdle([AutoUpdateTimer(e) EXCEPT !.events = FALSE])
  BY <1>2
<1> HIDE DEF reported
<1>4. Sane(u) /\ ~u.idle
  BY <1>1, <1>2, RunStatusSane
<1>5. e \in States
  BY <1>3, <1>4, UpdatePageSane DEF Sane, Nearly
<1>6. [AutoUpdateTimer(e) EXCEPT !.events = FALSE] \in States
  BY <1>5 DEF AutoUpdateTimer, States
<1>7. QED
  BY <1>3, <1>6, ScheduledIsAttentive

\* GetConnection() schedules it when it has left idle mode.
LEMMA GetConnectionIsAttentive ==
    ASSUME NEW c, Sane(c), AttentiveIn(c), ~c.auth, NEW d \in GetConnection(c)
    PROVE  AttentiveIn(d)
<1>1. CASE c.conn /\ c.idle
  <2>1. PICK e \in Leave(c) : d = ScheduleEnterIdle(e)
    BY <1>1 DEF GetConnection
  <2>2. e \in States
    BY <1>1, <2>1, LeaveSane DEF Sane, Nearly
  <2>3. QED
    BY <2>1, <2>2, ScheduledIsAttentive
<1>2. CASE ~(c.conn /\ c.idle)
  BY <1>2 DEF GetConnection
<1>3. QED
  BY <1>1, <1>2

\* Any request of a page ...
LEMMA CommandIsAttentive ==
    ASSUME NEW c, Sane(c), AttentiveIn(c), NEW p, NEW d \in Command(c, p)
    PROVE  AttentiveIn(d)
<1>1. CASE c.auth
  BY <1>1 DEF Command
<1>2. CASE ~c.auth
  <2>1. PICK e \in GetConnection(c) : d \in IF e.conn THEN Request(e, p) ELSE {e}
    BY <1>2 DEF Command
  <2>2. e \in States /\ AttentiveIn(e)
    BY <1>2, <2>1, GetConnectionSane, GetConnectionIsAttentive DEF Sane, Nearly
  <2>3. QED
    BY <2>1, <2>2, RequestIsAttentive
<1>3. QED
  BY <1>1, <1>2

\* ... the update of the client ...
LEMMA UpdateIsAttentive ==
    ASSUME NEW c, Sane(c), AttentiveIn(c), NEW d \in Update(c)
    PROVE  AttentiveIn(d)
<1>1. CASE c.auth
  BY <1>1 DEF Update
<1>2. CASE ~c.auth
  <2>1. PICK e \in GetConnection(c) : d \in IF e.conn THEN RunStatus(e) ELSE {e}
    BY <1>2 DEF Update
  <2>2. e \in States /\ AttentiveIn(e)
    BY <1>2, <2>1, GetConnectionSane, GetConnectionIsAttentive DEF Sane, Nearly
  <2>3. QED
    BY <2>1, <2>2, StatusIsAttentive
<1>3. QED
  BY <1>1, <1>2

\* ... of the screen ...
LEMMA UpdateScreenIsAttentive ==
    ASSUME NEW c, Nearly(c), AttentiveIn(c), NEW d \in UpdateScreen(c)
    PROVE  AttentiveIn(d)
<1>1. CASE d = ShowPage(c)
  BY <1>1, ShowPageIsAttentive
<1>2. CASE d \in Command(CancelTask(c), "read")
  <2>1. Sane(CancelTask(c)) /\ AttentiveIn(CancelTask(c))
    BY CancelTaskSane, CancelIsAttentive DEF Nearly
  <2>2. QED
    BY <1>2, <2>1, CommandIsAttentive
<1>3. QED
  BY <1>1, <1>2 DEF UpdateScreen

\* ... and of both: they leave idle mode through GetConnection() only.
LEMMA UpdateClientIsAttentive ==
    ASSUME NEW c, Sane(c), AttentiveIn(c), NEW d \in UpdateClient(c)
    PROVE  AttentiveIn(d)
<1>1. PICK u : /\ u = c \/ u \in Update(c)
               /\ \E e \in UpdateScreen(u) : d = [e EXCEPT !.events = FALSE]
  BY DEF UpdateClient
<1>2. PICK e \in UpdateScreen(u) : d = [e EXCEPT !.events = FALSE]
  BY <1>1
<1>3. Sane(u) /\ AttentiveIn(u)
  BY <1>1, UpdateSane, UpdateIsAttentive
<1>4. e \in States /\ AttentiveIn(e)
  BY <1>2, <1>3, SaneNearly, UpdateScreenSane, UpdateScreenIsAttentive DEF Sane, Nearly
<1>5. QED
  BY <1>2, <1>4 DEF AttentiveIn, Allowed, States

\* An attempt has no connection yet ...
LEMMA ConnectErrorIsAttentive ==
    ASSUME NEW c, Down(c), NEW d \in ConnectError(c)
    PROVE  AttentiveIn(d)
<1>1. ~d.conn
  BY DEF ConnectError, Down, States
<1>2. QED
  BY <1>1 DEF AttentiveIn

\* ... and takes the old one down ...
LEMMA DoConnectIsAttentive ==
    ASSUME NEW c \in States, c.task = "dialog" => c.screen, NEW d \in DoConnect(c)
    PROVE  AttentiveIn(d)
<1> DEFINE e == Disconnect(c)
<1>1. Down(e)
  BY DisconnectType DEF Down
<1>2. d = [e EXCEPT !.connecting = "socket"] \/ d \in ConnectError(e)
  BY DEF DoConnect
<1> HIDE DEF e
<1>3. CASE d = [e EXCEPT !.connecting = "socket"]
  <2>1. ~d.conn
    BY <1>1, <1>3 DEF Down, States
  <2>2. QED
    BY <2>1 DEF AttentiveIn
<1>4. QED
  BY <1>1, <1>2, <1>3, ConnectErrorIsAttentive

\* ... and OnConnected() schedules the timer before anything is sent.
LEMMA OnMpdConnectedIsAttentive ==
    ASSUME NEW c, Fresh(c), c.idleTimer, NEW d \in OnMpdConnected(c)
    PROVE  AttentiveIn(d)
<1> DEFINE connected == [c EXCEPT !.reconnect = FALSE]
<1>1. Sane(connected) /\ AttentiveIn(connected)
  BY DEF Fresh, Sane, Nearly, States, AttentiveIn
<1>2. \/ d = [Disconnect(connected) EXCEPT !.reconnect = TRUE]
      \/ \E e \in UpdateClient(connected) : d = AutoUpdateTimer(e)
  BY DEF OnMpdConnected
<1> HIDE DEF connected
<1>3. CASE d = [Disconnect(connected) EXCEPT !.reconnect = TRUE]
  <2> DEFINE e == Disconnect(connected)
  <2>1. e \in States /\ ~e.conn
    BY <1>1, DisconnectType DEF Sane, Nearly
  <2>2. d = [e EXCEPT !.reconnect = TRUE]
    BY <1>3
  <2> HIDE DEF e
  <2>3. QED
    BY <2>1, <2>2 DEF States, AttentiveIn
<1>4. ASSUME NEW e \in UpdateClient(connected), d = AutoUpdateTimer(e)
      PROVE  AttentiveIn(d)
  <2>1. e \in States /\ AttentiveIn(e)
    BY <1>1, UpdateClientSane, UpdateClientIsAttentive DEF Sane, Nearly
  <2>2. d = [e EXCEPT !.updTimer = e.playing]
    BY <1>4 DEF AutoUpdateTimer
  <2>3. QED
    BY <2>1, <2>2 DEF States, AttentiveIn, Allowed
<1>5. QED
  BY <1>2, <1>3, <1>4

\* The end of an attempt that has reached MPD
LEMMA OnAsyncMpdConnectIsAttentive ==
    ASSUME NEW c, Down(c), c.task # "dialog", NEW d \in OnAsyncMpdConnect(c)
    PROVE  AttentiveIn(d)
<1> DEFINE e == [c EXCEPT !.connecting = "no"]
<1>1. Down(e) /\ e.connecting = "no" /\ e.task # "dialog"
  BY DEF Down, States
<1>2. \/ d = [e EXCEPT !.reconnect = TRUE]
      \/ d = ConnectFailed([e EXCEPT !.conn = TRUE])
      \/ \E p \in Permissions :
           d \in OnMpdConnected([e EXCEPT !.conn = TRUE, !.link = TRUE, !.perm = p,
                                          !.changed = FALSE, !.idleTimer = TRUE,
                                          !.events = TRUE])
  BY DEF OnAsyncMpdConnect, OnConnected
<1> HIDE DEF e
<1>3. CASE d = [e EXCEPT !.reconnect = TRUE]
  BY <1>1, <1>3 DEF Down, States, AttentiveIn
<1>4. CASE d = ConnectFailed([e EXCEPT !.conn = TRUE])
  <2> DEFINE f == [e EXCEPT !.conn = TRUE]
             g == Disconnect(f)
  <2>1. f \in States
    BY <1>1 DEF Down, States
  <2> HIDE DEF f
  <2>2. g \in States /\ ~g.conn
    BY <2>1, DisconnectType
  <2>3. d = [g EXCEPT !.reconnect = TRUE]
    BY <1>4 DEF ConnectFailed, f
  <2> HIDE DEF g
  <2>4. QED
    BY <2>2, <2>3 DEF States, AttentiveIn
<1>5. ASSUME NEW p \in Permissions,
             d \in OnMpdConnected([e EXCEPT !.conn = TRUE, !.link = TRUE, !.perm = p,
                                            !.changed = FALSE, !.idleTimer = TRUE,
                                            !.events = TRUE])
      PROVE  AttentiveIn(d)
  <2> DEFINE f == [e EXCEPT !.conn = TRUE, !.link = TRUE, !.perm = p,
                            !.changed = FALSE, !.idleTimer = TRUE, !.events = TRUE]
  <2>1. f \in States
    BY <1>1 DEF Down, States
  <2>2. Fresh(f) /\ f.idleTimer
    BY <1>1, <2>1 DEF Down, States, Fresh
  <2> HIDE DEF f
  <2>3. QED
    BY <1>5, <2>2, OnMpdConnectedIsAttentive DEF f
<1>6. QED
  BY <1>2, <1>3, <1>4, <1>5

\* A command given on a page
LEMMA OnCommandIsAttentive ==
    ASSUME NEW c, Sane(c), AttentiveIn(c), NEW d \in OnCommand(c)
    PROVE  AttentiveIn(d)
<1> DEFINE e == [c EXCEPT !.screen = TRUE]
<1>1. Sane(e) /\ e.screen /\ AttentiveIn(e)
  BY DEF Sane, Nearly, States, AttentiveIn, Allowed
<1>2. \/ d = e
      \/ d \in Command(e, "read")
      \/ d \in Command(e, "control")
      \/ \E f \in Command(e, "control") : d = [f EXCEPT !.updTimer = FALSE]
      \/ d \in Switch(e)
      \/ d \in Activate(e)
  BY DEF OnCommand
<1> HIDE DEF e
<1>3. CASE d = e
  BY <1>1, <1>3
<1>4. CASE d \in Command(e, "read") \/ d \in Command(e, "control")
  BY <1>1, <1>4, CommandIsAttentive
<1>5. ASSUME NEW f \in Command(e, "control"), d = [f EXCEPT !.updTimer = FALSE]
      PROVE  AttentiveIn(d)
  <2>1. f \in States /\ AttentiveIn(f)
    BY <1>1, CommandSane, CommandIsAttentive DEF Sane, Nearly
  <2>2. QED
    BY <1>5, <2>1 DEF States, AttentiveIn, Allowed
<1>6. CASE d \in Switch(e)
  <2>1. PICK p \in {"connections", "other"} : d \in UpdateScreen([e EXCEPT !.page = p])
    BY <1>6 DEF Switch
  <2> DEFINE f == [e EXCEPT !.page = p]
  <2>2. Sane(f)
    BY <1>1, ZenonT(60) DEF Sane, Nearly, States
  <2>3. AttentiveIn(f)
    BY <1>1 DEF Sane, Nearly, States, AttentiveIn, Allowed
  <2> HIDE DEF f
  <2>4. QED
    BY <2>1, <2>2, <2>3, SaneNearly, UpdateScreenIsAttentive DEF f
<1>7. CASE d \in Activate(e)
  <2>1. PICK a \in Settings : d \in DoConnect([e EXCEPT !.settings = a])
    BY <1>7 DEF Activate
  <2> DEFINE f == [e EXCEPT !.settings = a]
  <2>2. f \in States /\ f.screen
    BY <1>1 DEF Sane, Nearly, States
  <2> HIDE DEF f
  <2>3. QED
    BY <2>1, <2>2, DoConnectIsAttentive DEF f
<1>8. QED
  BY <1>2, <1>3, <1>4, <1>5, <1>6, <1>7

\* A ready socket changes nothing yet.
LEMMA ServedIsAttentive ==
    ASSUME Inv, AttentiveIn(s), NEW socket
    PROVE  AttentiveIn(Served(socket))
<1>1. Served(socket) = [s EXCEPT !.ready = @ \ {socket}]
  BY DEF Served
<1>2. QED
  BY <1>1 DEF Inv, Sane, Nearly, States, AttentiveIn, Allowed


\* What has scheduled the timer keeps it, unless it loses the connection.
LEMMA StatusKeepsTimer ==
    ASSUME NEW c \in States, c.idleTimer, NEW d \in RunStatus(c)
    PROVE  d.conn => d.idleTimer
<1>1. CASE d = ConnectionLost(c)
  BY <1>1, ConnectionLostSane
<1>2. CASE \E p \in BOOLEAN : d = [c EXCEPT !.playing = p]
  BY <1>2 DEF States
<1>3. CASE d = QueryPassword([c EXCEPT !.playing = FALSE])
  BY <1>3 DEF QueryPassword, States
<1>4. QED
  BY <1>1, <1>2, <1>3 DEF RunStatus

\* The right password is followed by idle mode.
LEMMA PasswordSchedules ==
    ASSUME NEW c, Sane(c), c.conn, NEW password \in Answers, password \notin {"cancel", "wrong"},
           NEW d \in SendPassword(c, password)
    PROVE  d.conn => d.idleTimer
<1>1. CASE d = ConnectionLost(c)
  BY <1>1, ConnectionLostSane DEF Sane, Nearly
<1>2. CASE d \in RunStatus(ScheduleEnterIdle([[c EXCEPT !.perm = password] EXCEPT !.events = TRUE]))
  <2>1. password \in Permissions
    BY SettingsAssumption DEF Permissions
  <2> DEFINE e == [[c EXCEPT !.perm = password] EXCEPT !.events = TRUE]
             f == ScheduleEnterIdle(e)
  <2>2. e \in States /\ e.conn
    BY <2>1 DEF Sane, Nearly, States
  <2>3. d \in RunStatus(f)
    BY <1>2
  <2> HIDE DEF e
  <2>4. (e.idleTimer \/ e.conn) = TRUE
    BY <2>2 DEF States
  <2>5. f \in States /\ f.idleTimer
    BY <2>2, <2>4 DEF ScheduleEnterIdle, States
  <2> HIDE DEF f
  <2>6. QED
    BY <2>3, <2>5, StatusKeepsTimer
<1>3. QED
  BY <1>1, <1>2 DEF SendPassword, AuthenticationFinished

-----------------------------------------------------------------------------

\* The dialog is left with a right password only.  (Cancelling it, or entering a wrong one, may leave
\* a client which is not in idle mode and will not be: the timer has expired behind the dialog.)
AlwaysRight == ~Remote /\ Answers \cap {"wrong", "cancel"} = {}

\* The reconnect timer starts an attempt.
LEMMA ReconnectAttentive == ASSUME Inv, OnReconnectTimer PROVE AttentiveIn(s')
<1>1. PICK a \in Settings : s' \in DoConnect([[s EXCEPT !.reconnect = FALSE]
                                                EXCEPT !.settings = a])
  BY SettingsAssumption DEF OnReconnectTimer, Connect, Inv, Sane, Nearly, States
<1> DEFINE c == [[s EXCEPT !.reconnect = FALSE] EXCEPT !.settings = a]
<1>2. c \in States /\ c.task = s.task /\ c.screen = s.screen
  BY DEF Inv, Sane, Nearly, States
<1>3. c.task = "dialog" => c.screen
  BY <1>2 DEF OnReconnectTimer, Inv, Sane, Nearly
<1> HIDE DEF c
<1>4. QED
  BY <1>1, <1>2, <1>3, DoConnectIsAttentive DEF c

\* The timer enters idle mode, unless the dialog is open.
LEMMA EnterIdleAttentive == ASSUME Inv, OnEnterIdleTimer PROVE AttentiveIn(s')
<1> DEFINE expired == [s EXCEPT !.idleTimer = FALSE]
<1>1. expired \in States /\ expired.auth = s.auth
  BY DEF Inv, Sane, Nearly, States
<1>2. \/ s.auth /\ s' = expired
      \/ s' = [expired EXCEPT !.idle = TRUE]
      \/ s' = ConnectionLost(expired)
  BY DEF OnEnterIdleTimer
<1> HIDE DEF expired
<1>3. QED
  BY <1>1, <1>2, LostIsAttentive DEF AttentiveIn, States

\* The update timer updates the client ...
LEMMA UpdateTimerAttentive == ASSUME Inv, AttentiveIn(s), OnUpdateTimer PROVE AttentiveIn(s')
<1> DEFINE c == [s EXCEPT !.updTimer = FALSE]
<1>1. Sane(c)
  BY DEF Inv, Sane, Nearly, States
<1>2. AttentiveIn(c)
  BY DEF Inv, Sane, Nearly, States, AttentiveIn, Allowed
<1>3. PICK d \in UpdateClient(c) : s' = [d EXCEPT !.updTimer = @ \/ d.playing]
  BY DEF OnUpdateTimer
<1> HIDE DEF c
<1>4. d \in States /\ AttentiveIn(d)
  BY <1>1, <1>2, <1>3, UpdateClientSane, UpdateClientIsAttentive DEF Sane, Nearly
<1>5. QED
  BY <1>3, <1>4 DEF States, AttentiveIn, Allowed

\* ... and the idle event the screen.
LEMMA UpdateScreenAttentive == ASSUME Inv, AttentiveIn(s), OnUpdateScreen PROVE AttentiveIn(s')
<1> DEFINE c == [s EXCEPT !.screen = FALSE]
<1>1. PICK d \in UpdateScreen(c) : s' = AutoUpdateTimer([d EXCEPT !.events = FALSE])
  BY DEF OnUpdateScreen
<1>2. Nearly(c)
  BY ZenonT(60) DEF Inv, Sane, Nearly, States
<1>3. AttentiveIn(c)
  BY DEF Inv, Sane, Nearly, States, AttentiveIn, Allowed
<1> HIDE DEF c
<1>4. d \in States /\ AttentiveIn(d)
  BY <1>1, <1>2, <1>3, UpdateScreenSane, UpdateScreenIsAttentive DEF Sane, Nearly
<1>5. s' = [d EXCEPT !.events = FALSE, !.updTimer = d.playing]
  BY <1>1, <1>4 DEF AutoUpdateTimer, States
<1>6. QED
  BY <1>4, <1>5 DEF States, AttentiveIn, Allowed

\* The events of an attempt
LEMMA AttemptAttentive ==
    ASSUME Inv, OnConnectTimeout \/ OnSocketConnected \/ OnReceive PROVE AttentiveIn(s')
<1>1. CASE OnConnectTimeout
  <2>1. Down(s) /\ s' \in ConnectError(s)
    BY <1>1 DEF OnConnectTimeout, Looping, Inv, Sane, Nearly, Down
  <2>2. QED
    BY <2>1, ConnectErrorIsAttentive
<1> DEFINE c == Served("mpd")
<1>2. CASE OnSocketConnected
  <2>1. Down(c)
    BY <1>2, AttemptServed DEF OnSocketConnected
  <2>2. s' = [c EXCEPT !.connecting = "welcome"] \/ s' \in ConnectError(c)
    BY <1>2 DEF OnSocketConnected
  <2> HIDE DEF c
  <2>3. QED
    BY <2>1, <2>2, ConnectErrorIsAttentive DEF Down, States, AttentiveIn
<1>3. CASE OnReceive
  <2>1. Down(c) /\ c.task # "dialog"
    BY <1>3, AttemptServed DEF OnReceive
  <2>2. s' \in OnAsyncMpdConnect(c) \/ s' \in ConnectError(c)
    BY <1>3 DEF OnReceive
  <2> HIDE DEF c
  <2>3. QED
    BY <2>1, <2>2, ConnectErrorIsAttentive, OnAsyncMpdConnectIsAttentive
<1>4. QED
  BY <1>1, <1>2, <1>3

\* MPD has an event, or has gone.
LEMMA SocketAttentive == ASSUME Inv, OnSocketReady PROVE AttentiveIn(s')
<1> DEFINE c == Served("mpd")
<1>1. Sane(c) /\ c.conn /\ ~c.auth /\ "mpd" \notin c.ready
  BY ServedSane DEF OnSocketReady, Inv, Sane, Nearly
<1>2. s' \in OnIdle(c) \/ s' = ConnectionLost(c)
  BY DEF OnSocketReady
<1> HIDE DEF c
<1>3. QED
  BY <1>1, <1>2, OnIdleIsAttentive, LostIsAttentive DEF Sane, Nearly

\* A key is a command, or edits the password.
LEMMA KeyAttentive == ASSUME Inv, AttentiveIn(s), OnInput \/ OnDialogKey PROVE AttentiveIn(s')
<1> DEFINE c == Served("input")
<1>1. Sane(c) /\ AttentiveIn(c)
  BY ServedSane, ServedIsAttentive
<1>2. s' \in OnCommand(c) \/ s' = [c EXCEPT !.screen = TRUE]
  BY DEF OnInput, OnDialogKey
<1> HIDE DEF c
<1>3. CASE s' = [c EXCEPT !.screen = TRUE]
  BY <1>1, <1>3 DEF Sane, Nearly, States, AttentiveIn, Allowed
<1>4. QED
  BY <1>1, <1>2, <1>3, OnCommandIsAttentive

\* The password is right, so idle mode follows, although the timer may have expired behind the dialog.
LEMMA PasswordAttentive == ASSUME Inv, AlwaysRight, EnterPassword PROVE AttentiveIn(s')
<1> DEFINE c == Served("input")
           entered == [c EXCEPT !.screen = TRUE, !.auth = FALSE]
           busy == [entered EXCEPT !.task = "busy"]
<1>1. Sane(c) /\ c.task = "dialog"
  BY ServedSane DEF EnterPassword
<1>2. PICK password \in Answers \ {"cancel"} :
        s' \in {EndTask(d) : d \in
                  UNION {IF d.conn THEN SendPassword([d EXCEPT !.task = "busy"], password)
                         ELSE {d} : d \in GetConnection(entered)}}
  BY DEF EnterPassword
<1>3. PICK d : s' = EndTask(d) /\ d \in
                  UNION {IF e.conn THEN SendPassword([e EXCEPT !.task = "busy"], password)
                         ELSE {e} : e \in GetConnection(entered)}
  BY <1>2
<1> HIDE DEF c
<1>4. entered.conn = c.conn /\ ~entered.idle /\ entered.screen
  BY <1>1 DEF Sane, Nearly, States
<1>5. GetConnection(entered) = {entered}
  BY <1>4 DEF GetConnection
<1>6. d \in IF entered.conn THEN SendPassword(busy, password) ELSE {entered}
  BY <1>3, <1>5
<1>7. CASE entered.conn
  <2>1. Sane(busy) /\ busy.conn /\ ~busy.idle
    BY <1>1, <1>4, <1>7 DEF Sane, Nearly, States
  <2>2. d \in SendPassword(busy, password)
    BY <1>6, <1>7
  <2> HIDE DEF busy
  <2>3. d \in States
    BY <2>1, <2>2, SendPasswordSane DEF Sane, Nearly
  <2>4. d.conn => d.idleTimer
    BY <2>1, <2>2, PasswordSchedules DEF AlwaysRight
  <2>5. QED
    BY <1>3, <2>3, <2>4 DEF EndTask, States, AttentiveIn
<1>8. CASE ~entered.conn
  <2>1. d = entered /\ entered \in States
    BY <1>1, <1>6, <1>8 DEF Sane, Nearly, States
  <2> HIDE DEF entered
  <2>2. QED
    BY <1>3, <1>8, <2>1 DEF EndTask, States, AttentiveIn
<1>9. QED
  BY <1>7, <1>8

\* Every callback keeps MPD attended to.
LEMMA NextAttentive ==
    ASSUME AlwaysRight, Inv, AttentiveIn(s), [Next]_s PROVE AttentiveIn(s')
<1>1. CASE Timers
  BY <1>1, ReconnectAttentive, EnterIdleAttentive, UpdateTimerAttentive, AttemptAttentive DEF Timers
<1>2. CASE OnUpdateScreen
  BY <1>2, UpdateScreenAttentive
<1>3. CASE Poll
  BY <1>3 DEF Poll, Inv, Sane, Nearly, States, AttentiveIn, Allowed
<1>4. CASE Sockets
  <2>1. ~OnRemote
    BY DEF OnRemote, Inv, AlwaysRight
  <2>2. ~CancelDialog
    BY DEF CancelDialog, AlwaysRight
  <2>3. QED
    BY <1>4, <2>1, <2>2, AttemptAttentive, SocketAttentive, KeyAttentive, PasswordAttentive DEF Sockets
<1>5. CASE ServerEvent
  BY <1>5 DEF ServerEvent, Inv, Sane, Nearly, States, AttentiveIn, Allowed
<1>6. CASE LinkDown
  BY <1>6 DEF LinkDown, Inv, Sane, Nearly, States, AttentiveIn, Allowed
<1>7. CASE UNCHANGED s
  BY <1>7
<1>8. QED
  BY <1>1, <1>2, <1>3, <1>4, <1>5, <1>6, <1>7 DEF Next

\* When the user knows the password, a connection that may read is in idle mode or about to enter
\* it, whenever no dialog is open: none of the calls that leave idle mode (mpdclient::GetConnection,
\* MpdIdleSource::OnSocketReady) forgets to schedule the return.
THEOREM AttendsToMpd == ASSUME AlwaysRight PROVE Spec => []Attentive
<1>1. Init => AttentiveIn(s)
  BY DEF Init, AttentiveIn
<1>2. Inv /\ AttentiveIn(s) /\ [Next]_s => AttentiveIn(s)'
  BY NextAttentive
<1>3. AttentiveIn(s) => Attentive
  BY DEF AttentiveIn, Attentive, IsReady
<1>4. QED
  BY <1>1, <1>2, <1>3, SpecImpliesInv, PTL DEF Spec
=============================================================================
