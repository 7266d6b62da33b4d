---------------------------- MODULE AsyncConnect ----------------------------
(***************************************************************************)
(* The attempts to connect: AsyncMpdConnect (client/aconnect.cxx), its     *)
(* ConnectSocket (event/net/ConnectSocket.cxx), and the part of mpdclient  *)
(* (client/mpdclient.cxx) that starts and cancels them.  An attempt is an  *)
(* object which deletes itself after telling mpdclient how it has ended;   *)
(* being told, mpdclient may start the next one, which may fail before its *)
(* Start() returns.  What happens on a connection is MpdClient.tla's.      *)
(***************************************************************************)
EXTENDS Naturals

CONSTANTS
    Objects,        \* addresses of AsyncMpdConnect objects
    Numbers,        \* of file descriptors
    MaxChoices      \* bound: servers chosen on the connections page

VARIABLE attempts

None == "none"

\* Neither memory nor descriptors run out: there is room for an attempt beside the one that ends.
ASSUME RoomAssumption ==
    /\ None \notin Objects \cup Numbers
    /\ \E o, p \in Objects : o # p
    /\ \E m, n \in Numbers : m # n

\* What the peer has done: nothing yet; refused; accepted; sent something that cannot be a
\* welcome line, or a line.
Peers == {"nothing", "refused", "accepted", "rubbish", "line"}

\* "wrong" is history: an object has been used or deleted after its end.
AttemptsInit ==
    \E fallback \in BOOLEAN :
        attempts = [ptr |-> None, live |-> {},                          \* async_connect
                    connect |-> [o \in Objects |-> None],               \* rconnect's event
                    deadline |-> {},                                    \* and timeout_event
                    socket |-> [o \in Objects |-> None],
                    conn |-> None, reconnect |-> TRUE,
                    settings |-> "default", fallback |-> fallback,
                    open |-> {}, peer |-> [n \in Numbers |-> "nothing"],    \* (external)
                    choices |-> 0, wrong |-> FALSE]

CloseFd(a, n) == [a EXCEPT !.open = @ \ {n}]

-----------------------------------------------------------------------------
(* The end of an attempt, and the next one *)

\* The destructors: sockets are closed, the timer is cancelled.
Delete(a, o) ==
    [a EXCEPT !.live = @ \ {o}, !.deadline = @ \ {o}, !.connect[o] = None, !.socket[o] = None,
              !.open = @ \ {a.connect[o], a.socket[o]}, !.wrong = @ \/ o \notin a.live]

\* OnAsyncMpdConnect() and OnAsyncMpdConnectError() assert that there is an attempt.
Forget(a) == [a EXCEPT !.ptr = None, !.wrong = @ \/ a.ptr = None]

\* The object, and the pointer to it before it starts
NewAttempt(a) ==
    LET o == CHOOSE o \in Objects \ a.live : TRUE
    IN  [a EXCEPT !.ptr = o, !.live = @ \cup {o}]

\* Connect() and WaitConnected(), with a timeout
WaitConnected(a) ==
    LET n == CHOOSE n \in Numbers \ a.open : TRUE
    IN  [a EXCEPT !.connect[a.ptr] = n, !.deadline = @ \cup {a.ptr}, !.open = @ \cup {n},
                  !.peer[n] = "nothing"]

\* OnAsyncMpdConnectError() without a fallback, and OnMpdConnectFailed()
GiveUp(a) == [Forget(a) EXCEPT !.reconnect = TRUE]

\* Mutant: the pointer is set when Start() has returned.
StartFallbackLate(a) ==
    LET n == NewAttempt(a)
    IN  {WaitConnected(n), [Delete(GiveUp(n), n.ptr) EXCEPT !.ptr = n.ptr]}

\* StartConnect() of the fallback.  The name may not be resolved, the socket not be created or the
\* connection be refused at once: OnSocketConnectError() is called within Start().
StartFallback(a) ==
    LET n == NewAttempt(a)
    IN  {WaitConnected(n), Delete(GiveUp(n), n.ptr)}

OnAsyncError(a) ==
    IF a.settings = "default" /\ a.fallback
    THEN StartFallback([Forget(a) EXCEPT !.settings = "fallback"])
    ELSE {GiveUp(a)}

\* OnSocketConnectError() of an attempt
SocketError(a, o) == {Delete(b, o) : b \in OnAsyncError(a)}

StartConnect(a) ==
    LET n == NewAttempt(a)
    IN  {WaitConnected(n)} \cup SocketError(n, n.ptr)

-----------------------------------------------------------------------------
(* mpdclient *)

\* Disconnect()
Hangup(a) ==
    LET b == IF a.ptr = None THEN a ELSE [Delete(a, a.ptr) EXCEPT !.ptr = None]
    IN  [CloseFd(b, b.conn) EXCEPT !.conn = None]

\* DoConnect() after the reconnect timer, which starts again with the first address
Reconnect ==
    /\ attempts.reconnect
    /\ attempts' \in StartConnect(Hangup(
           [attempts EXCEPT !.reconnect = FALSE,
                            !.settings = IF @ = "fallback" THEN "default" ELSE @]))

\* DoConnect() with the server chosen by the user, whatever is going on
ChooseServer ==
    /\ attempts.choices < MaxChoices
    /\ \E server \in {"default", "custom"} :
          attempts' \in StartConnect(Hangup(
              [attempts EXCEPT !.settings = server, !.choices = @ + 1]))

\* OnAsyncMpdConnect(): password and tags may be refused, the line may not be MPD's; OnMpdConnected()
\* may find the server too old, or lose it.
Connected(a, n) ==
    LET made == [Forget(a) EXCEPT !.conn = n]
    IN  {[made EXCEPT !.reconnect = FALSE], [Hangup(made) EXCEPT !.reconnect = TRUE]}

\* Disconnect() and OnMpdConnectionLost()
LoseConnection ==
    /\ attempts.conn # None
    /\ attempts' = [Hangup(attempts) EXCEPT !.reconnect = TRUE]

-----------------------------------------------------------------------------
(* Callbacks of the event loop *)

\* ConnectSocket::OnEvent()
ConnectEvent ==
    \E o \in attempts.live :
        LET n == attempts.connect[o]
            a == [attempts EXCEPT !.deadline = @ \ {o}, !.connect[o] = None]
        IN  /\ n # None /\ attempts.peer[n] # "nothing"
            /\ attempts' \in IF attempts.peer[n] = "refused" THEN SocketError(CloseFd(a, n), o)
                             ELSE {[a EXCEPT !.socket[o] = n]}

\* ConnectSocket::OnTimeout(), even if the socket has become ready meanwhile
ConnectTimeout ==
    \E o \in attempts.deadline :
        attempts' \in SocketError([CloseFd(attempts, attempts.connect[o])
                                      EXCEPT !.deadline = @ \ {o}, !.connect[o] = None], o)

\* AsyncMpdConnect::OnReceive(): the connection takes the socket, then the attempt is deleted.
ReceiveWelcome ==
    \E o \in attempts.live :
        LET n == attempts.socket[o]
        IN  /\ n # None /\ attempts.peer[n] \in {"rubbish", "line"}
            /\ attempts' \in IF attempts.peer[n] = "rubbish" THEN SocketError(attempts, o)
                             ELSE {Delete(b, o) :
                                      b \in Connected([attempts EXCEPT !.socket[o] = None], n)}

-----------------------------------------------------------------------------
PeerAnswers ==
    \E n \in attempts.open, answer \in Peers :
        /\ \/ attempts.peer[n] = "nothing" /\ answer \in {"refused", "accepted"}
           \/ attempts.peer[n] = "accepted" /\ answer \in {"rubbish", "line"}
        /\ attempts' = [attempts EXCEPT !.peer[n] = answer]

AttemptsNext ==
    \/ Reconnect \/ ChooseServer \/ LoseConnection \/ PeerAnswers
    \/ ConnectEvent \/ ConnectTimeout \/ ReceiveWelcome

\* The loop runs timers that are due and dispatches sockets; peers may do nothing.
AttemptsFairness == WF_attempts(ConnectEvent) /\ WF_attempts(ConnectTimeout) /\ WF_attempts(ReceiveWelcome)

AttemptsSpec == AttemptsInit /\ [][AttemptsNext]_attempts /\ AttemptsFairness

-----------------------------------------------------------------------------
(* Properties *)

AttemptsTypeOK ==
    /\ attempts.ptr \in Objects \cup {None} /\ attempts.conn \in Numbers \cup {None}
    /\ attempts.open \subseteq Numbers /\ attempts.peer \in [Numbers -> Peers]

\* However attempts fail, in their own Start(), by timeout or by what they receive, and whatever is
\* started meanwhile: the attempt that exists is the one mpdclient knows, none is deleted twice, and
\* none is left behind once there is a connection.
OneAttempt ==
    /\ ~attempts.wrong
    /\ attempts.live = {attempts.ptr} \ {None}
    /\ attempts.ptr # None => attempts.conn = None

\* Every descriptor has one owner, none is leaked; an attempt has one socket, watched by the timer
\* until the handshake is made.
SocketsOwned ==
    /\ attempts.open = ({attempts.connect[o] : o \in Objects} \cup {attempts.socket[o] : o \in Objects}
                            \cup {attempts.conn}) \ {None}
    /\ \A o \in attempts.live :
          /\ (attempts.connect[o] = None) # (attempts.socket[o] = None)
          /\ o \in attempts.deadline <=> attempts.connect[o] # None
    /\ attempts.deadline \subseteq attempts.live

\* There is a connection, an attempt, or a timer to begin one.
NeverAtRest == attempts.conn # None \/ attempts.ptr # None \/ attempts.reconnect

\* No attempt, and no descriptor of one, is lost, kept too long or deleted twice, and there is always
\* something that leads to a connection.
AttemptsSound == AttemptsTypeOK /\ OneAttempt /\ SocketsOwned /\ NeverAtRest

\* A server that accepts the connection and says nothing: the timer has been cancelled.
Silent(a) == a.ptr # None /\ a.socket[a.ptr] # None /\ a.peer[a.socket[a.ptr]] = "accepted"

\* An attempt ends, fallback included, unless the server accepts it and stays silent.
AttemptEnds == attempts.ptr # None ~> (attempts.ptr = None \/ Silent(attempts))
=============================================================================
