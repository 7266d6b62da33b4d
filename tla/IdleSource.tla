----------------------------- MODULE IdleSource -----------------------------
(***************************************************************************)
(* The dialogue of idle mode, line by line: MpdIdleSource                  *)
(* (client/gidle.cxx) below mpdclient::GetConnection() and OnIdle()        *)
(* (client/mpdclient.cxx).  In the event loop the lines are read as they   *)
(* come; a command which wants the connection reads the rest of them, and  *)
(* the answer to its own request, in calls that block.  Meanwhile MPD may  *)
(* have left idle mode by itself.                                          *)
(***************************************************************************)
EXTENDS Integers, FiniteSets, SequencesExt

CONSTANTS
    Subsystems,     \* what MPD may report
    Known           \* those that an old libmpdclient has a name for

ASSUME KnownAssumption == IsFiniteSet(Subsystems) /\ Known \subseteq Subsystems

VARIABLE talk

\* A line of a response, and the command it answers.
Line(kind, of) == [kind |-> kind, of |-> of]
Changed(e) == [kind |-> "changed", of |-> "idle", event |-> e]
Ends(line) == line.kind # "changed"

\* A client whose library has names for some events, without a connection
NoTalk(known) ==
    [known |-> known,
     link |-> FALSE, pending |-> {}, idling |-> FALSE,      \* MPD's end (external)
     sent |-> <<>>, wire |-> <<>>,                          \* to and from MPD (external)
     conn |-> FALSE, idle |-> FALSE, timer |-> FALSE,       \* mpdclient
     io |-> {}, out |-> <<>>, got |-> {},                   \* io_events, idle_events
     pc |-> "loop", owed |-> {}]

\* `pc': the loop; reading in Leave(); the request of Update() and of the command, with or
\* without a command that waits for the update.
Phases == {"loop", "leave", "update", "nested update", "caller", "command"}

\* "owed" is history: the known events of this connection which OnIdle() has not been told.
TalkInit == \E known \in {Known, Subsystems} : talk = NoTalk(known)

-----------------------------------------------------------------------------
(* MPD *)

\* The end of idle mode, with its news
Notify(t) ==
    LET news == SetToSeq(t.pending)
    IN  [t EXCEPT !.wire = @ \o [k \in DOMAIN news |-> Changed(news[k])] \o <<Line("ok", "idle")>>,
                  !.pending = {}, !.idling = FALSE]

MpdEvent ==
    /\ talk.link
    /\ \E e \in Subsystems :
          LET raised == [talk EXCEPT !.pending = @ \cup {e}, !.owed = @ \cup ({e} \cap talk.known)]
          IN  talk' = IF talk.idling THEN Notify(raised) ELSE raised

\* A request within idle mode, "noidle" excepted, costs the connection.
MpdReads ==
    /\ talk.link /\ talk.sent # <<>>
    /\ LET t == [talk EXCEPT !.sent = Tail(@)]
           command == Head(talk.sent)
       IN  \/ command = "idle" /\ ~t.idling
              /\ talk' = IF t.pending = {} THEN [t EXCEPT !.idling = TRUE] ELSE Notify(t)
           \/ command = "idle" /\ ~t.idling                                \* no permission
              /\ talk' = [t EXCEPT !.wire = Append(@, Line("ack", "idle"))]
           \/ command = "noidle" /\ talk' = IF t.idling THEN Notify(t) ELSE t
           \/ command = "request" /\ ~t.idling
              /\ talk' = [t EXCEPT !.wire = Append(@, Line("ok", "request"))]
           \/ command # "noidle" /\ t.idling
              /\ talk' = [t EXCEPT !.link = FALSE, !.idling = FALSE, !.sent = <<>>]    \* hangs up

\* The connection breaks, perhaps with rubbish.
LinkBreaks ==
    /\ talk.link
    /\ \E rest \in {<<>>, <<Line("garbage", "none")>>} :
          talk' = [talk EXCEPT !.link = FALSE, !.idling = FALSE, !.pending = {}, !.sent = <<>>,
                               !.wire = @ \o rest, !.owed = @ \ talk.pending]

-----------------------------------------------------------------------------
(* MpdIdleSource *)

\* What has been written before goes first.
Send(t, command) == [t EXCEPT !.sent = IF t.link THEN @ \o t.out \o <<command>> ELSE @, !.out = <<>>]

\* OnIdleError(): Disconnect()
IdleError(t) == NoTalk(t.known)

\* InvokeCallback() and OnIdle(): Update() sends its request
InvokeCallback(t, next) ==
    IF t.got = {} THEN [t EXCEPT !.pc = IF next = "nested update" THEN "caller" ELSE "loop"]
    ELSE Send([t EXCEPT !.idle = FALSE, !.owed = @ \ t.got, !.pc = next], "request")

\* Up to k lines: none behind the end of the response
Consumed(t, k) ==
    LET ends == {j \in 1..k : Ends(t.wire[j])}
    IN  IF ends = {} THEN k ELSE CHOOSE j \in ends : \A l \in ends : j <= l

\* Feed() of each line; `next' is what OnIdle() is called for.
Receive(t, k, next) ==
    LET n == Consumed(t, k)
        news == {t.wire[j].event : j \in {l \in 1..n : ~Ends(t.wire[l])}}
        read == [t EXCEPT !.wire = SubSeq(@, n + 1, Len(@)), !.got = @ \cup (news \cap t.known)]
    IN  CASE ~Ends(t.wire[n]) -> read
          [] t.wire[n].kind = "ok" -> InvokeCallback([read EXCEPT !.io = {}], next)
          [] OTHER -> IdleError(read)

\* Mutant: the events of the last time are not forgotten.
EnterKeeping(t) ==
    [t EXCEPT !.timer = FALSE, !.idle = TRUE, !.out = Append(@, "idle"), !.io = {"read", "write"}]

\* OnEnterIdleTimer() and Enter()
Enter(t) ==
    [t EXCEPT !.timer = FALSE, !.idle = TRUE, !.got = {}, !.out = Append(@, "idle"),
              !.io = {"read", "write"}]

EnterIdleMode == talk.pc = "loop" /\ talk.timer /\ talk' = Enter(talk)

\* mpd_async_io() and UpdateSocket()
Written(t) == [t EXCEPT !.sent = IF t.link THEN @ \o t.out ELSE @, !.out = <<>>, !.io = {"read"}]

IdleSocketReady ==
    /\ talk.pc = "loop" /\ talk.idle
    /\ \E write \in BOOLEAN, k \in 0..Len(talk.wire) :
          LET t == IF write THEN Written(talk) ELSE talk
          IN  /\ write => "write" \in talk.io
              /\ k > 0 => "read" \in talk.io
              /\ write \/ k > 0
              /\ talk' = IF k = 0 THEN t ELSE Receive(t, k, "update")

\* mpd_async_io() fails.
IdleSocketFails ==
    /\ talk.pc = "loop" /\ talk.idle /\ talk.io # {} /\ ~talk.link /\ talk.wire = <<>>
    /\ talk' = IdleError(talk)

\* GetConnection() and Leave(): "noidle" unless MPD has begun to answer
LeaveMode(t) ==
    LET left == [t EXCEPT !.idle = FALSE, !.io = {}, !.pc = "leave"]
    IN  IF t.io = {} THEN [left EXCEPT !.timer = TRUE, !.pc = "caller"]
        ELSE IF t.got = {} THEN Send(left, "noidle")
        ELSE left

\* Anything that calls GetConnection()
CommandStarts ==
    /\ talk.pc = "loop" /\ talk.conn
    /\ talk' = IF talk.idle THEN LeaveMode(talk) ELSE [talk EXCEPT !.pc = "caller"]

\* mpd_recv_idle(); GetConnection() schedules the return to idle mode.
LeaveReads ==
    /\ talk.pc = "leave" /\ talk.wire # <<>>
    /\ LET t == Receive(talk, 1, "nested update")
       IN  talk' = IF t.pc = "caller" THEN [t EXCEPT !.timer = TRUE] ELSE t

LeaveFails ==
    /\ talk.pc = "leave" /\ ~talk.link /\ talk.wire = <<>>
    /\ talk' = IdleError(talk)

-----------------------------------------------------------------------------
(* The requests of mpdclient *)

\* The answer to Update() within OnIdle(), which returns to the loop or to the command
UpdateReturns ==
    /\ talk.pc \in {"update", "nested update"} /\ talk.wire # <<>>
    /\ talk' = IF Head(talk.wire).kind = "garbage" THEN IdleError(talk)
               ELSE [talk EXCEPT !.wire = Tail(@), !.timer = TRUE,
                                 !.pc = IF @ = "update" THEN "loop" ELSE "caller"]

\* The command sends its request, or does not after all.
CallerGoesOn ==
    /\ talk.pc = "caller"
    /\ \/ talk' = Send([talk EXCEPT !.pc = "command"], "request")
       \/ talk' = [talk EXCEPT !.pc = "loop"]

CommandReturns ==
    /\ talk.pc = "command" /\ talk.wire # <<>>
    /\ talk' = IF Head(talk.wire).kind = "garbage" THEN IdleError(talk)
               ELSE [talk EXCEPT !.wire = Tail(@), !.pc = "loop"]

\* HandleError(): an I/O error
RequestFails ==
    /\ talk.pc \in {"update", "nested update", "command"} /\ ~talk.link /\ talk.wire = <<>>
    /\ talk' = IdleError(talk)

\* OnConnected(), sooner or later
TalkBegins ==
    /\ ~talk.conn
    /\ talk' = [NoTalk(talk.known) EXCEPT !.link = TRUE, !.conn = TRUE, !.timer = TRUE]

\* All that needs no decision of the user, of MPD's other clients or of the network
ClientRuns ==
    \/ IdleSocketReady \/ IdleSocketFails \/ LeaveReads \/ LeaveFails
    \/ UpdateReturns \/ CallerGoesOn \/ CommandReturns \/ RequestFails

TalkNext ==
    \/ MpdEvent \/ MpdReads \/ LinkBreaks \/ TalkBegins
    \/ EnterIdleMode \/ CommandStarts \/ ClientRuns

\* MPD answers, and the loop runs on; commands may come again and again, but a timer that is due
\* runs before the next socket is looked at.
TalkFairness == WF_talk(MpdReads) /\ WF_talk(ClientRuns) /\ SF_talk(EnterIdleMode)

TalkSpec == TalkInit /\ [][TalkNext]_talk /\ TalkFairness

-----------------------------------------------------------------------------
(* Properties *)

\* What the client waits for: the command that is being answered, or "none".
Awaited(t) ==
    CASE t.pc = "leave" \/ (t.idle /\ t.io # {}) -> "idle"
      [] t.pc \in {"update", "nested update", "command"} -> "request"
      [] OTHER -> "none"

\* Whatever the user, MPD and the loop do first: a line that arrives belongs to the response the
\* client reads, of which nothing is left when it sends the next command.
AnswersMatch ==
    /\ \A j \in DOMAIN talk.wire : talk.wire[j].of \in {Awaited(talk), "none"}
    /\ \A j, l \in DOMAIN talk.wire : (Ends(talk.wire[j]) /\ j < l) => talk.wire[l].of = "none"

\* The client never blocks for an answer MPD does not owe it: the command is on its way, has been
\* answered, or keeps MPD idling, in which case "noidle" is on its way, too.
NeverWaitsInVain ==
    LET way == Range(talk.sent \o talk.out)
    IN  (talk.link /\ Awaited(talk) # "none") =>
            \/ Awaited(talk) \in way
            \/ \E line \in Range(talk.wire) : Ends(line)
            \/ Awaited(talk) = "idle" /\ talk.idling /\ (talk.pc = "leave" => "noidle" \in way)

\* MPD never reads another command than "noidle" in idle mode, for which it would hang up.
NothingSentWhileIdling ==
    (talk.idling /\ talk.sent # <<>>) => Head(talk.sent) = "noidle"

\* No event is lost between MPD and OnIdle(), however a response is split between the loop and a
\* command.
NoNewsLost ==
    talk.conn =>
        talk.owed \subseteq talk.pending \cup talk.got
                            \cup {line.event : line \in {l \in Range(talk.wire) : ~Ends(l)}}

\* In idle mode without listening: the response held only events the library has no name for.
Deaf(t) == t.idle /\ t.io = {}

\* Back in the loop, a client with a connection is in idle mode or about to enter it, but not both
\* (the assertions of OnEnterIdleTimer() and Enter()); it is deaf only with an old library.
BackToIdle ==
    /\ (talk.conn /\ talk.pc = "loop") => (talk.idle # talk.timer)
    /\ talk.timer => talk.io = {}
    /\ Deaf(talk) => talk.known # Subsystems

\* Types; nothing is left of a connection that is lost.
TalkTypeOK ==
    /\ talk.pc \in Phases /\ talk.io \in SUBSET {"read", "write"}
    /\ talk.got \cup talk.owed \subseteq talk.known /\ talk.pending \subseteq Subsystems
    /\ (~talk.conn => talk = NoTalk(talk.known))

\* Client and MPD agree on whose turn it is, and what MPD reports is not lost on the way.
TalkSound ==
    /\ TalkTypeOK /\ AnswersMatch /\ NeverWaitsInVain /\ NothingSentWhileIdling
    /\ NoNewsLost /\ BackToIdle

\* What MPD reports, and any library knows, reaches OnIdle(), unless the client has become deaf:
\* then only a command, by way of GetConnection(), makes it listen again.
NewsArrive == \A e \in Known : e \in talk.owed ~> (e \notin talk.owed \/ Deaf(talk))
=============================================================================
