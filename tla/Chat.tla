-------------------------------- MODULE Chat --------------------------------
(***************************************************************************)
(* The chat page (ChatPage.cxx): a subscription which belongs to a         *)
(* connection, remembered with the number of the connection, and messages  *)
(* which MPD keeps for a subscriber until they are read.                   *)
(***************************************************************************)
EXTENDS Integers

CONSTANTS
    MaxConnections, \* bound: connections made and lost
    MaxMessages     \* bound: messages MPD holds

ASSUME ChatAssumption == MaxConnections \in Nat /\ MaxMessages \in Nat

VARIABLE chat

\* The page starts when ncmpc does: mpdclient::connection_id is 0.
ChatInit ==
    chat = [subscribed |-> FALSE, unread |-> 0, news |-> {}, allowed |-> TRUE,    \* MPD
            conn |-> FALSE, id |-> 0, idle |-> FALSE, auth |-> FALSE, event |-> FALSE,   \* mpdclient
            last |-> 0, supported |-> FALSE,                                         \* ChatPage
            shown |-> FALSE, pending |-> FALSE, dirty |-> FALSE, dialog |-> FALSE]

\* Disconnect(): the subscription ends, with what was not read.
LostChat(s) ==
    [s EXCEPT !.conn = FALSE, !.id = @ + 1, !.idle = FALSE, !.auth = FALSE, !.event = TRUE,
              !.subscribed = FALSE, !.unread = 0, !.news = {}]

Usable(s) == s.conn /\ ~s.auth

-----------------------------------------------------------------------------
(* The page's update, when the client is not in idle mode *)

\* mpdclient_cmd_subscribe(): without the permission to read, a dialog asks for the password.
Subscribe(s) ==
    LET allowed == Usable(s) /\ s.allowed
    IN  [s EXCEPT !.supported = allowed, !.subscribed = @ \/ allowed,
                  !.auth = @ \/ (s.conn /\ ~s.allowed)]

CheckChatSupport(s) == IF s.id = s.last THEN s ELSE Subscribe([s EXCEPT !.last = s.id])

ReadMessages(s) == IF Usable(s) THEN [s EXCEPT !.unread = 0] ELSE s

\* Mutant: the page forgets what happened while it was not on the screen.
ToldShown(s) == [s EXCEPT !.pending = (@ \/ s.event) /\ s.shown, !.event = FALSE]

\* ScreenManager::Update(): every page gets the events, the one on the screen is updated.
Told(s) == [s EXCEPT !.pending = @ \/ s.event, !.event = FALSE]

\* ChatPage::Update()
UpdateChat(s) ==
    LET new == CheckChatSupport([Told(s) EXCEPT !.pending = FALSE])
    IN  IF ~s.shown THEN Told(s)
        ELSE IF new.supported /\ Told(s).pending THEN ReadMessages(new) ELSE new

-----------------------------------------------------------------------------
(* The same when it is: what asks for the connection first may update the page *)

\* mpdclient::OnIdle()
ChatEvents(s) ==
    {UpdateChat([s EXCEPT !.idle = FALSE, !.event = @ \/ "message" \in s.news, !.news = {}]),
     UpdateChat(LostChat(s))}

\* GetConnection()
ChatConnection(s) ==
    IF s.auth THEN {s} ELSE IF s.idle /\ s.news # {} THEN ChatEvents(s) ELSE {[s EXCEPT !.idle = FALSE]}

\* CheckChatSupport() has noted the number of the connection before it asks for it.
CheckChatSupportIdle(s) ==
    IF s.id = s.last THEN {s}
    ELSE {IF n.id = s.id THEN Subscribe(n) ELSE [n EXCEPT !.supported = FALSE] :
             n \in ChatConnection([s EXCEPT !.last = s.id])}

UpdateChatIdle(s) ==
    IF ~s.shown THEN {Told(s)}
    ELSE UNION {IF n.supported /\ Told(s).pending THEN {ReadMessages(k) : k \in ChatConnection(n)}
                ELSE {n} : n \in CheckChatSupportIdle([Told(s) EXCEPT !.pending = FALSE])}

-----------------------------------------------------------------------------
(* Actions *)

DrawChat ==
    /\ chat.dirty
    /\ \E s \in UpdateChatIdle(chat) : chat' = [s EXCEPT !.dirty = FALSE]

\* Another page is chosen, or this one; its dialog is closed.
ShowChat == chat' = [chat EXCEPT !.shown = ~@, !.dirty = TRUE, !.dialog = FALSE]

\* EnterMessage()
WriteMessage == chat.shown /\ chat' = [chat EXCEPT !.dialog = TRUE, !.dirty = TRUE]

\* The message is sent, or the user is told that it could not be.
SendMessage ==
    /\ chat.dialog
    /\ \E s \in CheckChatSupportIdle([chat EXCEPT !.dialog = FALSE, !.dirty = TRUE]) :
          IF ~s.supported THEN chat' = s
          ELSE \E n \in ChatConnection(s) :
                  chat' = IF Usable(n) /\ n.subscribed /\ n.unread < MaxMessages
                          THEN [n EXCEPT !.unread = @ + 1, !.news = @ \cup {"message"}] ELSE n

EnterChatIdle ==
    Usable(chat) /\ chat.allowed /\ ~chat.idle /\ chat' = [chat EXCEPT !.idle = TRUE]

ChatEvent == chat.idle /\ chat.news # {} /\ chat' \in ChatEvents(chat)

ChatLost == chat.conn /\ chat' = UpdateChat(LostChat(chat))

\* OnConnected(): with or without the permission to read
ChatConnected ==
    /\ ~chat.conn /\ chat.id < 2 * MaxConnections
    /\ \E allowed \in BOOLEAN :
          chat' = UpdateChat([chat EXCEPT !.conn = TRUE, !.id = @ + 1, !.event = TRUE,
                                          !.allowed = allowed, !.auth = ~allowed])

\* The password dialog is answered.
Authenticated ==
    /\ chat.auth
    /\ \E allowed \in BOOLEAN :
          chat' = [chat EXCEPT !.auth = FALSE, !.allowed = allowed, !.dirty = TRUE]

\* Another client writes, or some other event is due.
MessageArrives ==
    \/ /\ chat.subscribed /\ chat.unread < MaxMessages
       /\ chat' = [chat EXCEPT !.unread = @ + 1, !.news = @ \cup {"message"}]
    \/ chat.conn /\ chat' = [chat EXCEPT !.news = @ \cup {"other"}]

ChatNext ==
    \/ DrawChat \/ ShowChat \/ WriteMessage \/ SendMessage \/ EnterChatIdle \/ ChatEvent
    \/ ChatLost \/ ChatConnected \/ Authenticated \/ MessageArrives

ChatSpec == ChatInit /\ [][ChatNext]_chat

-----------------------------------------------------------------------------
(* Properties *)

\* Types; the connection that was checked last is not a later one.
ChatTypeOK ==
    /\ chat.unread \in 0..MaxMessages /\ chat.id \in 0..(2 * MaxConnections)
    /\ chat.last \in 0..chat.id

\* What the page remembers of a connection is true of it: while chat is supported on the
\* connection there is, MPD has the subscription.
SupportedIsSubscribed == chat.conn /\ chat.supported /\ chat.last = chat.id => chat.subscribed

\* Messages MPD holds are known to be there: to MPD, to the client, or to the page.
NoMessageForgotten ==
    chat.unread > 0 => "message" \in chat.news \/ chat.event \/ chat.pending

\* Violated: when the page is updated before the password is entered, chat is taken to be not
\* supported by this connection for good.
ChatWhenAllowed ==
    chat.conn /\ chat.allowed /\ ~chat.auth /\ chat.shown /\ ~chat.dirty => chat.supported

\* Through lost connections and servers that differ, no message is forgotten and none is
\* expected without a subscription.
ChatKept == ChatTypeOK /\ SupportedIsSubscribed /\ NoMessageForgotten
=============================================================================
