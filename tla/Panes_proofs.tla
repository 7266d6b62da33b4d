---------------------------- MODULE Panes_proofs ----------------------------
(***************************************************************************)
(* Proofs about the pages and bars which show what MPD, and the network,   *)
(* keep: the chat, the bars at the bottom of the screen, the player        *)
(* commands, the list of servers, the outputs page and the queue page, for *)
(* any bounds, lengths of text, songs, durations, services, outputs and    *)
(* partitions.                                                             *)
(*                                                                         *)
(* GetConnection() may run an update within any command.  So each proof    *)
(* has a lemma on what such a nested update leaves, whether it succeeds or *)
(* loses the connection, and every command cites it.                       *)
(***************************************************************************)
EXTENDS Chat, StatusBar, Playback, Connections, Outputs, QueuePage, FiniteSetTheorems,
        SequenceTheorems, WellFoundedInduction, TLAPS

-----------------------------------------------------------------------------
(* The chat *)

\* News of MPD's are events of its subsystems.
ChatRecords ==
    [subscribed : BOOLEAN, unread : 0..MaxMessages, news : SUBSET {"message", "other"},
     allowed : BOOLEAN, conn : BOOLEAN, id : 0..(2 * MaxConnections), idle : BOOLEAN, auth : BOOLEAN,
     event : BOOLEAN, last : 0..(2 * MaxConnections), supported : BOOLEAN,
     shown : BOOLEAN, pending : BOOLEAN, dirty : BOOLEAN, dialog : BOOLEAN]

\* Connections and the times between them are numbered in turn.
Odd(n) == \E k \in Nat : n = 2 * k + 1
Even(n) == \E k \in Nat : n = 2 * k

\* A subscription belongs to the connection there is, which the page has checked; it was allowed,
\* and no password is asked for any more.  Only a subscriber has messages.
Subscription(s) ==
    /\ s \in ChatRecords
    /\ s.conn => Odd(s.id)
    /\ ~s.conn => Even(s.id) /\ ~s.idle
    /\ s.last <= s.id
    /\ s.subscribed => s.conn /\ ~s.auth /\ s.allowed /\ s.supported /\ s.last = s.id
    /\ s.unread > 0 => s.subscribed

\* The page that takes itself to be subscribed on this connection is.
Remembered(s) == Subscription(s) /\ (s.conn /\ s.supported /\ s.last = s.id => s.subscribed)

\* Unread messages are announced to somebody who will read them.
Noticed(s) == s.unread > 0 => "message" \in s.news \/ s.event \/ s.pending

\* What every step of the chat keeps.
ChatInv(s) == Remembered(s) /\ Noticed(s)

\* The page has noted the number of the connection, but not subscribed yet.
Checking(s) == Subscription(s) /\ ~s.subscribed /\ s.last = s.id

\* Odd and even numbers alternate, and the last one is even.
LEMMA Parity ==
    ASSUME NEW n \in 0..(2 * MaxConnections)
    PROVE  /\ Odd(n) => n + 1 \in 0..(2 * MaxConnections) /\ Even(n + 1)
           /\ Even(n) /\ n < 2 * MaxConnections => n + 1 \in 0..(2 * MaxConnections) /\ Odd(n + 1)
<1>0. MaxConnections \in Nat
  BY ChatAssumption
<1>1. ASSUME NEW k \in Nat, n = 2 * k + 1
      PROVE  n + 1 \in 0..(2 * MaxConnections) /\ Even(n + 1)
  <2>1. n + 1 = 2 * (k + 1) /\ k + 1 \in Nat /\ n < 2 * MaxConnections
    BY <1>0, <1>1
  <2> QED
    BY <1>0, <2>1 DEF Even
<1>2. ASSUME NEW k \in Nat, n = 2 * k, n < 2 * MaxConnections
      PROVE  n + 1 \in 0..(2 * MaxConnections) /\ Odd(n + 1)
  BY <1>0, <1>2 DEF Odd
<1> QED
  BY <1>1, <1>2 DEF Odd, Even

\* A subscription belongs to the connection it was made on; it may fail.
LEMMA SubscribeStep ==
    ASSUME NEW s, Checking(s)
    PROVE  /\ ChatInv(Subscribe(s))
           /\ Subscribe(s).id = s.id /\ Subscribe(s).conn = s.conn
<1> DEFINE allowed == Usable(s) /\ s.allowed
<1>1. /\ Subscribe(s) = [s EXCEPT !.supported = allowed, !.subscribed = @ \/ allowed,
                                   !.auth = @ \/ (s.conn /\ ~s.allowed)]
      /\ allowed \in BOOLEAN /\ (allowed => s.conn /\ ~s.auth /\ s.allowed)
  BY DEF Subscribe, Usable, Checking, Subscription, ChatRecords
<1> HIDE DEF allowed
<1>2. Subscribe(s) \in ChatRecords
  BY <1>1 DEF Checking, Subscription, ChatRecords
<1> QED
  BY <1>1, <1>2 DEF Checking, Subscription, ChatRecords, ChatInv, Remembered, Noticed

\* The subscription is MPD's, and ends with the connection.
LEMMA LostChatStep ==
    ASSUME NEW s, Subscription(s), s.conn
    PROVE  /\ ChatInv(LostChat(s))
           /\ LostChat(s).id # s.id /\ ~LostChat(s).conn
<1>1. s \in ChatRecords /\ s.id + 1 \in 0..(2 * MaxConnections) /\ Even(s.id + 1)
  BY Parity DEF Subscription, ChatRecords
<1>0. 0 \in 0..MaxMessages
  BY ChatAssumption
<1>2. LostChat(s) \in ChatRecords
  BY <1>0, <1>1 DEF LostChat, ChatRecords
<1>3. LostChat(s).id = s.id + 1
  BY <1>1 DEF LostChat, ChatRecords
<1> QED
  BY <1>1, <1>2, <1>3 DEF LostChat, Subscription, ChatRecords, ChatInv, Remembered, Noticed

\* Handing the idle events on forgets none: the event is pending.
LEMMA ToldStep ==
    ASSUME NEW s, Subscription(s)
    PROVE  /\ Subscription(Told(s)) /\ ~Told(s).event
           /\ Remembered(s) => Remembered(Told(s))
           /\ Noticed(s) => Noticed(Told(s))
           /\ Checking(s) => Checking(Told(s))
           /\ Told(s).id = s.id /\ Told(s).conn = s.conn /\ Told(s).shown = s.shown
<1>1. Told(s) \in ChatRecords
  BY DEF Told, Subscription, ChatRecords
<1> QED
  BY <1>1 DEF Told, Subscription, ChatRecords, Remembered, Noticed, Checking

\* Reading takes every message, so the event is done with.
LEMMA ReadStep ==
    ASSUME NEW s, Subscription(s)
    PROVE  /\ Subscription(ReadMessages(s)) /\ Noticed(ReadMessages(s))
           /\ Remembered(s) => Remembered(ReadMessages(s))
           /\ Checking(s) => Checking(ReadMessages(s))
           /\ ReadMessages(s).id = s.id /\ ReadMessages(s).conn = s.conn
<1>0. 0 \in 0..MaxMessages
  BY ChatAssumption
<1>1. ReadMessages(s) \in ChatRecords
  BY <1>0 DEF ReadMessages, Subscription, ChatRecords
<1> QED
  BY <1>1 DEF ReadMessages, Usable, Subscription, ChatRecords, Remembered, Noticed, Checking

\* The page's update, and the one within a check of the page's
LEMMA UpdateChatStep ==
    ASSUME NEW s, Subscription(s)
    PROVE  /\ Remembered(s) => Remembered(UpdateChat(s))
           /\ ChatInv(s) => ChatInv(UpdateChat(s))
           /\ Checking(s) => Checking(UpdateChat(s))
           /\ UpdateChat(s).id = s.id /\ UpdateChat(s).conn = s.conn
<1> DEFINE t == [Told(s) EXCEPT !.pending = FALSE]
           new == CheckChatSupport(t)
<1>1. /\ Subscription(t)
      /\ Remembered(s) => Remembered(t)
      /\ Checking(s) => Checking(t)
      /\ t.id = s.id /\ t.conn = s.conn
      /\ Noticed(s) /\ ~Told(s).pending => Noticed(t)
      /\ ~t.supported => Noticed(t)
  <2>1. t \in ChatRecords
    BY ToldStep DEF Subscription, ChatRecords
  <2> QED
    BY <2>1, ToldStep DEF Subscription, ChatRecords, Remembered, Checking, Noticed
<1>2. CASE ~s.shown
  BY <1>2, ToldStep DEF UpdateChat, ChatInv
<1>3. CASE s.shown /\ t.id = t.last
  <2>1. new = t
    BY <1>3 DEF CheckChatSupport
  <2>2. UpdateChat(s) = IF t.supported /\ Told(s).pending THEN ReadMessages(t) ELSE t
    BY <1>3, <2>1 DEF UpdateChat
  <2> HIDE DEF t, new
  <2> QED
    BY <1>1, <2>2, ReadStep DEF ChatInv
<1>4. CASE s.shown /\ t.id # t.last
  <2> DEFINE u == [t EXCEPT !.last = t.id]
  <2>1. Checking(u) /\ u.id = t.id /\ u.conn = t.conn
    <3>1. t \in ChatRecords
      BY <1>1 DEF Subscription
    <3>2. u \in ChatRecords
      BY <3>1 DEF ChatRecords
    <3> QED
      BY <1>1, <1>4, <3>1, <3>2 DEF Subscription, ChatRecords, Checking
  <2>2. new = Subscribe(u)
    BY <1>4 DEF CheckChatSupport
  <2>3. ChatInv(new) /\ new.id = s.id /\ new.conn = s.conn
    BY <1>1, <2>1, <2>2, SubscribeStep
  <2>4. UpdateChat(s) \in {new, ReadMessages(new)}
    BY <1>4 DEF UpdateChat
  <2>5. ~Checking(s)
    BY <1>1, <1>4 DEF Checking
  <2> HIDE DEF t, u, new
  <2> QED
    BY <2>3, <2>4, <2>5, ReadStep DEF ChatInv, Remembered
<1> QED
  BY <1>2, <1>3, <1>4

\* GetConnection() and OnIdle(): the subscription is kept, or lost with the connection.
Kept(s, n) == n.id = s.id /\ n.conn = s.conn
LostWith(s, n) == n.id # s.id /\ ~n.conn /\ ChatInv(n)

\* OnIdle(): the events are noted, or the connection is lost.
LEMMA ChatEventsStep ==
    ASSUME NEW s, Subscription(s), s.conn, NEW n \in ChatEvents(s)
    PROVE  /\ Kept(s, n) \/ LostWith(s, n)
           /\ Remembered(s) => Remembered(n)
           /\ ChatInv(s) => ChatInv(n)
           /\ Checking(s) /\ Kept(s, n) => Checking(n)
<1> DEFINE t == [s EXCEPT !.idle = FALSE, !.event = @ \/ "message" \in s.news, !.news = {}]
<1>1. /\ Subscription(t) /\ t.id = s.id /\ t.conn = s.conn
      /\ Remembered(s) => Remembered(t)
      /\ ChatInv(s) => ChatInv(t)
      /\ Checking(s) => Checking(t)
  <2>1. ("message" \in s.news) \in BOOLEAN
    OBVIOUS
  <2>2. t \in ChatRecords
    BY <2>1 DEF Subscription, ChatRecords
  <2> QED
    BY <2>2 DEF Subscription, ChatRecords, Remembered, Checking, ChatInv, Noticed
<1>2. CASE n = UpdateChat(t)
  <2> HIDE DEF t
  <2> QED
    BY <1>1, <1>2, UpdateChatStep DEF Kept
<1>3. CASE n = UpdateChat(LostChat(s))
  <2>1. ChatInv(LostChat(s)) /\ LostChat(s).id # s.id /\ ~LostChat(s).conn
    BY LostChatStep
  <2>2. Subscription(LostChat(s))
    BY <2>1 DEF ChatInv, Remembered
  <2>3. ChatInv(n) /\ n.id # s.id /\ ~n.conn
    BY <1>3, <2>1, <2>2, UpdateChatStep
  <2> QED
    BY <2>3 DEF Kept, LostWith, ChatInv
<1> QED
  BY <1>2, <1>3 DEF ChatEvents

\* GetConnection() may lose the connection, and remembers the messages.
LEMMA ChatConnectionStep ==
    ASSUME NEW s, Subscription(s), NEW n \in ChatConnection(s)
    PROVE  /\ Kept(s, n) \/ LostWith(s, n)
           /\ Remembered(s) => Remembered(n)
           /\ ChatInv(s) => ChatInv(n)
           /\ Checking(s) /\ Kept(s, n) => Checking(n)
<1>1. CASE n = s
  BY <1>1 DEF Kept
<1>2. CASE n = [s EXCEPT !.idle = FALSE]
  <2>1. n \in ChatRecords
    BY <1>2 DEF Subscription, ChatRecords
  <2> QED
    BY <1>2, <2>1 DEF Subscription, ChatRecords, Remembered, Checking, ChatInv, Noticed, Kept
<1>3. CASE s.idle /\ n \in ChatEvents(s)
  <2>1. s.conn
    BY <1>3 DEF Subscription
  <2> QED
    BY <1>3, <2>1, ChatEventsStep
<1> QED
  BY <1>1, <1>2, <1>3 DEF ChatConnection

\* Whatever the connection tells while it is asked for, the check ends with a subscription that is
\* remembered, or with none.
LEMMA CheckChatSupportStep ==
    ASSUME NEW s, Remembered(s), NEW n \in CheckChatSupportIdle(s)
    PROVE  /\ Remembered(n)
           /\ s.id # s.last => Noticed(n)
           /\ s.id = s.last => n = s
<1>1. CASE s.id = s.last
  BY <1>1 DEF CheckChatSupportIdle
<1>2. CASE s.id # s.last
  <2> DEFINE t == [s EXCEPT !.last = s.id]
  <2>1. Checking(t)
    <3>1. s \in ChatRecords
      BY DEF Remembered, Subscription
    <3>2. t \in ChatRecords
      BY <3>1 DEF ChatRecords
    <3> QED
      BY <1>2, <3>1, <3>2 DEF Remembered, Subscription, ChatRecords, Checking
  <2>2. t.id = s.id
    BY DEF Remembered, Subscription, ChatRecords
  <2>3. PICK m \in ChatConnection(t) :
          n = IF m.id = t.id THEN Subscribe(m) ELSE [m EXCEPT !.supported = FALSE]
    BY <1>2 DEF CheckChatSupportIdle
  <2> HIDE DEF t
  <2>4. Kept(t, m) \/ LostWith(t, m)
    BY <2>1, <2>3, ChatConnectionStep DEF Checking
  <2>5. CASE m.id = t.id
    <3>1. Checking(m)
      BY <2>1, <2>3, <2>4, <2>5, ChatConnectionStep DEF Checking, LostWith
    <3> QED
      BY <1>2, <2>3, <2>5, <3>1, SubscribeStep DEF ChatInv
  <2>6. CASE m.id # t.id
    <3>1. ChatInv(m) /\ ~m.conn
      BY <2>4, <2>6 DEF Kept, LostWith
    <3>2. n = [m EXCEPT !.supported = FALSE]
      BY <2>3, <2>6
    <3>3. n \in ChatRecords
      BY <3>1, <3>2 DEF ChatInv, Remembered, Subscription, ChatRecords
    <3> QED
      BY <1>2, <3>1, <3>2, <3>3 DEF ChatInv, Remembered, Noticed, Subscription, ChatRecords
  <2> QED
    BY <2>5, <2>6
<1> QED
  BY <1>1, <1>2

\* The page's update within OnIdle().
LEMMA UpdateChatIdleStep ==
    ASSUME NEW s, ChatInv(s), NEW n \in UpdateChatIdle(s)
    PROVE  ChatInv(n)
<1>0. Remembered(s) /\ Noticed(s) /\ Subscription(s)
  BY DEF ChatInv, Remembered
<1>1. CASE ~s.shown
  BY <1>0, <1>1, ToldStep DEF UpdateChatIdle, ChatInv
<1>2. CASE s.shown
  <2> DEFINE t == [Told(s) EXCEPT !.pending = FALSE]
  <2>1. /\ Remembered(t)
        /\ ~Told(s).pending => Noticed(t)
        /\ ~t.supported => Noticed(t)
    <3>1. t \in ChatRecords
      BY <1>0, ToldStep DEF Subscription, ChatRecords
    <3> QED
      BY <1>0, <3>1, ToldStep DEF Subscription, ChatRecords, Remembered, Noticed
  <2>2. PICK m \in CheckChatSupportIdle(t) :
          IF m.supported /\ Told(s).pending THEN \E k \in ChatConnection(m) : n = ReadMessages(k)
          ELSE n = m
    BY <1>2 DEF UpdateChatIdle
  <2> HIDE DEF t
  <2>3. Remembered(m) /\ (t.id # t.last => Noticed(m)) /\ (t.id = t.last => m = t)
    BY <2>1, <2>2, CheckChatSupportStep
  <2>4. CASE m.supported /\ Told(s).pending
    <3>1. PICK k \in ChatConnection(m) : n = ReadMessages(k)
      BY <2>2, <2>4
    <3>2. Remembered(k)
      BY <2>3, <3>1, ChatConnectionStep DEF Remembered
    <3> QED
      BY <3>1, <3>2, ReadStep DEF Remembered, ChatInv
  <2>5. CASE ~(m.supported /\ Told(s).pending)
    <3>1. n = m
      BY <2>2, <2>5
    <3> QED
      BY <2>1, <2>3, <2>5, <3>1 DEF ChatInv
  <2> QED
    BY <2>4, <2>5
<1> QED
  BY <1>1, <1>2

\* The inductive invariant, of the chat as it is.
ChatSafe == ChatInv(chat)

\* Every step of the chat keeps it.
LEMMA ChatStep == ChatSafe /\ [ChatNext]_chat => ChatSafe'
<1> SUFFICES ASSUME ChatInv(chat), [ChatNext]_chat
             PROVE  ChatInv(chat')
  BY DEF ChatSafe
<1>0. /\ Remembered(chat) /\ Noticed(chat) /\ Subscription(chat) /\ chat \in ChatRecords
  BY DEF ChatInv, Remembered, Subscription
<1>1. CASE DrawChat
  <2>1. PICK n \in UpdateChatIdle(chat) : chat' = [n EXCEPT !.dirty = FALSE]
    BY <1>1 DEF DrawChat
  <2>2. ChatInv(n)
    BY <2>1, UpdateChatIdleStep
  <2>3. chat' \in ChatRecords
    BY <2>1, <2>2 DEF ChatInv, Remembered, Subscription, ChatRecords
  <2> QED
    BY <2>1, <2>2, <2>3 DEF ChatInv, Remembered, Noticed, Subscription, ChatRecords
<1>2. CASE ShowChat
  <2> DEFINE b == ~chat.shown
  <2>1. b \in BOOLEAN
    <3>1. chat.shown = TRUE \/ chat.shown = FALSE
      BY <1>0 DEF ChatRecords
    <3>2. (~TRUE) = FALSE /\ (~FALSE) = TRUE
      OBVIOUS
    <3> QED
      BY <3>1, <3>2
  <2>2. chat' \in ChatRecords
    <3>1. chat' = [chat EXCEPT !.shown = b, !.dirty = TRUE, !.dialog = FALSE]
      BY <1>2 DEF ShowChat
    <3> HIDE DEF b
    <3> QED
      BY <1>0, <2>1, <3>1 DEF ChatRecords
  <2> QED
    BY <1>0, <1>2, <2>2 DEF ShowChat, ChatInv, Remembered, Noticed, Subscription, ChatRecords
<1>10. CASE WriteMessage
  <2>1. chat' \in ChatRecords
    BY <1>0, <1>10 DEF WriteMessage, ChatRecords
  <2> QED
    BY <1>0, <1>10, <2>1 DEF WriteMessage, ChatInv, Remembered, Noticed, Subscription, ChatRecords
<1>11. CASE Authenticated
  <2>1. chat' \in ChatRecords
    BY <1>0, <1>11 DEF Authenticated, ChatRecords
  <2> QED
    BY <1>0, <1>11, <2>1 DEF Authenticated, ChatInv, Remembered, Noticed, Subscription, ChatRecords
<1>3. CASE SendMessage
  <2> DEFINE t == [chat EXCEPT !.dialog = FALSE, !.dirty = TRUE]
  <2>1. ChatInv(t)
    <3>1. t \in ChatRecords
      BY <1>0 DEF ChatRecords
    <3> QED
      BY <1>0, <3>1 DEF ChatInv, Remembered, Noticed, Subscription, ChatRecords
  <2>2. PICK m \in CheckChatSupportIdle(t) :
          IF ~m.supported THEN chat' = m
          ELSE \E n \in ChatConnection(m) :
                  chat' = IF Usable(n) /\ n.subscribed /\ n.unread < MaxMessages
                          THEN [n EXCEPT !.unread = @ + 1, !.news = @ \cup {"message"}] ELSE n
    BY <1>3 DEF SendMessage
  <2> HIDE DEF t
  <2>3. ChatInv(m)
    BY <2>1, <2>2, CheckChatSupportStep DEF ChatInv
  <2>4. CASE ~m.supported
    BY <2>2, <2>3, <2>4
  <2>5. CASE m.supported
    <3>1. PICK n \in ChatConnection(m) :
                  chat' = IF Usable(n) /\ n.subscribed /\ n.unread < MaxMessages
                          THEN [n EXCEPT !.unread = @ + 1, !.news = @ \cup {"message"}] ELSE n
      BY <2>2, <2>5
    <3>2. ChatInv(n) /\ n \in ChatRecords
      BY <2>3, <3>1, ChatConnectionStep DEF ChatInv, Remembered, Subscription
    <3>3. CASE n.subscribed /\ n.unread < MaxMessages
               /\ chat' = [n EXCEPT !.unread = @ + 1, !.news = @ \cup {"message"}]
      <4>0. n.unread + 1 \in 0..MaxMessages
        BY <3>2, <3>3, ChatAssumption DEF ChatRecords
      <4>1. chat' \in ChatRecords
        BY <3>2, <3>3, <4>0 DEF ChatRecords
      <4> QED
        BY <3>2, <3>3, <4>1 DEF ChatInv, Remembered, Noticed, Subscription, ChatRecords
    <3> QED
      BY <3>1, <3>2, <3>3
  <2> QED
    BY <2>4, <2>5
<1>4. CASE EnterChatIdle
  <2>1. chat' \in ChatRecords
    BY <1>0, <1>4 DEF EnterChatIdle, ChatRecords
  <2> QED
    BY <1>0, <1>4, <2>1 DEF EnterChatIdle, Usable, ChatInv, Remembered, Noticed, Subscription, ChatRecords
<1>5. CASE ChatEvent
  <2>1. chat.conn /\ chat' \in ChatEvents(chat)
    BY <1>0, <1>5 DEF ChatEvent, Subscription
  <2> QED
    BY <1>0, <2>1, ChatEventsStep
<1>6. CASE ChatLost
  <2>1. chat.conn /\ chat' = UpdateChat(LostChat(chat))
    BY <1>6 DEF ChatLost
  <2>2. ChatInv(LostChat(chat))
    BY <1>0, <2>1, LostChatStep
  <2> QED
    BY <2>1, <2>2, UpdateChatStep DEF ChatInv, Remembered
<1>7. CASE ChatConnected
  <2>1. PICK allowed \in BOOLEAN :
          chat' = UpdateChat([chat EXCEPT !.conn = TRUE, !.id = @ + 1, !.event = TRUE,
                                          !.allowed = allowed, !.auth = ~allowed])
    BY <1>7 DEF ChatConnected
  <2> DEFINE t == [chat EXCEPT !.conn = TRUE, !.id = @ + 1, !.event = TRUE,
                               !.allowed = allowed, !.auth = ~allowed]
  <2>2. chat.id + 1 \in 0..(2 * MaxConnections) /\ Odd(chat.id + 1) /\ ~chat.conn
    BY <1>0, <1>7, Parity DEF ChatConnected, Subscription, ChatRecords
  <2>3. t \in ChatRecords
    BY <1>0, <2>2 DEF ChatRecords
  <2>4. ChatInv(t)
    BY <1>0, <2>2, <2>3 DEF ChatInv, Remembered, Noticed, Subscription, ChatRecords
  <2> HIDE DEF t
  <2> QED
    BY <2>1, <2>4, UpdateChatStep DEF t, ChatInv, Remembered
<1>8. CASE MessageArrives
  <2>1. CASE /\ chat.subscribed /\ chat.unread < MaxMessages
             /\ chat' = [chat EXCEPT !.unread = @ + 1, !.news = @ \cup {"message"}]
    <3>1. chat.unread + 1 \in 0..MaxMessages
      BY <1>0, <2>1, ChatAssumption DEF ChatRecords
    <3>2. chat' \in ChatRecords
      BY <1>0, <2>1, <3>1 DEF ChatRecords
    <3> QED
      BY <1>0, <2>1, <3>2 DEF ChatInv, Remembered, Noticed, Subscription, ChatRecords
  <2>2. CASE chat' = [chat EXCEPT !.news = @ \cup {"other"}]
    <3>1. chat' \in ChatRecords
      BY <1>0, <2>2 DEF ChatRecords
    <3> QED
      BY <1>0, <2>2, <3>1 DEF ChatInv, Remembered, Noticed, Subscription, ChatRecords
  <2> QED
    BY <1>8, <2>1, <2>2 DEF MessageArrives
<1>9. CASE chat' = chat
  BY <1>9
<1> QED
  BY <1>1, <1>2, <1>3, <1>4, <1>5, <1>6, <1>7, <1>8, <1>9, <1>10, <1>11 DEF ChatNext

\* Through lost connections and servers that differ, the page never expects messages without a
\* subscription, and MPD never holds one of which nobody is told.
THEOREM ChatIsKept == ChatSpec => []ChatKept
<1>1. ChatInit => ChatSafe
  <2> SUFFICES ASSUME ChatInit
               PROVE  ChatInv(chat)
    BY DEF ChatSafe
  <2>1. Even(0)
    BY DEF Even
  <2>2. 0 \in 0..MaxMessages /\ 0 \in 0..(2 * MaxConnections)
    BY ChatAssumption
  <2>3. chat \in ChatRecords
    BY <2>2 DEF ChatInit, ChatRecords
  <2> QED
    BY <2>1, <2>3 DEF ChatInit, ChatInv, Remembered, Noticed, Subscription
<1>2. ChatSafe => ChatKept
  BY DEF ChatSafe, ChatInv, Remembered, Noticed, Subscription, ChatRecords, ChatKept, ChatTypeOK,
         SupportedIsSubscribed, NoMessageForgotten
<1> QED
  BY <1>1, <1>2, ChatStep, PTL DEF ChatSpec

-----------------------------------------------------------------------------
(* The status bar and the progress bar *)

\* Division rounds down.
LEMMA Quotient ==
    ASSUME NEW a \in Nat, NEW n \in Nat \ {0}
    PROVE  a \div n \in Nat /\ n * (a \div n) <= a /\ a < n * (a \div n) + n
  OBVIOUS

\* The largest multiple up to a bound
LEMMA QuotientBelow ==
    ASSUME NEW n \in Nat \ {0}, NEW q \in Nat, NEW p \in Nat, n * q < n * p
    PROVE  q < p
<1> SUFFICES ASSUME q >= p
             PROVE  n * q >= n * p
  OBVIOUS
<1>1. PICK d \in Nat : q = p + d
  <2>1. q - p \in Nat /\ q = p + (q - p)
    OBVIOUS
  <2> QED
    BY <2>1
<1>2. n * q = n * p + n * d
  BY <1>1
<1>3. n * d \in Nat /\ n * p \in Nat
  OBVIOUS
<1> QED
  BY <1>2, <1>3

\* The mark of a position up to the duration is within the bar.
LEMMA MarkWithin ==
    ASSUME NEW w \in Nat \ {0}, NEW m \in Nat \ {0}, NEW c \in 0..m
    PROVE  (w * c) \div (m + 1) \in Nat /\ (w * c) \div (m + 1) < w
<1> DEFINE k == (w * c) \div (m + 1)
<1>1. w * c \in Nat /\ m + 1 \in Nat \ {0}
  OBVIOUS
<1>2. k \in Nat /\ (m + 1) * k <= w * c
  BY <1>1, Quotient
<1> HIDE DEF k
<1>3. w * c <= w * m
  <2>1. PICK d \in Nat : m = c + d
    <3>1. m - c \in Nat /\ m = c + (m - c)
      OBVIOUS
    <3> QED
      BY <3>1
  <2>2. w * m = w * c + w * d /\ w * d \in Nat
    BY <2>1
  <2> QED
    BY <1>1, <2>2
<1>4. (m + 1) * w = w * m + w /\ w * m \in Nat
  OBVIOUS
<1>5. (m + 1) * k < (m + 1) * w
  <2>1. (m + 1) * k \in Nat
    BY <1>2
  <2> QED
    BY <1>1, <1>2, <1>3, <1>4, <2>1
<1>6. k < w
  BY <1>1, <1>2, <1>5, QuotientBelow
<1> QED
  BY <1>2, <1>6 DEF k

\* From a cell to a position and back.
LEMMA MarkOfClick ==
    ASSUME NEW w \in Nat \ {0}, NEW m \in Nat \ {0}, NEW x \in 0..(w - 1)
    PROVE  LET v == (x * m) \div w
               k == (w * v) \div (m + 1)
           IN  v \in 0..m /\ k \in Nat /\ k <= x /\ (x - k) * m < 2 * w + m
<1> DEFINE v == (x * m) \div w
           k == (w * v) \div (m + 1)
<1>1. x \in Nat /\ x * m \in Nat /\ x < w
  OBVIOUS
<1>2. v \in Nat /\ w * v <= x * m /\ x * m < w * v + w
  BY <1>1, Quotient
<1>3. w * v \in Nat /\ m + 1 \in Nat \ {0}
  BY <1>2
<1>4. k \in Nat /\ (m + 1) * k <= w * v /\ w * v < (m + 1) * k + (m + 1)
  BY <1>3, Quotient
<1>5. v < m
  <2>1. x * m < w * m
    <3>1. PICK d \in Nat \ {0} : w = x + d
      <4>1. w - x \in Nat \ {0} /\ w = x + (w - x)
        BY <1>1
      <4> QED
        BY <4>1
    <3>2. w * m = x * m + d * m /\ d * m \in Nat \ {0}
      BY <1>1, <3>1
    <3> QED
      BY <1>1, <3>2
  <2>2. w * v < w * m
    <3>1. w * m \in Nat
      OBVIOUS
    <3> QED
      BY <1>1, <1>2, <1>3, <2>1, <3>1
  <2> HIDE DEF v
  <2> QED
    BY <1>2, <2>2, QuotientBelow
<1> HIDE DEF v, k
<1>6. k < x + 1
  <2>1. (m + 1) * (x + 1) = x * m + x + m + 1
    BY <1>1
  <2>2. (m + 1) * k < (m + 1) * (x + 1)
    <3>1. (m + 1) * k \in Nat
      BY <1>4
    <3> QED
      BY <1>1, <1>2, <1>3, <1>4, <2>1, <3>1
  <2> QED
    BY <1>1, <1>3, <1>4, <2>2, QuotientBelow
<1>7. (x - k) * m < 2 * w + m
  <2>1. (x - k) * m = x * m - m * k /\ m * k \in Nat
    BY <1>1, <1>4
  <2>2. (m + 1) * k = m * k + k
    BY <1>4
  <2> QED
    BY <1>1, <1>2, <1>3, <1>4, <1>6, <2>1, <2>2
<1> QED
  BY <1>1, <1>2, <1>4, <1>5, <1>6, <1>7 DEF v, k

\* The types of the bars' state.
BarRecords ==
    [window : Widths, left : Nat, right : Nat, center : Nat,
     message : BOOLEAN, messageTimer : BOOLEAN, modal : Dialogs \cup {NoDialog},
     replaced : BOOLEAN,
     width : Nat, scrolled : Nat, offset : Nat, suspended : BOOLEAN, timer : BOOLEAN,
     max : Nat, current : Nat, position : Nat]

\* The marquee: what scrolls is wider than the window it scrolls in, and it is where it can go on.
Marquee(b) ==
    /\ b \in BarRecords
    /\ b.width > 0 => b.width < b.scrolled /\ b.offset < MaxOffset(b)
    /\ b.timer <=> b.width > 0 /\ ~b.suspended

\* The text that scrolls is the song's, and fills the room.
Fits(b) == b.width > 0 /\ Room(b) > 0 => b.width = Room(b) /\ b.scrolled = b.center

\* The progress bar
Marked(b) == b.max > 0 => b.current <= b.max /\ b.position = (b.window * b.current) \div (b.max + 1)

\* A message hides the text until its timer runs out, a dialog until it ends or is replaced.
Covered(b) ==
    /\ b.messageTimer = b.message
    /\ b.modal = NoDialog => ~b.suspended
    /\ b.modal # NoDialog /\ ~b.replaced => b.suspended

\* What every step of the bars keeps.
BarInv(b) == Marquee(b) /\ Fits(b) /\ Marked(b) /\ Covered(b)

\* The constants are numbers.
LEMMA BarNumbers ==
    /\ Widths \subseteq Nat \ {0} /\ Lengths \subseteq Nat /\ Times \subseteq Nat
    /\ LeftWidth \in Nat /\ SeparatorLength \in Nat /\ Durations \subseteq Nat /\ NoDialog \notin Dialogs
  BY BarAssumption DEF NoDialog

\* hscroll::Clear() stops the timer.
LEMMA ClearScrollStep ==
    ASSUME NEW b, Marquee(b)
    PROVE  /\ Marquee(ClearScroll(b)) /\ Fits(ClearScroll(b))
           /\ Marked(b) => Marked(ClearScroll(b))
           /\ Covered(b) => Covered(ClearScroll(b))
<1>1. ClearScroll(b) \in BarRecords
  BY DEF ClearScroll, Marquee, BarRecords
<1> QED
  BY <1>1 DEF ClearScroll, Marquee, BarRecords, Fits, Marked, Covered

\* A layout fits, whatever was painted before.
LEMMA ScrollLayoutStep ==
    ASSUME NEW b, Marquee(b)
    PROVE  /\ Marquee(ScrollLayout(b)) /\ Fits(ScrollLayout(b))
           /\ Marked(b) => Marked(ScrollLayout(b))
           /\ Covered(b) => Covered(ScrollLayout(b))
<1> DEFINE w == Room(b)
<1>0. b \in BarRecords /\ b.window \in Nat /\ w \in Int /\ SeparatorLength \in Nat
  <2>1. b \in BarRecords
    BY DEF Marquee
  <2>2. b.window \in Widths /\ b.left \in Nat /\ b.right \in Nat
    BY <2>1 DEF BarRecords
  <2>3. b.window \in Nat /\ SeparatorLength \in Nat
    BY <2>2, BarNumbers
  <2> QED
    BY <2>1, <2>2, <2>3 DEF Room
<1>1. CASE w <= 0
  <2>1. ScrollLayout(b) = b
    BY <1>1 DEF ScrollLayout
  <2> QED
    BY <1>0, <1>1, <2>1 DEF Fits
<1>2. CASE w > 0 /\ b.window > 3 /\ b.center > w
  <2>1. ScrollLayout(b) = SetScroll(b, w)
    BY <1>0, <1>2 DEF ScrollLayout
  <2> DEFINE c == SetScroll(b, w)
  <2>2. CASE w = b.width /\ b.center = b.scrolled
    <3>1. c = b
      BY <2>2 DEF SetScroll
    <3> QED
      BY <2>1, <2>2, <3>1 DEF Fits
  <2>3. CASE ~(w = b.width /\ b.center = b.scrolled)
    <3> DEFINE t == b.timer \/ ~b.suspended
    <3>1. c = [b EXCEPT !.width = w, !.scrolled = b.center, !.offset = 0, !.timer = t]
      BY <2>3 DEF SetScroll
    <3>2. w \in Nat /\ t \in BOOLEAN
      <4>1. (b.timer = TRUE \/ b.timer = FALSE) /\ (b.suspended = TRUE \/ b.suspended = FALSE)
        BY <1>0 DEF BarRecords
      <4> QED
        BY <1>0, <1>2, <4>1
    <3> HIDE DEF w, t
    <3>3. c \in BarRecords
      <4>1. b \in BarRecords
        BY <1>0
      <4> HIDE DEF c
      <4> QED
        BY <3>1, <3>2, <4>1 DEF BarRecords
    <3>4. /\ c.width = w /\ c.scrolled = b.center /\ c.offset = 0 /\ c.center = b.center
          /\ c.suspended = b.suspended /\ c.timer = t
          /\ c.window = b.window /\ c.left = b.left /\ c.right = b.right
          /\ c.max = b.max /\ c.current = b.current /\ c.position = b.position
          /\ c.message = b.message /\ c.messageTimer = b.messageTimer /\ c.modal = b.modal
          /\ c.replaced = b.replaced
      BY <1>0, <3>1 DEF BarRecords
    <3> HIDE DEF c
    <3>5. b.timer => ~b.suspended
      BY DEF Marquee
    <3>6. b.center \in Nat
      BY <1>0 DEF BarRecords
    <3>7. Marquee(c)
      <4>1. c.timer <=> c.width > 0 /\ ~c.suspended
        BY <1>2, <3>4, <3>5 DEF t
      <4>2. c.width < c.scrolled /\ c.offset < MaxOffset(c)
        BY <1>0, <1>2, <3>2, <3>4, <3>6 DEF MaxOffset
      <4> QED
        BY <3>3, <4>1, <4>2 DEF Marquee
    <3>8. Fits(c)
      BY <3>4 DEF Fits, Room, w
    <3> QED
      BY <2>1, <3>4, <3>7, <3>8 DEF Marked, Covered, c
  <2> QED
    BY <2>2, <2>3
<1>3. CASE w > 0 /\ ~(b.window > 3 /\ b.center > w)
  <2>1. ScrollLayout(b) = ClearScroll(b)
    BY <1>0, <1>3 DEF ScrollLayout
  <2> QED
    BY <2>1, ClearScrollStep
<1> QED
  BY <1>0, <1>1, <1>2, <1>3

\* A message stops the marquee.
LEMMA SetMessageStep ==
    ASSUME NEW b, BarInv(b)
    PROVE  BarInv(SetMessage(b))
<1> DEFINE c == ClearScroll(b)
<1>1. BarInv(c)
  BY ClearScrollStep DEF BarInv
<1>2. SetMessage(b) = [c EXCEPT !.message = TRUE, !.messageTimer = TRUE]
  BY DEF SetMessage
<1> HIDE DEF c
<1>3. SetMessage(b) \in BarRecords
  BY <1>1, <1>2 DEF BarInv, Marquee, BarRecords
<1> QED
  BY <1>1, <1>2, <1>3 DEF BarInv, Marquee, BarRecords, Fits, Marked, Covered, Room, MaxOffset

\* The screen is never narrower than a cell.
LEMMA WindowWidth ==
    ASSUME NEW b \in BarRecords
    PROVE  b.window \in Nat \ {0} /\ b.max \in Nat
<1>1. b.window \in Widths /\ b.max \in Nat
  BY DEF BarRecords
<1> QED
  BY <1>1, BarNumbers

\* When a dialog is closed, the text goes on.
LEMMA ResumeStep ==
    ASSUME NEW b, BarInv(b), NEW c \in HideModalDialog(b)
    PROVE  BarInv(c)
<1>1. PICK d \in {b, SetMessage(b)} : c = Resume([d EXCEPT !.modal = NoDialog, !.replaced = FALSE])
  BY DEF HideModalDialog
<1>2. BarInv(d) /\ d \in BarRecords
  BY <1>1, SetMessageStep DEF BarInv, Marquee
<1> DEFINE e == [d EXCEPT !.modal = NoDialog, !.replaced = FALSE]
<1>3. e \in BarRecords
  BY <1>2 DEF BarRecords
<1>4. c = [e EXCEPT !.suspended = FALSE, !.timer = @ \/ e.width > 0]
  BY <1>1 DEF Resume
<1>5. /\ e.modal = NoDialog /\ e.timer = d.timer /\ e.width = d.width
      /\ \A f \in {"window", "left", "right", "center", "scrolled", "offset",
                   "max", "current", "position", "message", "messageTimer"} : e[f] = d[f]
  BY <1>2 DEF BarRecords
<1> HIDE DEF e
<1>6. (e.timer \/ e.width > 0) \in BOOLEAN
  <2>1. e.timer = TRUE \/ e.timer = FALSE
    BY <1>3 DEF BarRecords
  <2> QED
    BY <2>1
<1>7. c \in BarRecords
  BY <1>3, <1>4, <1>6 DEF BarRecords
<1>8. /\ c.suspended = FALSE /\ c.timer = (e.timer \/ e.width > 0) /\ c.width = e.width
      /\ \A f \in {"window", "left", "right", "center", "scrolled", "offset", "modal",
                   "max", "current", "position", "message", "messageTimer"} : c[f] = e[f]
  BY <1>3, <1>4 DEF BarRecords
<1>9. d.timer => d.width > 0
  BY <1>2 DEF BarInv, Marquee
<1>10. c.timer <=> c.width > 0 /\ ~c.suspended
  BY <1>5, <1>8, <1>9
<1> QED
  BY <1>2, <1>5, <1>7, <1>8, <1>10 DEF BarInv, Marquee, Fits, Marked, Covered, Room, MaxOffset

\* ProgressBar::Calculate() repaints when the mark moves.
LEMMA PositionStep ==
    ASSUME NEW b \in BarRecords, b.max > 0 => b.current <= b.max
    PROVE  /\ Position(b) \in BarRecords /\ Marked(Position(b))
           /\ \A f \in {"window", "left", "right", "center", "message", "messageTimer", "modal",
                        "replaced", "width", "scrolled", "offset", "suspended", "timer", "max",
                        "current"} :
                    Position(b)[f] = b[f]
<1>1. b.window \in Nat \ {0} /\ b.max \in Nat /\ b.current \in Nat
  BY WindowWidth DEF BarRecords
<1>2. CASE b.max = 0
  <2>1. Position(b) = b
    BY <1>2 DEF Position
  <2> QED
    BY <1>2, <2>1 DEF Marked
<1>3. CASE b.max # 0
  <2> DEFINE k == (b.window * b.current) \div (b.max + 1)
  <2>1. k \in Nat
    <3>1. b.max \in Nat \ {0} /\ b.current \in 0..b.max
      BY <1>1, <1>3
    <3> QED
      BY <1>1, <3>1, MarkWithin
  <2>2. Position(b) = [b EXCEPT !.position = k]
    BY <1>3 DEF Position
  <2> HIDE DEF k
  <2>3. Position(b) \in BarRecords
    BY <2>1, <2>2 DEF BarRecords
  <2>4. \A f \in {"window", "left", "right", "center", "message", "messageTimer", "modal",
                  "replaced", "width", "scrolled", "offset", "suspended", "timer", "max",
                  "current"} :
              Position(b)[f] = b[f]
    BY <2>2 DEF BarRecords
  <2>5. Position(b).position = k
    BY <2>2 DEF BarRecords
  <2> QED
    BY <2>3, <2>4, <2>5 DEF Marked, k
<1> QED
  BY <1>2, <1>3

\* ... so it keeps all the rest.
LEMMA PositionKeeps ==
    ASSUME NEW b, Marquee(b), Covered(b), b.max > 0 => b.current <= b.max
    PROVE  Marquee(Position(b)) /\ Covered(Position(b)) /\ Marked(Position(b))
  BY PositionStep DEF Marquee, Covered, MaxOffset

\* ProgressBar::Set() keeps the position within the song.
LEMMA SetProgressStep ==
    ASSUME NEW b, Marquee(b), Covered(b), NEW c \in Nat, NEW m \in Nat
    PROVE  LET p == SetProgress(b, c, m)
           IN  Marquee(p) /\ Covered(p) /\ Marked(p) /\ p \in BarRecords
<1> DEFINE cut == IF c > m THEN m ELSE c
           d == [b EXCEPT !.current = cut, !.max = m]
<1>1. cut \in Nat /\ cut <= m
  OBVIOUS
<1> HIDE DEF cut
<1>2. d \in BarRecords
  BY <1>1 DEF Marquee, BarRecords
<1>3. d.current = cut /\ d.max = m
  BY DEF Marquee, BarRecords
<1>4. Marquee(d) /\ Covered(d)
  BY <1>2 DEF Marquee, Covered, BarRecords, MaxOffset
<1>5. SetProgress(b, c, m) = Position(d)
  BY DEF SetProgress, cut
<1> HIDE DEF d
<1> QED
  BY <1>1, <1>3, <1>4, <1>5, PositionKeeps DEF Marquee

\* The inductive invariant, of the bar as it is.
BarSafe == BarInv(bar)

\* Every step of the bars keeps it.
LEMMA BarStep == BarSafe /\ [BarNext]_bar => BarSafe'
<1> SUFFICES ASSUME BarInv(bar), [BarNext]_bar
             PROVE  BarInv(bar')
  BY DEF BarSafe
<1>0. /\ bar \in BarRecords
      /\ Marquee(bar) /\ Fits(bar) /\ Marked(bar) /\ Covered(bar)
  BY DEF BarInv, Marquee
<1>1. CASE ScrollTimer
  <2> DEFINE o == IF bar.offset + 1 >= MaxOffset(bar) THEN 0 ELSE bar.offset + 1
  <2>1. bar.timer /\ bar' = [bar EXCEPT !.offset = o, !.timer = TRUE]
    BY <1>0, <1>1 DEF ScrollTimer, Step, BarRecords
  <2>2. o \in Nat /\ (bar.width > 0 => o < MaxOffset(bar))
    <3>1. bar.offset \in Nat /\ bar.scrolled \in Nat /\ bar.width \in Nat
      BY <1>0 DEF BarRecords
    <3>2. bar.width > 0 => bar.width < bar.scrolled
      BY <1>0 DEF Marquee
    <3> QED
      BY <3>1, <3>2, BarNumbers DEF MaxOffset
  <2> HIDE DEF o
  <2>3. bar' \in BarRecords
    BY <1>0, <2>1, <2>2 DEF BarRecords
  <2> QED
    BY <1>0, <2>1, <2>2, <2>3 DEF BarRecords, BarInv, Marquee, Fits, Marked, Covered, MaxOffset, Room
<1>2. CASE OnMessageTimer
  <2>1. bar' = [bar EXCEPT !.message = FALSE, !.messageTimer = FALSE]
    BY <1>2 DEF OnMessageTimer, ClearMessage
  <2>2. bar' \in BarRecords
    BY <1>0, <2>1 DEF BarRecords
  <2> QED
    BY <1>0, <2>1, <2>2 DEF BarRecords, BarInv, Marquee, Fits, Marked, Covered, MaxOffset, Room
<1>3. CASE Alert
  BY <1>3, SetMessageStep DEF Alert
<1>4. CASE UpdateBar
  <2>1. PICK playing \in BOOLEAN, max \in Durations, elapsed \in 0..2, center \in Lengths, right \in Times :
          LET current == IF playing THEN (max * elapsed + 1) \div 2 ELSE 0
              b == SetProgress(bar, current, IF playing THEN max ELSE 0)
          IN  bar' = IF playing
                     THEN ScrollLayout([b EXCEPT !.left = LeftWidth, !.right = right, !.center = center])
                     ELSE ClearScroll([b EXCEPT !.left = 0, !.right = 0, !.center = 0])
    BY <1>4 DEF UpdateBar
  <2> DEFINE current == IF playing THEN (max * elapsed + 1) \div 2 ELSE 0
             m == IF playing THEN max ELSE 0
             b == SetProgress(bar, current, m)
             c == [b EXCEPT !.left = LeftWidth, !.right = right, !.center = center]
             d == [b EXCEPT !.left = 0, !.right = 0, !.center = 0]
  <2>2. m \in Nat /\ center \in Nat /\ right \in Nat /\ LeftWidth \in Nat
    BY BarNumbers
  <2>3. current \in Nat
    <3>1. max \in Nat
      BY BarNumbers
    <3>2. max * elapsed + 1 \in Nat
      BY <3>1
    <3> QED
      BY <3>2, Quotient
  <2>4. bar' = IF playing THEN ScrollLayout(c) ELSE ClearScroll(d)
    BY <2>1
  <2> HIDE DEF current, m
  <2>5. Marquee(b) /\ Covered(b) /\ Marked(b) /\ b \in BarRecords
    BY <1>0, <2>2, <2>3, SetProgressStep
  <2> HIDE DEF b
  <2>6. c \in BarRecords /\ d \in BarRecords
    BY <2>2, <2>5 DEF BarRecords
  <2>7. Marquee(c) /\ Covered(c) /\ Marked(c)
    BY <2>5, <2>6 DEF Marquee, Covered, Marked, MaxOffset, BarRecords
  <2>8. Marquee(d) /\ Covered(d) /\ Marked(d)
    BY <2>5, <2>6 DEF Marquee, Covered, Marked, MaxOffset, BarRecords
  <2> HIDE DEF c, d
  <2> QED
    BY <2>4, <2>7, <2>8, ScrollLayoutStep, ClearScrollStep DEF BarInv
<1>5. CASE OnResize
  <2>1. PICK w \in Widths : bar' = ScrollLayout(Position([bar EXCEPT !.window = w]))
    BY <1>5 DEF OnResize
  <2> DEFINE b == [bar EXCEPT !.window = w]
  <2>2. b \in BarRecords /\ b.max = bar.max /\ b.current = bar.current
    BY <1>0 DEF BarRecords
  <2>3. Marquee(b) /\ Covered(b)
    BY <1>0, <2>2 DEF Marquee, Covered, MaxOffset, BarRecords
  <2>4. b.max > 0 => b.current <= b.max
    BY <1>0, <2>2 DEF Marked
  <2> HIDE DEF b
  <2>5. Marquee(Position(b)) /\ Covered(Position(b)) /\ Marked(Position(b))
    BY <2>3, <2>4, PositionKeeps
  <2> QED
    BY <2>1, <2>5, ScrollLayoutStep DEF BarInv, b
<1>6. CASE ShowModalDialog
  <2>1. PICK n \in Dialogs \ {bar.modal} :
          LET b == Suspend(ClearMessage(bar))
          IN  bar' \in {[c EXCEPT !.modal = n, !.replaced = b.modal # NoDialog] :
                           c \in IF b.modal = NoDialog THEN {b} ELSE HideModalDialog(b)}
    BY <1>6 DEF ShowModalDialog
  <2> DEFINE e == ClearMessage(bar)
             b == Suspend(e)
  <2>2. PICK c \in IF b.modal = NoDialog THEN {b} ELSE HideModalDialog(b) :
          bar' = [c EXCEPT !.modal = n, !.replaced = b.modal # NoDialog]
    BY <2>1
  <2>3. e \in BarRecords
    BY <1>0 DEF ClearMessage, BarRecords
  <2>4. b \in BarRecords /\ b = [e EXCEPT !.suspended = TRUE, !.timer = FALSE]
    BY <2>3 DEF Suspend, BarRecords
  <2>5. Marquee(b) /\ Fits(b) /\ Marked(b)
    BY <1>0, <2>3, <2>4 DEF ClearMessage, BarRecords, Marquee, Fits, Marked, MaxOffset, Room
  <2>6. b.messageTimer = b.message /\ b.modal = bar.modal
    BY <1>0, <2>3, <2>4 DEF ClearMessage, BarRecords
  <2> HIDE DEF b, e
  <2>7. /\ Marquee(c) /\ Fits(c) /\ Marked(c) /\ c.messageTimer = c.message
        /\ b.modal = NoDialog => c.suspended
    <3>1. CASE b.modal = NoDialog
      BY <2>2, <2>4, <2>5, <2>6, <3>1 DEF BarRecords
    <3>2. CASE b.modal # NoDialog
      <4>1. BarInv(b)
        BY <2>4, <2>5, <2>6, <3>2 DEF BarInv, Covered, BarRecords
      <4>2. BarInv(c)
        BY <2>2, <3>2, <4>1, ResumeStep
      <4> QED
        BY <3>2, <4>2 DEF BarInv, Covered
    <3> QED
      BY <3>1, <3>2
  <2>8. bar' \in BarRecords /\ bar'.modal = n /\ bar'.replaced = (b.modal # NoDialog)
    BY <2>2, <2>7 DEF Marquee, BarRecords
  <2>9. n # NoDialog
    BY BarNumbers
  <2> QED
    BY <2>2, <2>7, <2>8, <2>9 DEF BarRecords, BarInv, Marquee, Fits, Marked, Covered, MaxOffset, Room
<1>7. CASE LeaveDialog
  BY <1>7, ResumeStep DEF LeaveDialog
<1>8. CASE bar' = bar
  BY <1>8
<1> QED
  BY <1>1, <1>2, <1>3, <1>4, <1>5, <1>6, <1>7, <1>8 DEF BarNext

\* What is shown of a text that scrolls is within the buffer that holds it twice.
LEMMA ScrollWithin ==
    ASSUME NEW b, Marquee(b), b.width > 0, NEW i \in 1..b.width
    PROVE  b.offset + i \in ScrollString(b)
<1>1. b.offset \in Nat /\ b.scrolled \in Nat /\ b.width \in Nat /\ SeparatorLength \in Nat
  BY BarNumbers DEF Marquee, BarRecords
<1>2. b.width < b.scrolled /\ b.offset < b.scrolled + SeparatorLength
  BY DEF Marquee, MaxOffset
<1>3. b.offset + i \in 1..(2 * (b.scrolled + SeparatorLength))
  BY <1>1, <1>2
<1> QED
  BY <1>1, <1>3 DEF ScrollString, MaxOffset

\* A click on a cell of the progress bar is at or before that cell, less than two cells' worth.
LEMMA ClickPoints ==
    ASSUME NEW b \in BarRecords, b.max > 0, NEW x \in 0..(b.window - 1)
    PROVE  LET mark == SetProgress(b, ValueAtX(b, x), b.max).position
           IN  mark <= x /\ (x - mark) * b.max < 2 * b.window + b.max
<1>1. b.window \in Nat \ {0} /\ b.max \in Nat \ {0}
  BY WindowWidth
<1> DEFINE v == (x * b.max) \div b.window
           k == (b.window * v) \div (b.max + 1)
           d == [b EXCEPT !.current = v, !.max = b.max]
<1>2. v \in 0..b.max /\ k \in Nat /\ k <= x /\ (x - k) * b.max < 2 * b.window + b.max
  BY <1>1, MarkOfClick
<1>3. ValueAtX(b, x) = v
  BY <1>1 DEF ValueAtX
<1> HIDE DEF v, k
<1>7. v \in Nat /\ ~(v > b.max)
  BY <1>1, <1>2
<1>4. SetProgress(b, v, b.max) = Position(d)
  BY <1>7 DEF SetProgress
<1>5. d.window = b.window /\ d.current = v /\ d.max = b.max /\ d \in BarRecords
  BY <1>7 DEF BarRecords
<1> HIDE DEF d
<1>6. Position(d).position = k
  BY <1>1, <1>5 DEF Position, BarRecords, k
<1> QED
  BY <1>2, <1>3, <1>4, <1>6

\* For every size of the window and of the texts, and in every order of messages, dialogs, songs
\* and resizes: the marquee scrolls in the room there is, never suspended nor over a dialog that
\* came when there was none (a dialog that replaces another is not covered), and the progress bar
\* is consistent (StatusBar, hscroll, ProgressBar).
THEOREM BarIsSound == BarSpec => []BarSound
<1>1. BarInit => BarSafe
  <2> SUFFICES ASSUME BarInit
               PROVE  BarInv(bar)
    BY DEF BarSafe
  <2>1. bar \in BarRecords
    BY DEF BarInit, BarRecords
  <2> QED
    BY <2>1 DEF BarInit, BarInv, Marquee, Fits, Marked, Covered
<1>2. BarSafe => BarSound
  <2> SUFFICES ASSUME BarInv(bar)
               PROVE  BarSound
    BY DEF BarSafe
  <2>0. bar \in BarRecords /\ Marquee(bar) /\ Fits(bar) /\ Marked(bar) /\ Covered(bar)
    BY DEF BarInv, Marquee
  <2>1. BarTypeOK
    <3>1. /\ bar.window \in Widths /\ bar.modal \in Dialogs \cup {NoDialog}
          /\ bar.max \in Nat /\ bar.current \in Nat
      BY <2>0 DEF BarRecords
    <3>2. ASSUME bar.max > 0
          PROVE  bar.position < bar.window
      <4>1. bar.window \in Nat \ {0} /\ bar.max \in Nat \ {0}
        BY <2>0, <3>2, WindowWidth
      <4>2. bar.current \in 0..bar.max /\ bar.position = (bar.window * bar.current) \div (bar.max + 1)
        BY <2>0, <3>1, <3>2 DEF Marked
      <4> QED
        BY <4>1, <4>2, MarkWithin
    <3> QED
      BY <2>0, <3>1, <3>2 DEF BarTypeOK, Covered, Marquee
  <2>2. KeepsScrolling /\ QuietUnderDialog
    BY <2>0 DEF KeepsScrolling, QuietUnderDialog, Marquee, Covered
  <2>3. ScrollFits
    BY <2>0, ScrollWithin DEF ScrollFits, Fits
  <2>4. ClickIsWhereItPoints
    BY <2>0, ClickPoints DEF ClickIsWhereItPoints
  <2> QED
    BY <2>1, <2>2, <2>3, <2>4 DEF BarSound
<1> QED
  BY <1>1, <1>2, BarStep, PTL DEF BarSpec

-----------------------------------------------------------------------------
(* The player commands and the delayed seek *)

\* The types of mpd_status as the client keeps it.
Known == [song : SongIds \cup {None}, elapsed : Nat, repeat : BOOLEAN, volume : Int, known : BOOLEAN]

\* The types of the player's state.
PlayerRecords ==
    [now : Played, repeat : BOOLEAN, volume : 0..MaxVolume, news : BOOLEAN,
     conn : BOOLEAN, idle : BOOLEAN, status : Known, shown : {None} \cup 0..MaxVolume,
     id : SongIds \cup {None}, time : Nat, timer : BOOLEAN, base : SongIds \cup {None}]

\* What the client knows is what MPD does, unless MPD has news for it.
Informed(p) == p.conn /\ ~p.news => p.status.song = p.now.song /\ p.status.repeat = p.repeat

\* A pending seek is of the song it was reckoned from, within it, and will be sent.
Seeking(p) ==
    p.id # None => p.base = p.id /\ p.time \in 0..Duration[p.id]

\* What every step of the player keeps.
PlayerInv(p) ==
    /\ p \in PlayerRecords
    /\ p.idle => p.conn
    /\ Informed(p) /\ Seeking(p)

\* What MPD plays is a song or none.
LEMMA PlayedSong == ASSUME NEW n \in Played PROVE n.song \in SongIds \cup {None} /\ n.elapsed \in Nat
<1>1. CASE n = Stopped
  BY <1>1 DEF Stopped
<1>2. ASSUME NEW x \in SongIds, n \in [song : {x}, elapsed : 0..Duration[x]]
      PROVE  n.song \in SongIds \cup {None} /\ n.elapsed \in Nat
  BY <1>2
<1> QED
  BY <1>1, <1>2 DEF Played

\* mpdclient::Update() replaces the status and the volume by MPD's.
LEMMA UpdateStatusStep ==
    ASSUME NEW p \in PlayerRecords
    PROVE  LET n == UpdateStatus(p)
           IN  /\ n \in PlayerRecords /\ n.status.song = p.now.song /\ n.status.repeat = p.repeat
               /\ \A f \in {"now", "repeat", "volume", "news", "conn", "idle",
                            "id", "time", "timer", "base"} : n[f] = p[f]
<1> DEFINE st == [song |-> p.now.song, elapsed |-> p.now.elapsed, repeat |-> p.repeat,
                  volume |-> p.volume, known |-> TRUE]
<1>1. p.now \in Played /\ p.volume \in 0..MaxVolume /\ p.repeat \in BOOLEAN
  BY DEF PlayerRecords
<1>2. st \in Known
  BY <1>1, PlayedSong DEF Known
<1>3. UpdateStatus(p) = [p EXCEPT !.status = st, !.shown = p.volume]
  BY DEF UpdateStatus
<1>4. st.song = p.now.song /\ st.repeat = p.repeat
  OBVIOUS
<1> HIDE DEF st
<1>5. UpdateStatus(p) \in PlayerRecords
  BY <1>1, <1>2, <1>3 DEF PlayerRecords
<1> QED
  BY <1>3, <1>4, <1>5 DEF PlayerRecords

\* An update of the status, and the loss of the connection, keep the pending seek.
LEMMA UpdateStatusKeeps ==
    ASSUME NEW p, PlayerInv(p)
    PROVE  PlayerInv(UpdateStatus(p)) /\ UpdateStatus(p).id = p.id /\ UpdateStatus(p).timer = p.timer
  BY UpdateStatusStep DEF PlayerInv, Informed, Seeking

\* Losing the connection forgets what was played, but not the pending seek.
LEMMA DisconnectedStep ==
    ASSUME NEW p \in PlayerRecords, Seeking(p)
    PROVE  LET n == Disconnected(p)
           IN  PlayerInv(n) /\ ~n.conn /\ n.now = Stopped /\ n.id = p.id /\ n.timer = p.timer
<1>1. NoStatus \in Known
  BY DEF NoStatus, Known, None
<1>2. Stopped \in Played /\ 0 \in 0..MaxVolume
  BY PlaybackAssumption DEF Played
<1>3. Disconnected(p) \in PlayerRecords
  BY <1>1, <1>2 DEF Disconnected, PlayerRecords
<1> QED
  BY <1>3 DEF Disconnected, PlayerRecords, PlayerInv, Informed, Seeking

\* What GetConnection() yields: the client is informed if it was in idle mode.
LEMMA PlayerConnectionStep ==
    ASSUME NEW p, PlayerInv(p), NEW n \in PlayerConnection(p)
    PROVE  /\ PlayerInv(n) /\ n.id = p.id /\ n.timer = p.timer
           /\ ~n.conn => n.now = Stopped \/ n.now = p.now
           /\ n.conn => n.now = p.now /\ n.repeat = p.repeat
           /\ p.idle /\ n.conn => n.status.song = n.now.song /\ n.status.repeat = n.repeat
<1>0. p \in PlayerRecords /\ Informed(p) /\ Seeking(p) /\ (p.idle => p.conn)
  BY DEF PlayerInv
<1>1. CASE n = [p EXCEPT !.idle = FALSE] /\ ~(p.idle /\ p.news)
  <2>1. n \in PlayerRecords
    BY <1>0, <1>1 DEF PlayerRecords
  <2> QED
    BY <1>0, <1>1, <2>1 DEF PlayerRecords, PlayerInv, Informed, Seeking
<1>2. CASE n = UpdateStatus([p EXCEPT !.idle = FALSE, !.news = FALSE])
  <2> DEFINE q == [p EXCEPT !.idle = FALSE, !.news = FALSE]
  <2>1. /\ q \in PlayerRecords /\ q.idle = FALSE /\ q.news = FALSE
        /\ \A f \in {"now", "repeat", "volume", "conn", "id", "time", "timer", "base"} : q[f] = p[f]
    BY <1>0 DEF PlayerRecords
  <2> HIDE DEF q
  <2>2. /\ n \in PlayerRecords /\ n.status.song = q.now.song /\ n.status.repeat = q.repeat
        /\ \A f \in {"now", "repeat", "volume", "news", "conn", "idle",
                     "id", "time", "timer", "base"} : n[f] = q[f]
    BY <1>2, <2>1, UpdateStatusStep DEF q
  <2> QED
    BY <1>0, <2>1, <2>2 DEF PlayerInv, Informed, Seeking
<1>3. CASE n = Disconnected(p)
  BY <1>0, <1>3, DisconnectedStep
<1> QED
  BY <1>1, <1>2, <1>3 DEF PlayerConnection, OnIdleUpdate

\* DelayedSeek::OnTimer() forgets the seek it has sent.
LEMMA DroppedStep ==
    ASSUME NEW p, PlayerInv(p)
    PROVE  LET n == Dropped(p)
           IN  /\ PlayerInv(n) /\ n.id = None /\ n.now = p.now /\ n.repeat = p.repeat
               /\ n.idle = p.idle /\ n.news = p.news /\ n.conn = p.conn /\ n.status = p.status
               /\ n.shown = p.shown
<1>1. Dropped(p) \in PlayerRecords
  BY DEF Dropped, PlayerInv, PlayerRecords
<1> QED
  BY <1>1 DEF Dropped, PlayerInv, PlayerRecords, Informed, Seeking

\* DelayedSeek::Cancel() forgets it and its timer.
LEMMA CancelSeekStep ==
    ASSUME NEW p, PlayerInv(p)
    PROVE  LET n == CancelSeek(p)
           IN  /\ PlayerInv(n) /\ n.id = None /\ n.now = p.now /\ n.repeat = p.repeat
               /\ n.idle = p.idle /\ n.news = p.news /\ n.conn = p.conn /\ n.status = p.status
               /\ n.shown = p.shown
<1> DEFINE d == Dropped(p)
<1>1. /\ PlayerInv(d) /\ d.id = None /\ d.now = p.now /\ d.repeat = p.repeat
      /\ d.idle = p.idle /\ d.news = p.news /\ d.conn = p.conn /\ d.status = p.status
      /\ d.shown = p.shown
  BY DroppedStep
<1>2. CancelSeek(p) = [d EXCEPT !.timer = FALSE]
  BY DEF CancelSeek
<1> HIDE DEF d
<1>3. CancelSeek(p) \in PlayerRecords
  BY <1>1, <1>2 DEF PlayerInv, PlayerRecords
<1> QED
  BY <1>1, <1>2, <1>3 DEF PlayerInv, PlayerRecords, Informed, Seeking

\* A position of a song of the queue is one MPD can play.
LEMMA SeekIdStep ==
    ASSUME NEW p, PlayerInv(p), NEW id \in SongIds, NEW time \in 0..Duration[id]
    PROVE  LET n == SeekId(p, id, time)
           IN  PlayerInv(n) /\ n.now.song = id /\ n.id = p.id /\ n.timer = p.timer
<1> DEFINE now == [song |-> id, elapsed |-> time]
<1>1. now \in Played
  BY DEF Played
<1>2. SeekId(p, id, time) = [p EXCEPT !.now = now, !.news = TRUE] /\ now.song = id
  BY DEF SeekId
<1> HIDE DEF now
<1>3. SeekId(p, id, time) \in PlayerRecords
  BY <1>1, <1>2 DEF PlayerInv, PlayerRecords
<1> QED
  BY <1>1, <1>2, <1>3 DEF PlayerInv, PlayerRecords, Informed, Seeking

\* A number is cut off at two bounds.
LEMMA Clamp ==
    ASSUME NEW a \in Int, NEW d \in Nat
    PROVE  Max({0, Min({a, d})}) \in 0..d
<1>1. /\ Min({a, d}) \in {a, d}
      /\ \A y \in {a, d} : Min({a, d}) <= y
  <2>1. \E x \in {a, d} : \A y \in {a, d} : x <= y
    <3>1. CASE a <= d
      BY <3>1
    <3>2. CASE d <= a
      BY <3>2
    <3> QED
      BY <3>1, <3>2
  <2> QED
    BY <2>1 DEF Min
<1> DEFINE m == Min({a, d})
<1>2. m \in Int /\ m <= d
  BY <1>1
<1> HIDE DEF m
<1>3. Max({0, m}) \in {0, m}
      /\ \A y \in {0, m} : y <= Max({0, m})
  <2>1. \E x \in {0, m} : \A y \in {0, m} : x >= y
    <3>1. CASE 0 <= m
      BY <1>2, <3>1
    <3>2. CASE m <= 0
      BY <1>2, <3>2
    <3> QED
      BY <1>2, <3>1, <3>2
  <2>2. /\ Max({0, m}) \in {0, m}
        /\ \A y \in {0, m} : Max({0, m}) >= y
    BY <2>1 DEF Max
  <2> QED
    BY <1>2, <2>2
<1>4. Max({0, m}) \in 0..d
  BY <1>2, <1>3
<1> QED
  BY <1>4 DEF m

\* What the timer sends.
LEMMA CommitStep ==
    ASSUME PlayerInv(player), Commit, player.id # None => player.timer
    PROVE  /\ PlayerInv(player') /\ player'.id = None
           /\ player.idle => player'.now.song \in {player.now.song, None}
<1> DEFINE q == [player EXCEPT !.timer = FALSE]
<1>0. player \in PlayerRecords
  BY DEF PlayerInv
<1>1. /\ PlayerInv(q) /\ q.id = player.id /\ q.now = player.now /\ q.idle = player.idle
  <2>1. q \in PlayerRecords
    BY <1>0 DEF PlayerRecords
  <2> QED
    BY <1>0, <2>1 DEF PlayerInv, PlayerRecords, Informed, Seeking
<1>2. CASE player.id = None
  BY <1>1, <1>2 DEF Commit
<1>3. CASE player.id # None
  <2>1. PICK p \in PlayerConnection(q) :
          player' = IF p.conn /\ p.id = p.status.song
                    THEN Dropped(SeekId(p, p.id, p.time)) ELSE Dropped(p)
    BY <1>3 DEF Commit
  <2> HIDE DEF q
  <2>2. /\ PlayerInv(p) /\ p.id = q.id
        /\ ~p.conn => p.now = Stopped \/ p.now = q.now
        /\ p.conn => p.now = q.now
        /\ q.idle /\ p.conn => p.status.song = p.now.song
    BY <1>1, <2>1, PlayerConnectionStep
  <2>3. CASE p.conn /\ p.id = p.status.song
    <3>1. p.id \in SongIds /\ p.time \in 0..Duration[p.id]
      BY <1>1, <1>3, <2>2 DEF PlayerInv, PlayerRecords, Seeking
    <3> DEFINE n == SeekId(p, p.id, p.time)
    <3>2. PlayerInv(n) /\ n.now.song = p.id
      BY <2>2, <3>1, SeekIdStep
    <3>3. player' = Dropped(n)
      BY <2>1, <2>3
    <3> HIDE DEF n
    <3>4. PlayerInv(player') /\ player'.id = None /\ player'.now = n.now
      BY <3>2, <3>3, DroppedStep
    <3> QED
      BY <1>1, <2>2, <2>3, <3>2, <3>4
  <2>4. CASE ~(p.conn /\ p.id = p.status.song)
    <3>1. player' = Dropped(p)
      BY <2>1, <2>4
    <3>2. PlayerInv(player') /\ player'.id = None /\ player'.now = p.now
      BY <2>2, <3>1, DroppedStep
    <3>3. Stopped.song = None
      BY DEF Stopped
    <3> QED
      BY <1>1, <2>2, <3>2, <3>3
  <2> QED
    BY <2>3, <2>4
<1> QED
  BY <1>2, <1>3

\* DelayedSeek::Seek() stays within the song, and starts the timer.
LEMMA SeekByStep ==
    ASSUME NEW p, PlayerInv(p), p.id # None => p.timer, NEW offset \in {-1, 1}
    PROVE  PlayerInv(SeekBy(p, offset)) /\ (SeekBy(p, offset).id # None => SeekBy(p, offset).timer)
<1>1. CASE p.status.song = None
  BY <1>1 DEF SeekBy
<1>2. CASE p.status.song # None
  <2> DEFINE s == p.status.song
             from == IF p.id = s THEN p.time ELSE p.status.elapsed
             time == Max({0, Min({from + offset, Duration[s]})})
  <2>1. s \in SongIds /\ from \in Nat
    BY <1>2 DEF PlayerInv, PlayerRecords, Known
  <2>2. time \in 0..Duration[s] /\ Duration[s] \in Nat
    <3> HIDE DEF from, s
    <3>1. Duration[s] \in Nat
      BY <2>1, PlaybackAssumption
    <3>2. from + offset \in Int
      BY <2>1
    <3> QED
      BY <3>1, <3>2, Clamp
  <2>3. SeekBy(p, offset) = [[p EXCEPT !.id = s, !.timer = TRUE, !.base = s] EXCEPT !.time = time]
    BY <1>2 DEF SeekBy
  <2> HIDE DEF time, from
  <2>4. time \in Nat
    BY <2>2
  <2>5. SeekBy(p, offset) \in PlayerRecords
    BY <2>1, <2>3, <2>4 DEF PlayerInv, PlayerRecords
  <2> QED
    BY <2>1, <2>2, <2>3, <2>5 DEF PlayerInv, PlayerRecords, Informed, Seeking
<1> QED
  BY <1>1, <1>2

\* What a command's nested update leaves: no seek.
LEMMA CommandStep ==
    ASSUME PlayerInv(player), NEW p \in PlayerConnection(CancelSeek(player))
    PROVE  /\ PlayerInv(p) /\ p.id = None
           /\ player.idle /\ p.conn => p.status.repeat = player.repeat /\ p.repeat = player.repeat
<1> DEFINE q == CancelSeek(player)
<1>1. PlayerInv(q) /\ q.id = None /\ q.idle = player.idle /\ q.repeat = player.repeat
  BY CancelSeekStep
<1> HIDE DEF q
<1>2. p \in PlayerConnection(q)
  BY DEF q
<1> QED
  BY <1>1, <1>2, PlayerConnectionStep

\* A pending seek has its timer, and what holds of every player holds of this one.
PlayerSafe == PlayerInv(player) /\ (player.id # None => player.timer)

\* Nothing is played, shown or pending at first.
LEMMA PlayerInit == PlaybackInit => PlayerSafe
<1> SUFFICES ASSUME PlaybackInit PROVE PlayerSafe
  OBVIOUS
<1>1. NoStatus \in Known
  BY DEF NoStatus, Known, None
<1>2. Stopped \in Played /\ 0 \in 0..MaxVolume
  BY PlaybackAssumption DEF Played
<1>3. player \in PlayerRecords
  BY <1>1, <1>2 DEF PlaybackInit, PlayerRecords, None
<1> QED
  BY <1>3 DEF PlaybackInit, PlayerSafe, PlayerInv, Informed, Seeking

\* What MPD does may change at any time, and it has news then.
LEMMA ChangeKeeps ==
    ASSUME NEW p, PlayerInv(p), NEW n \in PlayerRecords, n.news,
           \A f \in {"conn", "idle", "status", "id", "time", "timer", "base"} : n[f] = p[f]
    PROVE  PlayerInv(n) /\ n.id = p.id /\ n.timer = p.timer
  BY DEF PlayerInv, PlayerRecords, Informed, Seeking

\* The volume shown is not part of what the seek relies on.
LEMMA ShownKeeps ==
    ASSUME NEW p, PlayerInv(p), NEW shown \in 0..MaxVolume
    PROVE  LET n == [p EXCEPT !.shown = shown]
           IN  PlayerInv(n) /\ n.id = p.id /\ n.timer = p.timer
<1> DEFINE n == [p EXCEPT !.shown = shown]
<1>1. n \in PlayerRecords
  BY DEF PlayerInv, PlayerRecords
<1> QED
  BY <1>1 DEF PlayerInv, PlayerRecords, Informed, Seeking

\* The option is set to the contrary of what the client was told last.
LEMMA ToggleStep ==
    ASSUME PlayerSafe, Toggle
    PROVE  PlayerSafe' /\ (player.idle /\ player'.conn => player'.repeat # player.repeat)
<1>1. PICK p \in PlayerConnection(CancelSeek(player)) :
        player' = IF p.conn THEN [p EXCEPT !.repeat = ~p.status.repeat, !.news = TRUE] ELSE p
  BY DEF Toggle, PlayerCommand
<1>2. /\ PlayerInv(p) /\ p.id = None
      /\ player.idle /\ p.conn => p.status.repeat = player.repeat /\ p.repeat = player.repeat
  BY <1>1, CommandStep DEF PlayerSafe
<1>3. CASE p.conn
  <2> DEFINE r == ~p.status.repeat
  <2>1. r \in BOOLEAN /\ p.now \in Played /\ p.volume \in 0..MaxVolume
    BY <1>2 DEF PlayerInv, PlayerRecords
  <2>2. /\ player' = [p EXCEPT !.repeat = r, !.news = TRUE]
    BY <1>1, <1>3
  <2>3. p.status.repeat \in BOOLEAN /\ r = ~p.status.repeat
    BY <1>2 DEF PlayerInv, PlayerRecords, Known
  <2> HIDE DEF r
  <2>4. player' \in PlayerRecords
    BY <1>2, <2>1, <2>2 DEF PlayerInv, PlayerRecords
  <2>5. PlayerInv(player') /\ player'.id = None
    BY <1>2, <2>2, <2>4, ChangeKeeps DEF PlayerInv, PlayerRecords
  <2>6. player'.repeat = r
    BY <1>2, <2>2 DEF PlayerInv, PlayerRecords
  <2> QED
    BY <1>2, <1>3, <2>3, <2>5, <2>6 DEF PlayerSafe
<1>4. CASE ~p.conn
  BY <1>1, <1>2, <1>4 DEF PlayerSafe
<1> QED
  BY <1>3, <1>4

\* The volume sent is within its bounds.
LEMMA RunVolumeStep == ASSUME PlayerSafe, RunVolume PROVE PlayerSafe'
<1> DEFINE q == CancelSeek(player)
<1>1. PlayerInv(q) /\ q.id = None /\ q.shown = player.shown
  BY CancelSeekStep DEF PlayerSafe
<1>2. PICK by \in {-1, 1} :
        IF player.shown + by \in 0..MaxVolume
        THEN \E p \in PlayerConnection([q EXCEPT !.shown = @ + by]) :
                player' = IF p.conn THEN [p EXCEPT !.volume = player.shown + by, !.news = TRUE] ELSE p
        ELSE player' = q
  BY DEF RunVolume
<1> HIDE DEF q
<1>3. CASE player.shown + by \in 0..MaxVolume
  <2> DEFINE v == player.shown + by
             n == [q EXCEPT !.shown = v]
  <2>1. [q EXCEPT !.shown = @ + by] = n
    BY <1>1
  <2>2. PICK p \in PlayerConnection(n) : player' = IF p.conn THEN [p EXCEPT !.volume = v, !.news = TRUE] ELSE p
    BY <1>2, <1>3, <2>1
  <2>3. v \in 0..MaxVolume
    BY <1>3
  <2> HIDE DEF v
  <2>4. PlayerInv(n) /\ n.id = None
    BY <1>1, <2>3, ShownKeeps
  <2> HIDE DEF n
  <2>5. PlayerInv(p) /\ p.id = None
    BY <2>2, <2>4, PlayerConnectionStep
  <2>6. CASE p.conn
    <3>1. player' = [p EXCEPT !.volume = v, !.news = TRUE]
      BY <2>2, <2>6
    <3>2. player' \in PlayerRecords
      BY <2>3, <2>5, <3>1 DEF PlayerInv, PlayerRecords
    <3> QED
      BY <2>5, <3>1, <3>2, ChangeKeeps DEF PlayerSafe, PlayerInv, PlayerRecords
  <2>7. CASE ~p.conn
    BY <2>2, <2>5, <2>7 DEF PlayerSafe
  <2> QED
    BY <2>6, <2>7
<1>4. CASE ~(player.shown + by \in 0..MaxVolume)
  BY <1>1, <1>2, <1>4 DEF PlayerSafe
<1> QED
  BY <1>3, <1>4

\* A command that changes the song played ends the seek.
LEMMA PlayCommandStep == ASSUME PlayerSafe, PlayCommand PROVE PlayerSafe'
<1>1. PICK now \in {Stopped} \cup [song : SongIds, elapsed : {0}], p \in PlayerConnection(CancelSeek(player)) :
        player' = IF p.conn THEN [p EXCEPT !.now = now, !.news = TRUE] ELSE p
  BY DEF PlayCommand, PlayerCommand
<1>2. PlayerInv(p) /\ p.id = None
  BY <1>1, CommandStep DEF PlayerSafe
<1>3. now \in Played
  <2>1. ASSUME now \in [song : SongIds, elapsed : {0}]
        PROVE  now.song \in SongIds /\ now \in [song : {now.song}, elapsed : 0..Duration[now.song]]
    <3>1. now.song \in SongIds /\ Duration[now.song] \in Nat
      BY <2>1, PlaybackAssumption
    <3>2. 0 \in 0..Duration[now.song]
      BY <3>1
    <3> QED
      BY <2>1, <3>1, <3>2
  <2> QED
    BY <1>1, <2>1 DEF Played
<1>4. CASE p.conn
  <2>1. player' = [p EXCEPT !.now = now, !.news = TRUE]
    BY <1>1, <1>4
  <2>2. player' \in PlayerRecords
    BY <1>2, <1>3, <2>1 DEF PlayerInv, PlayerRecords
  <2> QED
    BY <1>2, <2>1, <2>2, ChangeKeeps DEF PlayerSafe, PlayerInv, PlayerRecords
<1>5. CASE ~p.conn
  BY <1>1, <1>2, <1>5 DEF PlayerSafe
<1> QED
  BY <1>4, <1>5

\* The song shown is one of those MPD may play.
LEMMA SeekByMouseStep == ASSUME PlayerSafe, SeekByMouse PROVE PlayerSafe'
<1>1. PICK time \in 0..Duration[player.status.song], p \in PlayerConnection(CancelSeek(player)) :
        player' = IF p.conn THEN SeekId(p, player.status.song, time) ELSE p
  BY DEF SeekByMouse, PlayerCommand
<1>2. PlayerInv(p) /\ p.id = None
  BY <1>1, CommandStep DEF PlayerSafe
<1>3. player.status.song \in SongIds
  BY DEF SeekByMouse, PlayerSafe, PlayerInv, PlayerRecords, Known
<1>4. PlayerInv(SeekId(p, player.status.song, time)) /\ SeekId(p, player.status.song, time).id = None
  BY <1>1, <1>2, <1>3, SeekIdStep
<1> QED
  BY <1>1, <1>2, <1>4 DEF PlayerSafe

\* mpdclient::OnIdle() keeps the pending seek, even when it loses the connection.
LEMMA OnIdleStep ==
    ASSUME PlayerSafe, player.idle, NEW n \in OnIdleUpdate(player)
    PROVE  PlayerInv(n) /\ n.id = player.id /\ n.timer = player.timer
<1>1. CASE player.news
  BY <1>1, PlayerConnectionStep DEF PlayerConnection, PlayerSafe
<1>2. CASE ~player.news
  <2>1. CASE n = Disconnected(player)
    BY <2>1, DisconnectedStep DEF PlayerSafe, PlayerInv
  <2> DEFINE q == [player EXCEPT !.idle = FALSE, !.news = FALSE]
  <2>2. CASE n = UpdateStatus(q)
    <3>1. PlayerInv(q) /\ q.id = player.id /\ q.timer = player.timer
      <4>1. q \in PlayerRecords
        BY DEF PlayerSafe, PlayerInv, PlayerRecords
      <4> QED
        BY <1>2, <4>1 DEF PlayerSafe, PlayerInv, PlayerRecords, Informed, Seeking
    <3> HIDE DEF q
    <3> QED
      BY <2>2, <3>1, UpdateStatusKeeps
  <2> QED
    BY <2>1, <2>2 DEF OnIdleUpdate
<1> QED
  BY <1>1, <1>2

\* A connection is known by its first update.
LEMMA PlayerConnectedStep == ASSUME PlayerSafe, PlayerConnected PROVE PlayerSafe'
<1>1. PICK now \in Played, repeat \in BOOLEAN, volume \in 0..MaxVolume :
        player' = UpdateStatus([player EXCEPT !.conn = TRUE, !.now = now, !.repeat = repeat, !.volume = volume])
  BY DEF PlayerConnected
<1> DEFINE q == [player EXCEPT !.conn = TRUE, !.now = now, !.repeat = repeat, !.volume = volume]
<1>2. q \in PlayerRecords
  BY DEF PlayerSafe, PlayerInv, PlayerRecords
<1>3. /\ q.id = player.id /\ q.base = player.base /\ q.time = player.time /\ q.timer = player.timer
      /\ q.conn = TRUE /\ player' = UpdateStatus(q)
  BY <1>1 DEF PlayerSafe, PlayerInv, PlayerRecords
<1> HIDE DEF q
<1>4. /\ player' \in PlayerRecords /\ player'.status.song = q.now.song /\ player'.status.repeat = q.repeat
      /\ \A f \in {"now", "repeat", "volume", "news", "conn", "idle",
                   "id", "time", "timer", "base"} : player'[f] = q[f]
  BY <1>2, <1>3, UpdateStatusStep
<1> QED
  BY <1>3, <1>4 DEF PlayerSafe, PlayerInv, Informed, Seeking

\* Songs end and other clients give commands.
LEMMA PlayerChangesStep == ASSUME PlayerSafe, PlayerChanges PROVE PlayerSafe'
<1>0. player \in PlayerRecords
  BY DEF PlayerSafe, PlayerInv
<1>1. ASSUME NEW now \in Played, player' = [player EXCEPT !.now = now, !.news = TRUE] PROVE PlayerSafe'
  <2>1. player' \in PlayerRecords
    BY <1>0, <1>1 DEF PlayerRecords
  <2> QED
    BY <1>0, <1>1, <2>1, ChangeKeeps DEF PlayerSafe, PlayerRecords
<1>2. ASSUME player' = [player EXCEPT !.repeat = ~@, !.news = TRUE] PROVE PlayerSafe'
  <2> DEFINE r == ~player.repeat
  <2>1. player' = [player EXCEPT !.repeat = r, !.news = TRUE]
    BY <1>2
  <2>2. r \in BOOLEAN
    OBVIOUS
  <2> HIDE DEF r
  <2>3. player' \in PlayerRecords
    BY <1>0, <2>1, <2>2 DEF PlayerRecords
  <2> QED
    BY <1>0, <2>1, <2>3, ChangeKeeps DEF PlayerSafe, PlayerRecords
<1>3. ASSUME NEW volume \in 0..MaxVolume, player' = [player EXCEPT !.volume = volume, !.news = TRUE]
      PROVE  PlayerSafe'
  <2>1. player' \in PlayerRecords
    BY <1>0, <1>3 DEF PlayerRecords
  <2> QED
    BY <1>0, <1>3, <2>1, ChangeKeeps DEF PlayerSafe, PlayerRecords
<1> QED
  BY <1>1, <1>2, <1>3 DEF PlayerChanges

\* Every step of the player keeps the invariant.
LEMMA PlayerSafeStep == ASSUME PlayerSafe, [PlaybackNext]_player PROVE PlayerSafe'
<1>1. ASSUME Commit PROVE PlayerSafe'
  BY <1>1, CommitStep DEF PlayerSafe
<1>2. ASSUME SeekCommand PROVE PlayerSafe'
  BY <1>2, SeekByStep DEF SeekCommand, PlayerSafe
<1>3. ASSUME OtherPlayerCommand PROVE PlayerSafe'
  BY <1>3, CancelSeekStep DEF OtherPlayerCommand, PlayerSafe
<1>4. ASSUME UpdatePlayer PROVE PlayerSafe'
  <2>1. PICK p \in PlayerConnection(player) : player' = IF p.conn THEN UpdateStatus(p) ELSE p
    BY <1>4 DEF UpdatePlayer
  <2>2. PlayerInv(p) /\ p.id = player.id /\ p.timer = player.timer
    BY <2>1, PlayerConnectionStep DEF PlayerSafe
  <2> QED
    BY <2>1, <2>2, UpdateStatusKeeps DEF PlayerSafe
<1>5. ASSUME PlayerIdle PROVE PlayerSafe'
  <2>1. player' = [player EXCEPT !.idle = TRUE] /\ player.conn
    BY <1>5 DEF PlayerIdle
  <2>2. player' \in PlayerRecords
    BY <2>1 DEF PlayerSafe, PlayerInv, PlayerRecords
  <2> QED
    BY <2>1, <2>2 DEF PlayerSafe, PlayerInv, PlayerRecords, Informed, Seeking
<1>6. ASSUME PlayerIdleEvent PROVE PlayerSafe'
  BY <1>6, OnIdleStep DEF PlayerIdleEvent, PlayerSafe
<1>7. ASSUME PlayerLost PROVE PlayerSafe'
  BY <1>7, DisconnectedStep DEF PlayerLost, PlayerSafe, PlayerInv
<1>8. ASSUME UNCHANGED player PROVE PlayerSafe'
  BY <1>8 DEF PlayerSafe
<1> QED
  BY <1>1, <1>2, <1>3, <1>4, <1>5, <1>6, <1>7, <1>8, PlayCommandStep, ToggleStep, RunVolumeStep,
     SeekByMouseStep, PlayerConnectedStep, PlayerChangesStep DEF PlaybackNext

\* ... which implies the three invariants.
LEMMA PlayerSafeImplies == PlayerSafe => PlaybackTypeOK /\ PositionOfSong /\ SeekSettles
<1> SUFFICES ASSUME PlayerSafe PROVE PlaybackTypeOK /\ PositionOfSong /\ SeekSettles
  OBVIOUS
<1>1. PositionOfSong /\ SeekSettles
  BY DEF PlayerSafe, PlayerInv, Seeking, PositionOfSong, SeekSettles
<1>2. player \in PlayerRecords
  BY DEF PlayerSafe, PlayerInv
<1>3. PlaybackTypeOK
  BY <1>2 DEF PlaybackTypeOK, PlayerRecords, Known
<1> QED
  BY <1>1, <1>3

\* A delayed seek is of the song it was reckoned for, within it and with a timer; if the
\* client was in idle mode it changes no song, and a toggle changes the option as it was.
THEOREM PlayerIsToldAsMeant == PlaybackSpec => SentAsMeant
<1>1. PlaybackInit => PlayerSafe
  BY PlayerInit
<1>2. PlayerSafe /\ [PlaybackNext]_player => PlayerSafe'
  BY PlayerSafeStep
<1>3. PlayerSafe => PlaybackTypeOK /\ PositionOfSong /\ SeekSettles
  BY PlayerSafeImplies
<1>4. PlayerSafe /\ [PlaybackNext]_player
        => [player.idle /\ Commit => player'.now.song \in {player.now.song, None}]_player
  BY CommitStep DEF PlayerSafe
<1>5. PlayerSafe /\ [PlaybackNext]_player
        => [player.idle /\ Toggle /\ player'.conn => player'.repeat # player.repeat]_player
  BY ToggleStep
<1> QED
  BY <1>1, <1>2, <1>3, <1>4, <1>5, PTL DEF PlaybackSpec, SentAsMeant, SeekKeepsSong, ToggleChanges

-----------------------------------------------------------------------------
(* Sequences *)

\* What is at a position of a sequence, and of a piece of it
LEMMA PieceFacts ==
    ASSUME NEW S, NEW l \in Seq(S), NEW m \in Int, NEW n \in Int, m >= 1, n <= Len(l)
    PROVE  /\ SubSeq(l, m, n) \in Seq(S)
           /\ Len(SubSeq(l, m, n)) = IF m <= n THEN n - m + 1 ELSE 0
           /\ \A i \in 1..(n - m + 1) : SubSeq(l, m, n)[i] = l[m + i - 1]
<1>1. m <= n => n \in 1..Len(l) /\ m \in 1..Len(l)
  BY LenProperties
<1> QED
  BY <1>1, SubSeqProperties

LEMMA JoinFacts ==
    ASSUME NEW S, NEW p \in Seq(S), NEW q \in Seq(S)
    PROVE  /\ p \o q \in Seq(S) /\ Len(p \o q) = Len(p) + Len(q)
           /\ \A i \in 1..Len(p \o q) : (p \o q)[i] = IF i <= Len(p) THEN p[i] ELSE q[i - Len(p)]
BY ConcatProperties

\* An item is taken out.
LEMMA ItemRemoved ==
    ASSUME NEW S, NEW l \in Seq(S), NEW k \in 1..Len(l)
    PROVE  LET r == RemoveAt(l, k)
           IN  /\ r \in Seq(S) /\ Len(r) = Len(l) - 1
               /\ \A i \in 1..(Len(l) - 1) : r[i] = IF i < k THEN l[i] ELSE l[i + 1]
<1> DEFINE n == Len(l)
           p == SubSeq(l, 1, k - 1)
           q == SubSeq(l, k + 1, n)
           r == RemoveAt(l, k)
<1>1. n \in Nat /\ k \in 1..n
  BY LenProperties
<1>2. p \in Seq(S) /\ Len(p) = k - 1 /\ \A i \in 1..(k - 1) : p[i] = l[i]
  BY <1>1, PieceFacts
<1>3. q \in Seq(S) /\ Len(q) = n - k /\ \A i \in 1..(n - k) : q[i] = l[k + i]
  BY <1>1, PieceFacts
<1>4. r = p \o q
  BY DEF RemoveAt
<1> HIDE DEF n, p, q, r
<1>5. r \in Seq(S) /\ Len(r) = Len(p) + Len(q)
      /\ \A i \in 1..Len(r) : r[i] = IF i <= Len(p) THEN p[i] ELSE q[i - Len(p)]
  BY <1>2, <1>3, <1>4, JoinFacts
<1>6. Len(r) = n - 1
  BY <1>1, <1>2, <1>3, <1>5
<1>7. ASSUME NEW i \in 1..(n - 1) PROVE r[i] = IF i < k THEN l[i] ELSE l[i + 1]
  <2>1. CASE i < k
    <3>1. i \in 1..Len(r) /\ i \in 1..(k - 1) /\ i <= Len(p)
      BY <1>1, <1>2, <1>6, <2>1
    <3>2. r[i] = p[i] /\ p[i] = l[i]
      BY <1>2, <1>5, <3>1
    <3> QED
      BY <2>1, <3>2
  <2>2. CASE ~(i < k)
    <3>1. i - (k - 1) \in 1..(n - k) /\ k + (i - (k - 1)) = i + 1 /\ ~(i <= k - 1)
      BY <1>1, <2>2
    <3> QED
      BY <1>2, <1>3, <1>5, <1>6, <2>2, <3>1
  <2> QED
    BY <2>1, <2>2
<1> QED
  BY <1>5, <1>6, <1>7 DEF n, r

\* An item is inserted.
LEMMA ItemInserted ==
    ASSUME NEW S, NEW l \in Seq(S), NEW x \in S, NEW k \in 1..(Len(l) + 1)
    PROVE  LET r == InsertAt(l, k, x)
           IN  /\ r \in Seq(S) /\ Len(r) = Len(l) + 1
               /\ \A i \in 1..(Len(l) + 1) :
                     r[i] = IF i < k THEN l[i] ELSE IF i = k THEN x ELSE l[i - 1]
<1> DEFINE n == Len(l)
           p == SubSeq(l, 1, k - 1)
           o == <<x>>
           q == SubSeq(l, k, n)
           u == p \o o
           r == InsertAt(l, k, x)
<1>1. n \in Nat /\ k \in 1..(n + 1)
  BY LenProperties
<1>2. p \in Seq(S) /\ Len(p) = k - 1 /\ \A i \in 1..(k - 1) : p[i] = l[i]
  BY <1>1, PieceFacts
<1>3. q \in Seq(S) /\ Len(q) = n - k + 1 /\ \A i \in 1..(n - k + 1) : q[i] = l[k + i - 1]
  BY <1>1, PieceFacts
<1>4. o \in Seq(S) /\ Len(o) = 1 /\ o[1] = x
  OBVIOUS
<1>5. r = u \o q
  BY DEF InsertAt
<1> HIDE DEF n, p, q, o, r
<1>6. u \in Seq(S) /\ Len(u) = Len(p) + Len(o)
      /\ \A i \in 1..Len(u) : u[i] = IF i <= Len(p) THEN p[i] ELSE o[i - Len(p)]
  BY <1>2, <1>4, JoinFacts
<1>7. Len(u) = k
  BY <1>1, <1>2, <1>4, <1>6
<1> HIDE DEF u
<1>8. r \in Seq(S) /\ Len(r) = Len(u) + Len(q)
      /\ \A i \in 1..Len(r) : r[i] = IF i <= Len(u) THEN u[i] ELSE q[i - Len(u)]
  BY <1>3, <1>5, <1>6, JoinFacts
<1>9. Len(r) = n + 1
  BY <1>1, <1>3, <1>7, <1>8
<1>10. ASSUME NEW i \in 1..(n + 1)
       PROVE  r[i] = IF i < k THEN l[i] ELSE IF i = k THEN x ELSE l[i - 1]
  <2>1. CASE i < k
    <3>1. i \in 1..Len(u) /\ i \in 1..(k - 1) /\ i <= Len(u) /\ i <= Len(p) /\ i \in 1..Len(r)
      BY <1>1, <1>2, <1>7, <1>9, <2>1
    <3>2. r[i] = u[i] /\ u[i] = p[i] /\ p[i] = l[i]
      BY <1>2, <1>6, <1>8, <3>1
    <3> QED
      BY <2>1, <3>2
  <2>2. CASE i = k
    <3>1. i \in 1..Len(u) /\ ~(i <= k - 1) /\ i - (k - 1) = 1
      BY <1>1, <1>7, <2>2
    <3> QED
      BY <1>2, <1>4, <1>6, <1>7, <1>8, <1>9, <2>2, <3>1
  <2>3. CASE i > k
    <3>1. i - k \in 1..(n - k + 1) /\ k + (i - k) - 1 = i - 1 /\ ~(i <= k)
      BY <1>1, <2>3
    <3>2. r[i] = q[i - k]
      BY <1>7, <1>8, <1>9, <3>1
    <3>3. q[i - k] = l[i - 1]
      BY <1>3, <3>1
    <3> QED
      BY <1>1, <2>3, <3>2, <3>3
  <2> QED
    BY <1>1, <2>1, <2>2, <2>3
<1> QED
  BY <1>8, <1>9, <1>10 DEF n, r

\* Every set of numbers has a least one.
LEMMA LeastOf ==
    ASSUME NEW S \in SUBSET Nat, S # {}
    PROVE  \E j \in S : \A l \in S : j <= l
<1> DEFINE Less == OpToRel(<, Nat)
<1>1. IsWellFoundedOn(Less, Nat)
  BY NatLessThanWellFounded
<1>2. \A x, y \in Nat : x < y => <<x, y>> \in Less
  BY DEF OpToRel
<1> HIDE DEF Less
<1>3. \E m \in S : \A x \in S : <<x, m>> \notin Less
  BY <1>1, WFMin, Zenon
<1>4. \E m \in S : \A x \in S : ~(x < m)
  BY <1>2, <1>3, Zenon
<1> QED
  BY <1>4

\* What two sequences have is what they have when joined.
LEMMA RangeJoined ==
    ASSUME NEW S, NEW p \in Seq(S), NEW q \in Seq(S)
    PROVE  Range(p \o q) = Range(p) \cup Range(q)
<1> DEFINE r == p \o q
           m == Len(p)
           n == Len(q)
<1>1. m \in Nat /\ n \in Nat /\ DOMAIN p = 1..m /\ DOMAIN q = 1..n
  BY LenProperties
<1>2. /\ DOMAIN r = 1..(m + n)
      /\ \A i \in 1..(m + n) : r[i] = IF i <= m THEN p[i] ELSE q[i - m]
  <2>1. r \in Seq(S) /\ Len(r) = m + n /\ \A i \in 1..Len(r) : r[i] = IF i <= m THEN p[i] ELSE q[i - m]
    BY JoinFacts
  <2>2. DOMAIN r = 1..Len(r)
    BY <2>1, LenProperties
  <2> QED
    BY <2>1, <2>2
<1> HIDE DEF r, m, n
<1>3. ASSUME NEW i \in 1..m PROVE p[i] \in Range(r)
  <2>1. i \in 1..(m + n) /\ r[i] = p[i]
    BY <1>1, <1>2
  <2> QED
    BY <1>2, <2>1 DEF Range
<1>4. ASSUME NEW i \in 1..n PROVE q[i] \in Range(r)
  <2>1. i + m \in 1..(m + n) /\ ~(i + m <= m) /\ (i + m) - m = i
    BY <1>1
  <2>2. r[i + m] = q[i]
    BY <1>2, <2>1
  <2> QED
    BY <1>2, <2>1, <2>2 DEF Range
<1>5. ASSUME NEW i \in 1..(m + n) PROVE r[i] \in Range(p) \cup Range(q)
  <2>1. CASE i <= m
    <3>1. i \in 1..m /\ r[i] = p[i]
      BY <1>1, <1>2, <2>1
    <3> QED
      BY <1>1, <3>1 DEF Range
  <2>2. CASE ~(i <= m)
    <3>1. i - m \in 1..n
      BY <1>1, <2>2
    <3> QED
      BY <1>1, <1>2, <2>2, <3>1 DEF Range
  <2> QED
    BY <2>1, <2>2
<1>6. Range(p) = {p[i] : i \in 1..m} /\ Range(q) = {q[i] : i \in 1..n} /\ Range(r) = {r[i] : i \in 1..(m + n)}
  BY <1>1, <1>2 DEF Range
<1>7. Range(p) \subseteq Range(r) /\ Range(q) \subseteq Range(r)
  BY <1>3, <1>4, <1>6
<1>8. Range(r) \subseteq Range(p) \cup Range(q)
  BY <1>5, <1>6
<1> QED
  BY <1>7, <1>8 DEF r

\* A finite set is listed, each member once.
LEMMA SetListed ==
    ASSUME NEW n \in Nat, NEW S \in SUBSET (1..n)
    PROVE  /\ Cardinality(S) \in Nat /\ SetToSeq(S) \in [1..Cardinality(S) -> S]
           /\ Range(SetToSeq(S)) = S
<1> DEFINE N == Cardinality(S)
           l == SetToSeq(S)
<1>1. IsFiniteSet(S)
  <2>1. 1 \in Int /\ n \in Int
    OBVIOUS
  <2>2. IsFiniteSet(1..n)
    BY <2>1, FS_Interval, Zenon
  <2> QED
    BY <2>2, FS_Subset
<1>2. N \in Nat /\ \E f : f \in Bijection(1..N, S)
  BY <1>1, FS_CardinalityType DEF ExistsBijection
<1>3. \E f \in [1..N -> S] : IsInjective(f)
  BY <1>2 DEF Bijection, Injection
<1>4. l \in [1..N -> S] /\ IsInjective(l)
  BY <1>3 DEF SetToSeq
<1>5. l \in Injection(1..N, S)
  BY <1>4 DEF Injection
<1>6. Cardinality(1..N) = N
  <2>1. 1 \in Int /\ N \in Int
    BY <1>2
  <2>2. Cardinality(1..N) = IF 1 > N THEN 0 ELSE N - 1 + 1
    BY <2>1, FS_Interval, Zenon
  <2> QED
    BY <1>2, <2>2
<1>7. l \in Surjection(1..N, S)
  BY <1>1, <1>5, <1>6, FS_Injection
<1> HIDE DEF l, N
<1>8. Range(l) = S
  BY <1>4, <1>7 DEF Surjection, Range
<1> QED
  BY <1>2, <1>4, <1>8 DEF l, N

-----------------------------------------------------------------------------
(* The list of servers *)

Lines == Services \cup {Default, Fallback, Error}
KnownServers == Services \cup {Default, Fallback}
Lists(l, k) == \E i \in 1..Len(l) : l[i] = k

\* The default server first, no line twice, and an error message last.
ServerList(l) ==
    /\ l \in Seq(Lines) /\ Len(l) >= 1 /\ l[1] = Default
    /\ \A i, j \in 1..Len(l) : l[i] = l[j] => i = j
    /\ \A i \in 1..Len(l) : l[i] = Error => i = Len(l)

LEMMA LineKinds ==
    /\ Default # Error /\ Fallback # Error /\ Default # Fallback
    /\ \A k \in Services : k # Default /\ k # Fallback /\ k # Error /\ k # Gone
BY ConnectionsAssumption DEF Default, Fallback, Error, Gone

\* A new message replaces the last one.
LEMMA MessageShown ==
    ASSUME NEW l, ServerList(l)
    PROVE  LET left == IF Last(l) = Error THEN Front(l) ELSE l
               r == Append(left, Error)
           IN  ServerList(r) /\ \A k \in KnownServers : Lists(r, k) <=> Lists(l, k)
<1> DEFINE left == IF Last(l) = Error THEN Front(l) ELSE l
           r == Append(left, Error)
           n == Len(left)
<1>0. Len(l) \in Nat /\ l \in Seq(Lines) /\ Error \in Lines /\ Len(l) >= 1
  BY LenProperties DEF ServerList, Lines
<1>1. /\ left \in Seq(Lines) /\ n \in Nat /\ n >= 1 /\ n <= Len(l)
      /\ \A i \in 1..n : left[i] = l[i] /\ l[i] # Error
      /\ \A i \in 1..Len(l) : i \in 1..n \/ l[i] = Error
  <2>1. CASE Last(l) = Error
    <3>1. Len(l) # 1
      BY <2>1, LineKinds DEF Last, ServerList
    <3>2. left = SubSeq(l, 1, Len(l) - 1)
      BY <2>1 DEF Front
    <3>3. left \in Seq(Lines) /\ Len(left) = Len(l) - 1 /\ \A i \in 1..(Len(l) - 1) : left[i] = l[i]
      BY <1>0, <3>1, <3>2, PieceFacts
    <3> QED
      BY <1>0, <2>1, <3>1, <3>3 DEF Last, ServerList
  <2>2. CASE Last(l) # Error
    BY <1>0, <2>2 DEF Last, ServerList
  <2> QED
    BY <2>1, <2>2
<1> HIDE DEF left, n
<1>2. r \in Seq(Lines) /\ Len(r) = n + 1 /\ r[n + 1] = Error /\ \A i \in 1..n : r[i] = left[i]
  BY <1>0, <1>1, AppendProperties DEF n
<1> HIDE DEF r
<1>3. ServerList(r)
  <2>1. \A i \in 1..(n + 1) : i \in 1..n \/ i = n + 1
    BY <1>1
  <2>2. \A i \in 1..n : i \in 1..Len(l) /\ r[i] = l[i] /\ r[i] # Error
    BY <1>0, <1>1, <1>2
  <2>3. ASSUME NEW i \in 1..Len(r), NEW j \in 1..Len(r), r[i] = r[j] PROVE i = j
    <3>1. (i \in 1..n \/ i = n + 1) /\ (j \in 1..n \/ j = n + 1)
      BY <1>2, <2>1
    <3>2. \A a, b \in 1..Len(l) : l[a] = l[b] => a = b
      BY DEF ServerList
    <3>3. CASE i \in 1..n /\ j \in 1..n
      BY <2>2, <2>3, <3>2, <3>3
    <3> QED
      BY <1>2, <2>2, <2>3, <3>1, <3>3
  <2>4. \A i \in 1..Len(r) : r[i] = Error => i = Len(r)
    BY <1>2, <2>1, <2>2
  <2>5. Len(r) >= 1 /\ r[1] = Default
    <3>1. 1 \in 1..n /\ l[1] = Default
      BY <1>1 DEF ServerList
    <3> QED
      BY <1>1, <1>2, <2>2, <3>1
  <2> QED
    BY <1>2, <2>3, <2>4, <2>5 DEF ServerList
<1>4. ASSUME NEW k \in KnownServers PROVE Lists(r, k) <=> Lists(l, k)
  <2>1. k # Error
    BY LineKinds DEF KnownServers
  <2>2. \A i \in 1..(n + 1) : i \in 1..n \/ i = n + 1
    BY <1>1
  <2>3. ASSUME NEW i \in 1..Len(r), r[i] = k PROVE i \in 1..Len(l) /\ l[i] = k
    BY <1>0, <1>1, <1>2, <2>1, <2>2, <2>3
  <2>4. ASSUME NEW i \in 1..Len(l), l[i] = k PROVE i \in 1..Len(r) /\ r[i] = k
    BY <1>0, <1>1, <1>2, <2>1, <2>4
  <2> QED
    BY <2>3, <2>4 DEF Lists
<1> QED
  BY <1>3, <1>4 DEF r, left

\* A server is listed before the message.
LEMMA ServerListed ==
    ASSUME NEW l, ServerList(l), NEW x \in Services, ~Lists(l, x)
    PROVE  LET pos == IF Last(l) = Error THEN Len(l) ELSE Len(l) + 1
               r == InsertAt(l, pos, x)
           IN  /\ ServerList(r)
               /\ \A k \in Lines : Lists(r, k) <=> Lists(l, k) \/ k = x
<1> DEFINE n == Len(l)
           pos == IF Last(l) = Error THEN n ELSE n + 1
           r == InsertAt(l, pos, x)
<1>0. /\ n \in Nat /\ l \in Seq(Lines) /\ n >= 1 /\ x \in Lines /\ l[1] = Default
      /\ \A i, j \in 1..n : l[i] = l[j] => i = j
      /\ \A i \in 1..n : l[i] = Error => i = n
      /\ \A i \in 1..n : l[i] # x
  BY LenProperties DEF ServerList, Lines, Lists
<1>1. pos \in 2..(n + 1) /\ (\A i \in 1..n : i < pos => l[i] # Error) /\ \A i \in 1..n : ~(i < pos) => i = n
  BY <1>0, LineKinds DEF Last
<1> HIDE DEF n, pos
<1>2. /\ r \in Seq(Lines) /\ Len(r) = n + 1
      /\ \A i \in 1..(n + 1) : r[i] = IF i < pos THEN l[i] ELSE IF i = pos THEN x ELSE l[i - 1]
  BY <1>0, <1>1, ItemInserted DEF n
<1> HIDE DEF r
<1>3. r[1] = Default /\ x # Error
  BY <1>0, <1>1, <1>2, LineKinds
<1>4. ASSUME NEW i \in 1..(n + 1), NEW j \in 1..(n + 1), r[i] = r[j] PROVE i = j
  BY <1>0, <1>1, <1>2, <1>4
<1>5. ASSUME NEW i \in 1..(n + 1), r[i] = Error PROVE i = n + 1
  BY <1>0, <1>1, <1>2, <1>3, <1>5
<1>6. ASSUME NEW k \in Lines PROVE Lists(r, k) <=> Lists(l, k) \/ k = x
  <2>1. ASSUME NEW i \in 1..(n + 1), r[i] = k PROVE k = x \/ \E j \in 1..n : l[j] = k
    <3>1. CASE i < pos
      BY <1>0, <1>1, <1>2, <2>1, <3>1
    <3>2. CASE i = pos
      BY <1>2, <2>1, <3>2
    <3>3. CASE i > pos
      <4>1. i - 1 \in 1..n /\ r[i] = l[i - 1]
        BY <1>0, <1>1, <1>2, <3>3
      <4> QED
        BY <2>1, <4>1
    <3> QED
      BY <1>1, <3>1, <3>2, <3>3
  <2>2. ASSUME NEW j \in 1..n, l[j] = k PROVE \E i \in 1..(n + 1) : r[i] = k
    <3>1. CASE j < pos
      BY <1>0, <1>1, <1>2, <2>2, <3>1
    <3>2. CASE ~(j < pos)
      <4>1. j + 1 \in 1..(n + 1) /\ ~(j + 1 < pos) /\ j + 1 # pos /\ (j + 1) - 1 = j
        BY <1>0, <1>1, <3>2
      <4>2. r[j + 1] = k
        BY <1>2, <2>2, <4>1
      <4> QED
        BY <4>1, <4>2
    <3> QED
      BY <3>1, <3>2
  <2>3. r[pos] = x /\ pos \in 1..(n + 1)
    BY <1>0, <1>1, <1>2
  <2> QED
    BY <1>2, <2>1, <2>2, <2>3 DEF Lists, n
<1>7. ServerList(r)
  BY <1>0, <1>2, <1>3, <1>4, <1>5 DEF ServerList
<1> QED
  BY <1>6, <1>7 DEF n, pos, r

\* A server is gone.
LEMMA ServerUnlisted ==
    ASSUME NEW l, ServerList(l), NEW x \in Services, Lists(l, x)
    PROVE  LET r == Without(l, x)
           IN  ServerList(r) /\ \A k \in Lines : Lists(r, k) <=> Lists(l, k) /\ k # x
<1> DEFINE n == Len(l)
           p == CHOOSE i \in DOMAIN l : l[i] = x
           r == Without(l, x)
<1>0. /\ n \in Nat /\ l \in Seq(Lines) /\ n >= 1 /\ l[1] = Default /\ DOMAIN l = 1..n
      /\ \A i, j \in 1..n : l[i] = l[j] => i = j
      /\ \A i \in 1..n : l[i] = Error => i = n
  BY LenProperties DEF ServerList
<1>1. p \in 1..n /\ l[p] = x
  BY <1>0 DEF Lists
<1>2. r = RemoveAt(l, p)
  BY DEF Without
<1> HIDE DEF n, p, r
<1>3. p # 1 /\ \A i \in 1..n : l[i] = x <=> i = p
  BY <1>0, <1>1, LineKinds
<1>4. /\ r \in Seq(Lines) /\ Len(r) = n - 1
      /\ \A i \in 1..(n - 1) : r[i] = IF i < p THEN l[i] ELSE l[i + 1]
  BY <1>0, <1>1, <1>2, ItemRemoved DEF n
<1>5. ASSUME NEW i \in 1..(n - 1) PROVE \E j \in 1..n : j # p /\ r[i] = l[j] /\ j = IF i < p THEN i ELSE i + 1
  BY <1>0, <1>1, <1>4
<1>6. ASSUME NEW j \in 1..n, j # p PROVE \E i \in 1..(n - 1) : r[i] = l[j]
  <2>1. CASE j < p
    BY <1>0, <1>1, <1>4, <2>1
  <2>2. CASE j > p
    <3>1. j - 1 \in 1..(n - 1) /\ ~(j - 1 < p) /\ (j - 1) + 1 = j
      BY <1>0, <1>1, <2>2
    <3>2. r[j - 1] = l[j]
      BY <1>4, <3>1
    <3> QED
      BY <3>1, <3>2
  <2> QED
    BY <1>1, <1>6, <2>1, <2>2
<1>7. ASSUME NEW k \in Lines PROVE Lists(r, k) <=> Lists(l, k) /\ k # x
  <2>1. ASSUME NEW i \in 1..(n - 1), r[i] = k PROVE k # x /\ \E j \in 1..n : l[j] = k
    BY <1>3, <1>5, <2>1
  <2>2. ASSUME NEW j \in 1..n, l[j] = k, k # x PROVE \E i \in 1..(n - 1) : r[i] = k
    BY <1>1, <1>6, <2>2
  <2> QED
    BY <1>4, <2>1, <2>2 DEF Lists, n
<1>8. ASSUME NEW i \in 1..(n - 1), NEW j \in 1..(n - 1), r[i] = r[j] PROVE i = j
  BY <1>0, <1>1, <1>5, <1>8
<1>9. ASSUME NEW i \in 1..(n - 1), r[i] = Error PROVE i = n - 1
  BY <1>0, <1>1, <1>5, <1>9
<1>10. n - 1 >= 1 /\ r[1] = Default
  BY <1>0, <1>1, <1>3, <1>4
<1>11. ServerList(r)
  BY <1>4, <1>8, <1>9, <1>10 DEF ServerList
<1> QED
  BY <1>7, <1>11 DEF r

-----------------------------------------------------------------------------
(* The connections page and the explorer *)

ObjectStates == {"resolving", "active", "failed"}
Objects == UNION {[D -> ObjectStates] : D \in SUBSET Services}

ConnRecords ==
    [client : BOOLEAN, connected : BOOLEAN, timer : BOOLEAN,
     browser : BOOLEAN, told : SUBSET Services, allTold : BOOLEAN,
     objects : Objects, resolvers : Nat, pending : BOOLEAN,
     items : Seq(Lines), cursor : Nat, range : BOOLEAN,
     target : KnownServers \cup {Gone}, active : SUBSET Lines, dirty : BOOLEAN]

Listed(c) == {i \in Lines : Lists(c.items, i)}

\* The page: the server in use is listed, unless its settings were taken off the list, and marked.
PageRight(c) ==
    /\ c \in ConnRecords /\ ServerList(c.items) /\ c.cursor \in 1..Len(c.items)
    /\ c.target \in Services => Lists(c.items, c.target)
    /\ ~c.dirty => c.active = {c.target} \cap Listed(c)

\* The services listed are those whose address is known.
ListedAreActive(c) == \A k \in Services : Lists(c.items, k) <=> k \in InState(c, "active")

\* The explorer counts its lookups, and has none without a browser.
LookupsCounted(c) ==
    /\ IsFiniteSet(InState(c, "resolving")) /\ Cardinality(InState(c, "resolving")) <= c.resolvers
    /\ ~c.browser => c.resolvers = 0

\* The client of the daemon, or the timer that creates one
DaemonAwaited(c) == c.client # c.timer /\ (c.connected \/ c.browser => c.client)

ConnSafe(c) == PageRight(c) /\ ListedAreActive(c) /\ LookupsCounted(c) /\ DaemonAwaited(c)

\* What the page leaves alone
SameDaemon(f, c) ==
    /\ f.client = c.client /\ f.connected = c.connected /\ f.timer = c.timer /\ f.browser = c.browser
    /\ f.objects = c.objects /\ f.resolvers = c.resolvers

LEMMA SameDaemonFacts ==
    ASSUME NEW f, NEW c, SameDaemon(f, c)
    PROVE  /\ \A st : InState(f, st) = InState(c, st)
           /\ LookupsCounted(c) => LookupsCounted(f)
           /\ DaemonAwaited(c) => DaemonAwaited(f)
<1>1. \A st : InState(f, st) = InState(c, st)
  BY DEF SameDaemon, InState
<1> QED
  BY <1>1 DEF SameDaemon, LookupsCounted, DaemonAwaited

LEMMA RangeIsListed == \A c : PageRight(c) => Range(c.items) = Listed(c)
<1> SUFFICES ASSUME NEW c, PageRight(c) PROVE Range(c.items) = Listed(c)
  OBVIOUS
<1>1. c.items \in Seq(Lines) /\ DOMAIN c.items = 1..Len(c.items)
  BY LenProperties DEF PageRight, ServerList
<1>2. \A i \in 1..Len(c.items) : c.items[i] \in Lines
  BY <1>1, ElementOfSeq
<1> QED
  BY <1>1, <1>2 DEF Range, Listed, Lists

\* A message is shown, and nothing else changes.
LEMMA ErrorShown ==
    ASSUME NEW c, PageRight(c)
    PROVE  LET f == OnAvahiError(c)
           IN  /\ PageRight(f) /\ SameDaemon(f, c)
               /\ \A k \in Services : Lists(f.items, k) <=> Lists(c.items, k)
<1> DEFINE left == IF Last(c.items) = Error THEN Front(c.items) ELSE c.items
           l == Append(left, Error)
           p == IF c.cursor > Len(l) THEN Len(l) ELSE c.cursor
           f == [c EXCEPT !.items = l, !.cursor = p]
<1>1. ServerList(l) /\ \A k \in KnownServers : Lists(l, k) <=> Lists(c.items, k)
  BY MessageShown DEF PageRight
<1>2. OnAvahiError(c) = f
  <2>1. [c EXCEPT !.items = l].cursor = c.cursor /\ [c EXCEPT !.items = l].items = l
    BY DEF PageRight, ConnRecords
  <2> HIDE DEF l
  <2>2. Clamped([c EXCEPT !.items = l]) = f
    BY <2>1 DEF Clamped, PageRight, ConnRecords
  <2> QED
    BY <2>2 DEF OnAvahiError, l
<1> HIDE DEF l, left
<1>3. l \in Seq(Lines) /\ Len(l) \in Nat /\ Len(l) >= 1
  BY <1>1, LenProperties DEF ServerList
<1>4. p \in 1..Len(l) /\ p \in Nat
  BY <1>3, LenProperties DEF PageRight, ServerList
<1> HIDE DEF p
<1>5. f \in ConnRecords /\ f.items = l /\ f.cursor = p /\ SameDaemon(f, c)
      /\ f.target = c.target /\ f.active = c.active /\ f.dirty = c.dirty
  BY <1>3, <1>4 DEF PageRight, ConnRecords, SameDaemon
<1>6. f.target \in Services => Lists(l, f.target)
  BY <1>1, <1>5 DEF PageRight, KnownServers
<1>7. {c.target} \cap Listed(f) = {c.target} \cap Listed(c)
  <2>1. c.target \in Lines => c.target \in KnownServers
    BY LineKinds DEF PageRight, ConnRecords, KnownServers, Lines, Gone, Error
  <2> QED
    BY <1>1, <1>5, <2>1 DEF Listed
<1>8. PageRight(f)
  BY <1>1, <1>4, <1>5, <1>6, <1>7 DEF PageRight
<1> QED
  BY <1>1, <1>2, <1>5, <1>8 DEF KnownServers

\* The list changes under the cursor, which stays on a line of that name if there is one.
LEMMA CursorKept ==
    ASSUME NEW c, PageRight(c), NEW l, ServerList(l)
    PROVE  LET f == KeepingCursor(c, l)
           IN  /\ f \in ConnRecords /\ f.items = l /\ f.cursor \in 1..Len(l) /\ SameDaemon(f, c)
               /\ f.target = c.target /\ f.active = c.active /\ f.dirty = c.dirty /\ f.range = c.range
               /\ ~c.range => \/ NameOf(l[f.cursor]) = NameOf(c.items[c.cursor])
                              \/ \A i \in 1..Len(l) : NameOf(l[i]) # NameOf(c.items[c.cursor])
<1> DEFINE same == {i \in 1..Len(l) : NameOf(l[i]) = NameOf(c.items[c.cursor])}
           q == CHOOSE i \in same : \A j \in same : i <= j
           p == IF c.cursor > Len(l) THEN Len(l) ELSE c.cursor
           h == [c EXCEPT !.items = l]
           new == [c EXCEPT !.items = l, !.cursor = p]
           f == KeepingCursor(c, l)
<1>1. l \in Seq(Lines) /\ Len(l) \in Nat /\ Len(l) >= 1
  BY LenProperties DEF ServerList
<1>2. p \in 1..Len(l) /\ p \in Nat
  BY <1>1, LenProperties DEF PageRight, ServerList
<1>3. Clamped(h) = new
  <2>1. h.cursor = c.cursor /\ h.items = l
    BY DEF PageRight, ConnRecords
  <2> QED
    BY <2>1 DEF Clamped, PageRight, ConnRecords
<1>4. same # {} => q \in same
  <2>1. same \subseteq Nat
    BY <1>1
  <2> HIDE DEF same
  <2> QED
    BY <2>1, LeastOf
<1>5. f = IF c.range \/ same = {} THEN new ELSE [new EXCEPT !.cursor = q]
  <2> HIDE DEF new
  <2>1. f = IF c.range \/ same = {} THEN Clamped(h) ELSE [Clamped(h) EXCEPT !.cursor = q]
    BY DEF KeepingCursor
  <2> QED
    BY <1>3, <2>1
<1> HIDE DEF p, q, f
<1>6. /\ new \in ConnRecords /\ new.items = l /\ new.cursor = p /\ SameDaemon(new, c)
      /\ new.target = c.target /\ new.active = c.active /\ new.dirty = c.dirty /\ new.range = c.range
  BY <1>1, <1>2 DEF PageRight, ConnRecords, SameDaemon
<1>7. CASE c.range \/ same = {}
  <2>1. f = new
    BY <1>5, <1>7
  <2> HIDE DEF new
  <2>2. ~c.range => \A i \in 1..Len(l) : NameOf(l[i]) # NameOf(c.items[c.cursor])
    BY <1>7
  <2> QED
    BY <1>2, <1>6, <2>1, <2>2 DEF f
<1>8. CASE ~(c.range \/ same = {})
  <2> DEFINE g == [new EXCEPT !.cursor = q]
  <2>1. q \in 1..Len(l) /\ NameOf(l[q]) = NameOf(c.items[c.cursor]) /\ q \in Nat
    BY <1>1, <1>4, <1>8
  <2>2. f = g
    BY <1>5, <1>8
  <2> HIDE DEF new, same
  <2>3. /\ g \in ConnRecords /\ g.items = l /\ g.cursor = q /\ SameDaemon(g, c)
        /\ g.target = c.target /\ g.active = c.active /\ g.dirty = c.dirty /\ g.range = c.range
    BY <1>6, <2>1 DEF ConnRecords, SameDaemon
  <2> QED
    BY <2>1, <2>2, <2>3 DEF f
<1> QED
  BY <1>7, <1>8

SamePage(f, c) ==
    /\ f.items = c.items /\ f.cursor = c.cursor /\ f.range = c.range
    /\ f.target = c.target /\ f.active = c.active /\ f.dirty = c.dirty

SameClient(f, c) ==
    f.client = c.client /\ f.connected = c.connected /\ f.timer = c.timer /\ f.browser = c.browser

LEMMA SamePageFacts ==
    ASSUME NEW f, NEW c, f \in ConnRecords, SamePage(f, c), PageRight(c)
    PROVE  PageRight(f) /\ \A k : Lists(f.items, k) <=> Lists(c.items, k)
<1>1. Listed(f) = Listed(c) /\ \A k : Lists(f.items, k) <=> Lists(c.items, k)
  BY DEF SamePage, Listed, Lists
<1> QED
  BY <1>1 DEF SamePage, PageRight

LEMMA ObjectSet ==
    ASSUME NEW c \in ConnRecords, NEW k \in Services, NEW st \in ObjectStates
    PROVE  LET f == SetObject(c, k, st)
           IN  /\ f \in ConnRecords /\ SamePage(f, c) /\ SameClient(f, c) /\ f.resolvers = c.resolvers
               /\ f.told = c.told /\ f.pending = c.pending
               /\ \A s : InState(f, s) = IF s = st THEN InState(c, s) \cup {k} ELSE InState(c, s) \ {k}
<1> DEFINE o == [j \in DOMAIN c.objects \cup {k} |-> IF j = k THEN st ELSE c.objects[j]]
           f == [c EXCEPT !.objects = o]
<1>1. PICK D \in SUBSET Services : c.objects \in [D -> ObjectStates]
  BY DEF ConnRecords, Objects
<1>2. o \in [D \cup {k} -> ObjectStates] /\ D \cup {k} \in SUBSET Services
  BY <1>1
<1>3. o \in Objects
  BY <1>2 DEF Objects
<1>4. SetObject(c, k, st) = f
  BY DEF SetObject
<1>5. \A s : {j \in DOMAIN o : o[j] = s} = IF s = st THEN InState(c, s) \cup {k} ELSE InState(c, s) \ {k}
  BY DEF InState
<1> HIDE DEF o
<1>6. /\ f \in ConnRecords /\ SamePage(f, c) /\ SameClient(f, c) /\ f.resolvers = c.resolvers
      /\ f.told = c.told /\ f.pending = c.pending /\ f.objects = o
  BY <1>3 DEF ConnRecords, SamePage, SameClient
<1>7. \A s : InState(f, s) = {j \in DOMAIN o : o[j] = s}
  BY <1>6 DEF InState
<1> HIDE DEF f
<1> QED
  BY <1>4, <1>5, <1>6, <1>7

\* A server is listed by NewObject().
LEMMA NewObjectRight ==
    ASSUME NEW c, PageRight(c), NEW k \in Services, ~Lists(c.items, k)
    PROVE  LET f == NewObject(c, k)
           IN  /\ PageRight(f) /\ SameDaemon(f, c)
               /\ \A j \in Services : Lists(f.items, j) <=> Lists(c.items, j) \/ j = k
               /\ ~c.range => \/ NameOf(f.items[f.cursor]) = NameOf(c.items[c.cursor])
                              \/ \A i \in 1..Len(f.items) : NameOf(f.items[i]) # NameOf(c.items[c.cursor])
<1> DEFINE pos == IF Last(c.items) = Error THEN Len(c.items) ELSE Len(c.items) + 1
           l == InsertAt(c.items, pos, k)
           f == NewObject(c, k)
<1>1. ServerList(l) /\ \A j \in Lines : Lists(l, j) <=> Lists(c.items, j) \/ j = k
  BY ServerListed DEF PageRight
<1>2. f = KeepingCursor(c, l)
  BY DEF NewObject
<1> HIDE DEF l, f
<1>3. /\ f \in ConnRecords /\ f.items = l /\ f.cursor \in 1..Len(l) /\ SameDaemon(f, c)
      /\ f.target = c.target /\ f.active = c.active /\ f.dirty = c.dirty /\ f.range = c.range
      /\ ~c.range => \/ NameOf(l[f.cursor]) = NameOf(c.items[c.cursor])
                     \/ \A i \in 1..Len(l) : NameOf(l[i]) # NameOf(c.items[c.cursor])
  BY <1>1, <1>2, CursorKept
<1>4. c.target # k /\ (f.target \in Services => Lists(l, f.target))
  BY <1>1, <1>3 DEF PageRight, Lines
<1>5. {c.target} \cap Listed(f) = {c.target} \cap Listed(c)
  BY <1>1, <1>3, <1>4 DEF Listed
<1>6. PageRight(f)
  BY <1>1, <1>3, <1>4, <1>5 DEF PageRight
<1> QED
  BY <1>1, <1>3, <1>6 DEF Lines, f

\* A server is taken off the list by RemoveObject().
LEMMA RemoveObjectRight ==
    ASSUME NEW c, PageRight(c), NEW k \in Services, Lists(c.items, k)
    PROVE  LET f == RemoveObject(c, k)
           IN  /\ PageRight(f) /\ SameDaemon(f, c)
               /\ \A j \in Services : Lists(f.items, j) <=> Lists(c.items, j) /\ j # k
               /\ ~c.range => \/ NameOf(f.items[f.cursor]) = NameOf(c.items[c.cursor])
                              \/ \A i \in 1..Len(f.items) : NameOf(f.items[i]) # NameOf(c.items[c.cursor])
<1> DEFINE l == Without(c.items, k)
           g == KeepingCursor(c, l)
           t == IF c.target = k THEN Gone ELSE c.target
           a == c.active \ {k}
           f == [g EXCEPT !.active = a, !.target = t]
<1>1. ServerList(l) /\ \A j \in Lines : Lists(l, j) <=> Lists(c.items, j) /\ j # k
  BY ServerUnlisted DEF PageRight
<1>2. k \in Range(c.items)
  BY RangeIsListed DEF Listed, Lines
<1> HIDE DEF l
<1>3. /\ g \in ConnRecords /\ g.items = l /\ g.cursor \in 1..Len(l) /\ SameDaemon(g, c)
      /\ g.target = c.target /\ g.active = c.active /\ g.dirty = c.dirty /\ g.range = c.range
      /\ ~c.range => \/ NameOf(l[g.cursor]) = NameOf(c.items[c.cursor])
                     \/ \A i \in 1..Len(l) : NameOf(l[i]) # NameOf(c.items[c.cursor])
  BY <1>1, CursorKept
<1>4. RemoveObject(c, k) = f
  <2>1. RemoveObject(c, k) = Forgotten(g, k)
    BY <1>2 DEF RemoveObject, l
  <2> HIDE DEF g
  <2> QED
    BY <1>3, <2>1 DEF Forgotten
<1> HIDE DEF g
<1>5. t \in KnownServers \cup {Gone} /\ a \in SUBSET Lines
  BY DEF PageRight, ConnRecords
<1>6. /\ f \in ConnRecords /\ f.items = l /\ f.cursor = g.cursor /\ SameDaemon(f, c)
      /\ f.target = t /\ f.active = a /\ f.dirty = c.dirty
  <2> HIDE DEF t, a
  <2> QED
    BY <1>3, <1>5 DEF ConnRecords, SameDaemon
<1> HIDE DEF f
<1>7. t \in Services => Lists(l, t)
  BY <1>1, LineKinds DEF PageRight, Lines
<1>8. ~c.dirty => a = {t} \cap Listed(f)
  <2>1. Listed(f) = Listed(c) \ {k}
    BY <1>1, <1>6 DEF Listed
  <2>2. Gone \notin Lines
    BY LineKinds DEF Lines, Gone, Default, Fallback, Error
  <2> QED
    BY <2>1, <2>2 DEF PageRight, Listed
<1>9. PageRight(f)
  BY <1>1, <1>3, <1>6, <1>7, <1>8 DEF PageRight
<1> QED
  BY <1>1, <1>3, <1>4, <1>6, <1>9 DEF Lines

-----------------------------------------------------------------------------
(* Lookups, the daemon and the user *)

LEMMA ActivateItemSafe == ConnSafe(conns) /\ ActivateItem => ConnSafe(conns')
<1> SUFFICES ASSUME ConnSafe(conns), ActivateItem PROVE ConnSafe(conns')
  OBVIOUS
<1> DEFINE item == conns.items[conns.cursor]
           t == IF item = Error \/ item \in conns.active THEN conns.target ELSE item
<1>1. item \in Lines /\ Lists(conns.items, item)
  BY ElementOfSeq DEF ConnSafe, PageRight, ServerList, Lists
<1>2. t \in KnownServers \cup {Gone} /\ (t \in Services => Lists(conns.items, t))
  BY <1>1 DEF ConnSafe, PageRight, ConnRecords, Lines, KnownServers
<1>3. conns' = [conns EXCEPT !.dirty = TRUE, !.target = t]
  BY DEF ActivateItem, ConnSafe, PageRight, ConnRecords
<1> HIDE DEF t, item
<1>4. /\ conns' \in ConnRecords /\ conns'.items = conns.items /\ conns'.cursor = conns.cursor
      /\ conns'.dirty = TRUE /\ conns'.target = t /\ SameDaemon(conns', conns)
  BY <1>2, <1>3 DEF ConnSafe, PageRight, ConnRecords, SameDaemon
<1> QED
  BY <1>2, <1>4, SameDaemonFacts DEF ConnSafe, PageRight, ListedAreActive

LEMMA MoveToItemSafe == ConnSafe(conns) /\ MoveToItem => ConnSafe(conns')
<1> SUFFICES ASSUME ConnSafe(conns), NEW i \in 1..Len(conns.items), NEW range \in BOOLEAN,
                    conns' = [conns EXCEPT !.cursor = i, !.range = range, !.dirty = TRUE]
             PROVE  ConnSafe(conns')
  BY DEF MoveToItem
<1>1. i \in Nat
  BY LenProperties DEF ConnSafe, PageRight, ServerList
<1>2. /\ conns' \in ConnRecords /\ conns'.items = conns.items /\ conns'.cursor = i
      /\ conns'.dirty = TRUE /\ conns'.target = conns.target /\ SameDaemon(conns', conns)
  BY <1>1 DEF ConnSafe, PageRight, ConnRecords, SameDaemon
<1> QED
  BY <1>2, SameDaemonFacts DEF ConnSafe, PageRight, ListedAreActive

\* The client takes another server of the configuration.
LEMMA FallBackSafe == ConnSafe(conns) /\ (FallBack \/ BackToDefault) => ConnSafe(conns')
<1> SUFFICES ASSUME ConnSafe(conns), NEW t \in {Default, Fallback},
                    conns' = [conns EXCEPT !.target = t, !.dirty = TRUE]
             PROVE  ConnSafe(conns')
  BY DEF FallBack, BackToDefault
<1>1. t \in KnownServers /\ t \notin Services
  BY LineKinds DEF KnownServers
<1>2. /\ conns' \in ConnRecords /\ conns'.items = conns.items /\ conns'.cursor = conns.cursor
      /\ conns'.dirty = TRUE /\ conns'.target = t /\ SameDaemon(conns', conns)
  BY <1>1 DEF ConnSafe, PageRight, ConnRecords, SameDaemon
<1> QED
  BY <1>1, <1>2, SameDaemonFacts DEF ConnSafe, PageRight, ListedAreActive

LEMMA DrawConnectionsSafe == ConnSafe(conns) /\ DrawConnections => ConnSafe(conns')
<1> SUFFICES ASSUME ConnSafe(conns), DrawConnections PROVE ConnSafe(conns')
  OBVIOUS
<1> DEFINE a == {conns.target} \cap Listed(conns)
<1>1. a \in SUBSET Lines
  BY DEF Listed
<1>2. conns' = [conns EXCEPT !.active = a, !.dirty = FALSE]
  <2>1. a = {conns.target} \cap Range(conns.items)
    BY RangeIsListed DEF ConnSafe
  <2> HIDE DEF a
  <2> QED
    BY <2>1 DEF DrawConnections, UpdateConnections, ConnSafe, PageRight, ConnRecords
<1> HIDE DEF a
<1>3. /\ conns' \in ConnRecords /\ conns'.items = conns.items /\ conns'.cursor = conns.cursor
      /\ conns'.active = a /\ conns'.target = conns.target /\ SameDaemon(conns', conns)
  BY <1>1, <1>2 DEF ConnSafe, PageRight, ConnRecords, SameDaemon
<1>4. Listed(conns') = Listed(conns)
  BY <1>3 DEF Listed
<1> QED
  BY <1>3, <1>4, SameDaemonFacts DEF ConnSafe, PageRight, ListedAreActive, a

\* A lookup starts, or cannot be started.
LEMMA ResolveSafe ==
    ASSUME NEW c, ConnSafe(c), c.browser, NEW k \in Services,
           k \notin InState(c, "active"), k \notin InState(c, "resolving"), NEW f \in Resolve(c, k)
    PROVE  ConnSafe(f)
<1> DEFINE g == SetObject(c, k, "resolving")
           h == SetObject(c, k, "failed")
           b == 1
           n == g.resolvers + b
           r == [g EXCEPT !.resolvers = n]
<1>0. c \in ConnRecords /\ c.resolvers \in Nat /\ b \in Nat /\ b = 1
      /\ "resolving" \in ObjectStates /\ "failed" \in ObjectStates
  BY DEF ConnSafe, PageRight, ConnRecords, ObjectStates
<1>1. f = r \/ f = OnAvahiError(h)
  BY DEF Resolve
<1>2. /\ g \in ConnRecords /\ SamePage(g, c) /\ SameClient(g, c) /\ g.resolvers = c.resolvers
      /\ InState(g, "active") = InState(c, "active")
      /\ InState(g, "resolving") = InState(c, "resolving") \cup {k}
  <2> HIDE DEF g
  <2>1. \A s : InState(g, s) = IF s = "resolving" THEN InState(c, s) \cup {k} ELSE InState(c, s) \ {k}
    BY <1>0, ObjectSet DEF g
  <2>2. InState(g, "active") = InState(c, "active") \ {k}
    BY <2>1
  <2>3. g \in ConnRecords /\ SamePage(g, c) /\ SameClient(g, c) /\ g.resolvers = c.resolvers
    BY <1>0, ObjectSet DEF g
  <2> QED
    BY <2>1, <2>2, <2>3
<1>3. /\ h \in ConnRecords /\ SamePage(h, c) /\ SameClient(h, c) /\ h.resolvers = c.resolvers
      /\ InState(h, "active") = InState(c, "active")
      /\ InState(h, "resolving") = InState(c, "resolving")
  <2> HIDE DEF h
  <2>1. \A s : InState(h, s) = IF s = "failed" THEN InState(c, s) \cup {k} ELSE InState(c, s) \ {k}
    BY <1>0, ObjectSet DEF h
  <2>2. InState(h, "active") = InState(c, "active") \ {k} /\ InState(h, "resolving") = InState(c, "resolving") \ {k}
    BY <2>1
  <2>3. h \in ConnRecords /\ SamePage(h, c) /\ SameClient(h, c) /\ h.resolvers = c.resolvers
    BY <1>0, ObjectSet DEF h
  <2> QED
    BY <2>2, <2>3
<1> HIDE DEF g, h, b
<1>4. ASSUME f = r PROVE ConnSafe(f)
  <2>1. n \in Nat /\ n = c.resolvers + 1
    BY <1>0, <1>2
  <2> HIDE DEF n
  <2>2. /\ r \in ConnRecords /\ SamePage(r, c) /\ SameClient(r, c) /\ r.resolvers = n /\ r.objects = g.objects
    BY <1>2, <2>1 DEF ConnRecords, SamePage, SameClient
  <2> HIDE DEF r
  <2>3. InState(r, "active") = InState(c, "active") /\ InState(r, "resolving") = InState(c, "resolving") \cup {k}
    BY <1>2, <2>2 DEF InState
  <2>4. PageRight(r) /\ ListedAreActive(r)
    BY <2>2, <2>3, SamePageFacts DEF ConnSafe, ListedAreActive
  <2>5. LookupsCounted(r)
    <3>1. IsFiniteSet(InState(c, "resolving")) /\ Cardinality(InState(c, "resolving")) <= c.resolvers
      BY DEF ConnSafe, LookupsCounted
    <3>2. /\ IsFiniteSet(InState(r, "resolving"))
          /\ Cardinality(InState(r, "resolving")) = Cardinality(InState(c, "resolving")) + 1
          /\ Cardinality(InState(c, "resolving")) \in Nat
      BY <2>3, <3>1, FS_AddElement, FS_CardinalityType
    <3> QED
      BY <1>0, <2>1, <2>2, <3>1, <3>2 DEF LookupsCounted, SameClient
  <2> QED
    BY <1>4, <2>2, <2>4, <2>5 DEF ConnSafe, DaemonAwaited, SameClient
<1>5. ASSUME f = OnAvahiError(h) PROVE ConnSafe(f)
  <2>1. PageRight(h) /\ ListedAreActive(h) /\ LookupsCounted(h) /\ DaemonAwaited(h)
    BY <1>3, SamePageFacts DEF ConnSafe, ListedAreActive, LookupsCounted, DaemonAwaited, SameClient
  <2>2. /\ PageRight(f) /\ SameDaemon(f, h)
        /\ \A j \in Services : Lists(f.items, j) <=> Lists(h.items, j)
    BY <1>5, <2>1, ErrorShown
  <2> QED
    BY <2>1, <2>2, SameDaemonFacts DEF ConnSafe, ListedAreActive
<1> QED
  BY <1>1, <1>4, <1>5

\* Fields that no invariant is about
LEMMA ToldSet ==
    ASSUME NEW c, ConnSafe(c), NEW T \in SUBSET Services
    PROVE  /\ ConnSafe([c EXCEPT !.told = T]) /\ SamePage([c EXCEPT !.told = T], c)
           /\ [c EXCEPT !.told = T].browser = c.browser
           /\ \A s : InState([c EXCEPT !.told = T], s) = InState(c, s)
<1> DEFINE f == [c EXCEPT !.told = T]
<1>1. f \in ConnRecords /\ SamePage(f, c) /\ SameDaemon(f, c)
  BY DEF ConnSafe, PageRight, ConnRecords, SamePage, SameDaemon
<1> HIDE DEF f
<1>2. ConnSafe(f) /\ f.browser = c.browser /\ \A s : InState(f, s) = InState(c, s)
  BY <1>1, SamePageFacts, SameDaemonFacts DEF ConnSafe, ListedAreActive, SameDaemon
<1> QED
  BY <1>1, <1>2 DEF f

LEMMA BrowserNewSafe == ConnSafe(conns) /\ BrowserNew => ConnSafe(conns')
<1> SUFFICES ASSUME ConnSafe(conns), BrowserNew PROVE ConnSafe(conns')
  OBVIOUS
<1>1. PICK k \in Services :
        /\ conns.browser
        /\ LET c == [conns EXCEPT !.told = @ \cup {k}]
           IN  conns' \in IF k \in InState(c, "active") \cup InState(c, "resolving") THEN {c}
                          ELSE Resolve(c, k)
  BY DEF BrowserNew
<1> DEFINE T == conns.told \cup {k}
           c == [conns EXCEPT !.told = T]
<1>2. T \in SUBSET Services
  BY DEF ConnSafe, PageRight, ConnRecords
<1>3. conns' \in IF k \in InState(c, "active") \cup InState(c, "resolving") THEN {c} ELSE Resolve(c, k)
  BY <1>1
<1> HIDE DEF T
<1>4. ConnSafe(c) /\ c.browser
  BY <1>1, <1>2, ToldSet
<1> HIDE DEF c
<1>5. CASE k \in InState(c, "active") \cup InState(c, "resolving")
  BY <1>3, <1>4, <1>5
<1>6. CASE k \notin InState(c, "active") \cup InState(c, "resolving")
  BY <1>3, <1>4, <1>6, ResolveSafe
<1> QED
  BY <1>5, <1>6

LEMMA ObjectDropped ==
    ASSUME NEW c \in ConnRecords, NEW k
    PROVE  LET f == [c EXCEPT !.objects = [j \in DOMAIN @ \ {k} |-> @[j]]]
           IN  /\ f \in ConnRecords /\ SamePage(f, c) /\ SameClient(f, c) /\ f.resolvers = c.resolvers
               /\ \A s : InState(f, s) = InState(c, s) \ {k}
<1> DEFINE o == [j \in DOMAIN c.objects \ {k} |-> c.objects[j]]
           f == [c EXCEPT !.objects = o]
<1>1. PICK D \in SUBSET Services : c.objects \in [D -> ObjectStates]
  BY DEF ConnRecords, Objects
<1>2. o \in [D \ {k} -> ObjectStates] /\ D \ {k} \in SUBSET Services
  BY <1>1
<1>3. o \in Objects
  BY <1>2 DEF Objects
<1>4. [c EXCEPT !.objects = [j \in DOMAIN @ \ {k} |-> @[j]]] = f
  OBVIOUS
<1>5. \A s : {j \in DOMAIN o : o[j] = s} = InState(c, s) \ {k}
  BY DEF InState
<1> HIDE DEF o
<1>6. /\ f \in ConnRecords /\ SamePage(f, c) /\ SameClient(f, c) /\ f.resolvers = c.resolvers
      /\ f.objects = o
  BY <1>3 DEF ConnRecords, SamePage, SameClient
<1>7. \A s : InState(f, s) = {j \in DOMAIN o : o[j] = s}
  BY <1>6 DEF InState
<1> HIDE DEF f
<1> QED
  BY <1>4, <1>5, <1>6, <1>7

\* The service is forgotten, its lookup, which is still counted, included.
LEMMA BrowserRemoveSafe ==
    ConnSafe(conns) /\ BrowserRemove =>
      /\ ConnSafe(conns')
      /\ ~conns.range =>
            \/ NameOf(conns'.items[conns'.cursor]) = NameOf(conns.items[conns.cursor])
            \/ \A i \in 1..Len(conns'.items) : NameOf(conns'.items[i]) # NameOf(conns.items[conns.cursor])
<1> SUFFICES ASSUME ConnSafe(conns), BrowserRemove
             PROVE  /\ ConnSafe(conns')
                    /\ ~conns.range =>
                       \/ NameOf(conns'.items[conns'.cursor]) = NameOf(conns.items[conns.cursor])
                       \/ \A i \in 1..Len(conns'.items) :
                             NameOf(conns'.items[i]) # NameOf(conns.items[conns.cursor])
  OBVIOUS
<1>1. PICK k \in Services :
        LET c == [conns EXCEPT !.told = @ \ {k}]
            heard == IF k \in InState(c, "active") THEN RemoveObject(c, k) ELSE c
        IN  conns' = [heard EXCEPT !.objects = [j \in DOMAIN @ \ {k} |-> @[j]]]
  BY DEF BrowserRemove
<1> DEFINE T == conns.told \ {k}
           c == [conns EXCEPT !.told = T]
           heard == IF k \in InState(c, "active") THEN RemoveObject(c, k) ELSE c
<1>2. T \in SUBSET Services
  BY DEF ConnSafe, PageRight, ConnRecords
<1>3. conns' = [heard EXCEPT !.objects = [j \in DOMAIN @ \ {k} |-> @[j]]]
  BY <1>1
<1> HIDE DEF T
<1>4. ConnSafe(c) /\ SamePage(c, conns)
  BY <1>2, ToldSet
<1> HIDE DEF c
<1>5. /\ PageRight(heard) /\ SameDaemon(heard, c)
      /\ \A j \in Services : Lists(heard.items, j) <=> Lists(c.items, j) /\ j # k
      /\ ~c.range => \/ NameOf(heard.items[heard.cursor]) = NameOf(c.items[c.cursor])
                     \/ \A i \in 1..Len(heard.items) : NameOf(heard.items[i]) # NameOf(c.items[c.cursor])
  <2>1. CASE k \in InState(c, "active")
    <3>1. PageRight(c) /\ Lists(c.items, k) /\ heard = RemoveObject(c, k)
      BY <1>4, <2>1 DEF ConnSafe, ListedAreActive
    <3> HIDE DEF heard
    <3> QED
      BY <3>1, RemoveObjectRight
  <2>2. CASE k \notin InState(c, "active")
    <3>1. PageRight(c) /\ ~Lists(c.items, k) /\ heard = c
      BY <1>4, <2>2 DEF ConnSafe, ListedAreActive
    <3> HIDE DEF heard
    <3> QED
      BY <3>1 DEF SameDaemon
  <2> QED
    BY <2>1, <2>2
<1> HIDE DEF heard
<1>6. heard \in ConnRecords
  BY <1>5 DEF PageRight
<1>7. /\ conns' \in ConnRecords /\ SamePage(conns', heard) /\ SameClient(conns', heard)
      /\ conns'.resolvers = heard.resolvers
      /\ \A s : InState(conns', s) = InState(heard, s) \ {k}
  BY <1>3, <1>6, ObjectDropped
<1>8. \A s : InState(heard, s) = InState(c, s)
  BY <1>5, SameDaemonFacts
<1>9. PageRight(conns') /\ \A j : Lists(conns'.items, j) <=> Lists(heard.items, j)
  BY <1>5, <1>7, SamePageFacts
<1>10. ListedAreActive(conns')
  BY <1>4, <1>5, <1>7, <1>8, <1>9 DEF ConnSafe, ListedAreActive
<1>11. LookupsCounted(conns')
  <2>1. /\ IsFiniteSet(InState(c, "resolving")) /\ Cardinality(InState(c, "resolving")) <= c.resolvers
        /\ c.resolvers \in Nat /\ (~c.browser => c.resolvers = 0)
    BY <1>4 DEF ConnSafe, LookupsCounted, PageRight, ConnRecords
  <2>2. InState(conns', "resolving") \subseteq InState(c, "resolving")
    BY <1>7, <1>8
  <2>3. /\ IsFiniteSet(InState(conns', "resolving"))
        /\ Cardinality(InState(conns', "resolving")) <= Cardinality(InState(c, "resolving"))
    BY <2>1, <2>2, FS_Subset
  <2>4. Cardinality(InState(conns', "resolving")) \in Nat /\ Cardinality(InState(c, "resolving")) \in Nat
    BY <2>1, <2>3, FS_CardinalityType
  <2>5. conns'.resolvers = c.resolvers /\ conns'.browser = c.browser
    BY <1>5, <1>7 DEF SameDaemon, SameClient
  <2> QED
    BY <2>1, <2>3, <2>4, <2>5 DEF LookupsCounted
<1>12. DaemonAwaited(conns')
  BY <1>4, <1>5, <1>7 DEF ConnSafe, DaemonAwaited, SameDaemon, SameClient
<1> QED
  BY <1>4, <1>5, <1>7, <1>9, <1>10, <1>11, <1>12 DEF ConnSafe, SamePage

LEMMA BrowserAllForNowSafe == ConnSafe(conns) /\ BrowserAllForNow => ConnSafe(conns')
<1> SUFFICES ASSUME ConnSafe(conns), BrowserAllForNow PROVE ConnSafe(conns')
  OBVIOUS
<1>1. conns' \in ConnRecords /\ SamePage(conns', conns) /\ SameDaemon(conns', conns)
  BY DEF BrowserAllForNow, ConnSafe, PageRight, ConnRecords, SamePage, SameDaemon
<1> QED
  BY <1>1, SamePageFacts, SameDaemonFacts DEF ConnSafe, ListedAreActive

\* A lookup ends, which is counted off.
LEMMA ResolvedSafe ==
    ASSUME NEW c, PageRight(c), DaemonAwaited(c), ListedAreActive(c), c.resolvers >= 1,
           IsFiniteSet(InState(c, "resolving")), Cardinality(InState(c, "resolving")) <= c.resolvers - 1,
           c.browser, NEW k
    PROVE  ConnSafe(Resolved(c, k)) /\ SamePage(Resolved(c, k), c)
<1> DEFINE left == c.resolvers - 1
           p == c.pending /\ left > 0
           f == [c EXCEPT !.resolvers = left, !.pending = p]
<1>1. left \in Nat /\ p \in BOOLEAN
  BY DEF PageRight, ConnRecords
<1>2. Resolved(c, k) = f
  BY DEF Resolved, PageRight, ConnRecords
<1>3. Cardinality(InState(c, "resolving")) <= left
  OBVIOUS
<1> HIDE DEF left, p
<1>4. f \in ConnRecords /\ SamePage(f, c) /\ SameClient(f, c) /\ f.objects = c.objects /\ f.resolvers = left
  BY <1>1 DEF PageRight, ConnRecords, SamePage, SameClient
<1> HIDE DEF f
<1>5. \A s : InState(f, s) = InState(c, s)
  BY <1>4 DEF InState
<1>6. PageRight(f) /\ ListedAreActive(f) /\ LookupsCounted(f) /\ DaemonAwaited(f)
  BY <1>3, <1>4, <1>5, SamePageFacts DEF ListedAreActive, LookupsCounted, DaemonAwaited, SameClient
<1> QED
  BY <1>2, <1>4, <1>6 DEF ConnSafe

\* The object that is looked up leaves the set of those that are.
LEMMA LookupEnds ==
    ASSUME NEW c, ConnSafe(c), NEW k \in InState(c, "resolving"), NEW R, R = InState(c, "resolving") \ {k}
    PROVE  /\ k \in Services /\ k \notin InState(c, "active") /\ c.browser /\ c.resolvers >= 1
           /\ IsFiniteSet(R) /\ Cardinality(R) <= c.resolvers - 1
<1>1. PICK D \in SUBSET Services : c.objects \in [D -> ObjectStates]
  BY DEF ConnSafe, PageRight, ConnRecords, Objects
<1>2. k \in Services /\ k \notin InState(c, "active")
  BY <1>1 DEF InState
<1>3. /\ IsFiniteSet(InState(c, "resolving")) /\ Cardinality(InState(c, "resolving")) <= c.resolvers
      /\ c.resolvers \in Nat /\ (~c.browser => c.resolvers = 0)
  BY DEF ConnSafe, LookupsCounted, PageRight, ConnRecords
<1>4. IsFiniteSet(R) /\ Cardinality(R) = Cardinality(InState(c, "resolving")) - 1
  BY <1>3, FS_RemoveElement
<1>5. Cardinality(R) \in Nat /\ Cardinality(InState(c, "resolving")) \in Nat
  BY <1>3, <1>4, FS_CardinalityType
<1> QED
  BY <1>2, <1>3, <1>4, <1>5

\* The address is known: the service is listed.
LEMMA ResolverFoundSafe ==
    ConnSafe(conns) /\ ResolverFound =>
      /\ ConnSafe(conns')
      /\ ~conns.range =>
            \/ NameOf(conns'.items[conns'.cursor]) = NameOf(conns.items[conns.cursor])
            \/ \A i \in 1..Len(conns'.items) : NameOf(conns'.items[i]) # NameOf(conns.items[conns.cursor])
<1> SUFFICES ASSUME ConnSafe(conns), NEW k \in InState(conns, "resolving"),
                    conns' = Resolved(NewObject(SetObject(conns, k, "active"), k), k)
             PROVE  /\ ConnSafe(conns')
                    /\ ~conns.range =>
                       \/ NameOf(conns'.items[conns'.cursor]) = NameOf(conns.items[conns.cursor])
                       \/ \A i \in 1..Len(conns'.items) :
                             NameOf(conns'.items[i]) # NameOf(conns.items[conns.cursor])
  BY DEF ResolverFound
<1> DEFINE R == InState(conns, "resolving") \ {k}
           c == SetObject(conns, k, "active")
           h == NewObject(c, k)
<1>1. /\ k \in Services /\ k \notin InState(conns, "active") /\ conns.browser /\ conns.resolvers >= 1
      /\ IsFiniteSet(R) /\ Cardinality(R) <= conns.resolvers - 1
  BY LookupEnds
<1>2. conns \in ConnRecords /\ "active" \in ObjectStates
  BY DEF ConnSafe, PageRight, ObjectStates
<1> HIDE DEF c
<1>3. /\ c \in ConnRecords /\ SamePage(c, conns) /\ SameClient(c, conns) /\ c.resolvers = conns.resolvers
      /\ InState(c, "active") = InState(conns, "active") \cup {k} /\ InState(c, "resolving") = R
  <2>1. \A s : InState(c, s) = IF s = "active" THEN InState(conns, s) \cup {k} ELSE InState(conns, s) \ {k}
    BY <1>1, <1>2, ObjectSet DEF c
  <2>2. c \in ConnRecords /\ SamePage(c, conns) /\ SameClient(c, conns) /\ c.resolvers = conns.resolvers
    BY <1>1, <1>2, ObjectSet DEF c
  <2> QED
    BY <2>1, <2>2
<1>4. PageRight(c) /\ \A j : Lists(c.items, j) <=> Lists(conns.items, j)
  BY <1>3, SamePageFacts DEF ConnSafe
<1>5. ~Lists(c.items, k)
  BY <1>1, <1>4 DEF ConnSafe, ListedAreActive
<1> HIDE DEF h
<1>6. /\ PageRight(h) /\ SameDaemon(h, c)
      /\ \A j \in Services : Lists(h.items, j) <=> Lists(c.items, j) \/ j = k
      /\ ~c.range => \/ NameOf(h.items[h.cursor]) = NameOf(c.items[c.cursor])
                     \/ \A i \in 1..Len(h.items) : NameOf(h.items[i]) # NameOf(c.items[c.cursor])
  BY <1>1, <1>4, <1>5, NewObjectRight DEF h
<1>7. \A s : InState(h, s) = InState(c, s)
  BY <1>6, SameDaemonFacts
<1>8. ListedAreActive(h)
  BY <1>3, <1>4, <1>6, <1>7 DEF ConnSafe, ListedAreActive
<1>9. DaemonAwaited(h) /\ h.browser /\ h.resolvers = conns.resolvers
  BY <1>1, <1>3, <1>6 DEF ConnSafe, DaemonAwaited, SameDaemon, SameClient
<1>10. InState(h, "resolving") = R
  BY <1>3, <1>7
<1> HIDE DEF R
<1>11. ConnSafe(Resolved(h, k)) /\ SamePage(Resolved(h, k), h)
  BY <1>1, <1>6, <1>8, <1>9, <1>10, ResolvedSafe
<1> QED
  BY <1>3, <1>6, <1>11 DEF SamePage, h, c

LEMMA ResolverFailedSafe == ConnSafe(conns) /\ ResolverFailed => ConnSafe(conns')
<1> SUFFICES ASSUME ConnSafe(conns), NEW k \in InState(conns, "resolving"),
                    conns' = Resolved(SetObject(conns, k, "failed"), k)
             PROVE  ConnSafe(conns')
  BY DEF ResolverFailed
<1> DEFINE R == InState(conns, "resolving") \ {k}
           c == SetObject(conns, k, "failed")
<1>1. /\ k \in Services /\ k \notin InState(conns, "active") /\ conns.browser /\ conns.resolvers >= 1
      /\ IsFiniteSet(R) /\ Cardinality(R) <= conns.resolvers - 1
  BY LookupEnds
<1>2. conns \in ConnRecords /\ "failed" \in ObjectStates
  BY DEF ConnSafe, PageRight, ObjectStates
<1> HIDE DEF c
<1>3. /\ c \in ConnRecords /\ SamePage(c, conns) /\ SameClient(c, conns) /\ c.resolvers = conns.resolvers
      /\ InState(c, "active") = InState(conns, "active") /\ InState(c, "resolving") = R
  <2>1. \A s : InState(c, s) = IF s = "failed" THEN InState(conns, s) \cup {k} ELSE InState(conns, s) \ {k}
    BY <1>1, <1>2, ObjectSet DEF c
  <2>2. c \in ConnRecords /\ SamePage(c, conns) /\ SameClient(c, conns) /\ c.resolvers = conns.resolvers
    BY <1>1, <1>2, ObjectSet DEF c
  <2>3. InState(c, "active") = InState(conns, "active") \ {k}
    BY <2>1
  <2> QED
    BY <1>1, <2>1, <2>2, <2>3
<1>4. PageRight(c) /\ ListedAreActive(c)
  BY <1>3, SamePageFacts DEF ConnSafe, ListedAreActive
<1>5. DaemonAwaited(c) /\ c.browser
  BY <1>1, <1>3 DEF ConnSafe, DaemonAwaited, SameClient
<1> HIDE DEF R
<1>6. ConnSafe(Resolved(c, k))
  BY <1>1, <1>3, <1>4, <1>5, ResolvedSafe
<1> QED
  BY <1>6 DEF c

LEMMA OnAvahiReconnectSafe == ConnSafe(conns) /\ OnAvahiReconnect => ConnSafe(conns')
<1> SUFFICES ASSUME ConnSafe(conns), OnAvahiReconnect PROVE ConnSafe(conns')
  OBVIOUS
<1>1. CASE conns' = [conns EXCEPT !.timer = FALSE, !.client = TRUE]
  <2>1. /\ conns' \in ConnRecords /\ SamePage(conns', conns) /\ conns'.objects = conns.objects
        /\ conns'.resolvers = conns.resolvers /\ conns'.browser = conns.browser
        /\ conns'.timer = FALSE /\ conns'.client = TRUE
    BY <1>1 DEF ConnSafe, PageRight, ConnRecords, SamePage
  <2>2. \A s : InState(conns', s) = InState(conns, s)
    BY <2>1 DEF InState
  <2> QED
    BY <2>1, <2>2, SamePageFacts DEF ConnSafe, ListedAreActive, LookupsCounted, DaemonAwaited
<1>2. CASE conns' = OnAvahiError(conns)
  BY <1>2, ErrorShown, SameDaemonFacts DEF ConnSafe, ListedAreActive
<1> QED
  BY <1>1, <1>2 DEF OnAvahiReconnect

LEMMA ClientRunningSafe == ConnSafe(conns) /\ ClientRunning => ConnSafe(conns')
<1> SUFFICES ASSUME ConnSafe(conns), ClientRunning PROVE ConnSafe(conns')
  OBVIOUS
<1> DEFINE c == [conns EXCEPT !.connected = TRUE]
           b == [c EXCEPT !.browser = TRUE]
<1>1. conns.client /\ (conns' = c \/ conns' = b \/ conns' = OnAvahiError(c))
  BY DEF ClientRunning, ConnectTo
<1>2. ConnSafe(c) /\ c.client
  <2>1. /\ c \in ConnRecords /\ SamePage(c, conns) /\ c.objects = conns.objects
        /\ c.resolvers = conns.resolvers /\ c.browser = conns.browser
        /\ c.timer = conns.timer /\ c.client = conns.client
    BY DEF ConnSafe, PageRight, ConnRecords, SamePage
  <2> HIDE DEF c
  <2>2. \A s : InState(c, s) = InState(conns, s)
    BY <2>1 DEF InState
  <2> QED
    BY <1>1, <2>1, <2>2, SamePageFacts DEF ConnSafe, ListedAreActive, LookupsCounted, DaemonAwaited
<1> HIDE DEF c
<1>3. ConnSafe(b)
  <2>1. /\ b \in ConnRecords /\ SamePage(b, c) /\ b.objects = c.objects
        /\ b.resolvers = c.resolvers /\ b.browser = TRUE
        /\ b.timer = c.timer /\ b.client = c.client /\ b.connected = c.connected
    BY <1>2 DEF ConnSafe, PageRight, ConnRecords, SamePage
  <2> HIDE DEF b
  <2>2. \A s : InState(b, s) = InState(c, s)
    BY <2>1 DEF InState
  <2> QED
    BY <1>2, <2>1, <2>2, SamePageFacts DEF ConnSafe, ListedAreActive, LookupsCounted, DaemonAwaited
<1>4. ConnSafe(OnAvahiError(c))
  BY <1>2, ErrorShown, SameDaemonFacts DEF ConnSafe, ListedAreActive
<1> QED
  BY <1>1, <1>2, <1>3, <1>4

LEMMA ClientChangedSafe == ConnSafe(conns) /\ ClientChanged => ConnSafe(conns')
<1> SUFFICES ASSUME ConnSafe(conns), ClientChanged PROVE ConnSafe(conns')
  OBVIOUS
<1>1. /\ conns' \in ConnRecords /\ SamePage(conns', conns) /\ conns'.objects = conns.objects
      /\ conns'.resolvers = conns.resolvers /\ conns'.browser = conns.browser
      /\ conns'.timer = conns.timer /\ conns'.client = conns.client /\ conns'.connected = FALSE
  BY DEF ClientChanged, ConnSafe, PageRight, ConnRecords, SamePage
<1>2. \A s : InState(conns', s) = InState(conns, s)
  BY <1>1 DEF InState
<1> QED
  BY <1>1, <1>2, SamePageFacts DEF ConnSafe, ListedAreActive, LookupsCounted, DaemonAwaited

\* The services whose address is known stay known, and stay listed.
LEMMA ClientFailureSafe == ConnSafe(conns) /\ ClientFailure => ConnSafe(conns')
<1> SUFFICES ASSUME ConnSafe(conns), ClientFailure PROVE ConnSafe(conns')
  OBVIOUS
<1> DEFINE o == [k \in DOMAIN conns.objects |->
                   IF conns.objects[k] = "resolving" THEN "failed" ELSE conns.objects[k]]
           z == 0
           d == [conns EXCEPT !.objects = o, !.browser = FALSE, !.told = {}, !.allTold = FALSE]
           e == [d EXCEPT !.resolvers = z]
           f == [e EXCEPT !.client = FALSE, !.connected = FALSE, !.timer = FALSE]
           c == [f EXCEPT !.timer = TRUE]
<1>1. conns' = c \/ conns' = OnAvahiError(c)
  <2>1. \E error \in BOOLEAN :
          LET a == [Close(conns) EXCEPT !.timer = TRUE] IN conns' = IF error THEN OnAvahiError(a) ELSE a
    BY DEF ClientFailure
  <2>2. Close(conns) = f
    BY DEF Close, DropConnection, DisconnectCounting
  <2> HIDE DEF f
  <2> QED
    BY <2>1, <2>2
<1>2. PICK D \in SUBSET Services : conns.objects \in [D -> ObjectStates]
  BY DEF ConnSafe, PageRight, ConnRecords, Objects
<1>3. o \in Objects /\ z \in Nat
  <2>1. o \in [D -> ObjectStates]
    BY <1>2 DEF ObjectStates
  <2> HIDE DEF o
  <2> QED
    BY <2>1 DEF Objects
<1>4. {k \in DOMAIN o : o[k] = "active"} = InState(conns, "active") /\ {k \in DOMAIN o : o[k] = "resolving"} = {}
  BY <1>2 DEF InState
<1> HIDE DEF o, z
<1>5. d \in ConnRecords /\ SamePage(d, conns) /\ d.objects = o /\ d.browser = FALSE
  BY <1>3 DEF ConnSafe, PageRight, ConnRecords, SamePage
<1> HIDE DEF d
<1>6. e \in ConnRecords /\ SamePage(e, conns) /\ e.objects = o /\ e.browser = FALSE /\ e.resolvers = z
  BY <1>3, <1>5 DEF ConnRecords, SamePage
<1> HIDE DEF e
<1>7. /\ c \in ConnRecords /\ SamePage(c, conns) /\ c.objects = o /\ c.browser = FALSE /\ c.resolvers = z
      /\ c.client = FALSE /\ c.connected = FALSE /\ c.timer = TRUE
  BY <1>6 DEF ConnRecords, SamePage
<1> HIDE DEF c
<1>8. InState(c, "active") = InState(conns, "active") /\ InState(c, "resolving") = {}
  BY <1>4, <1>7 DEF InState
<1>9. LookupsCounted(c)
  <2>1. IsFiniteSet({}) /\ Cardinality({}) = 0
    BY FS_EmptySet
  <2> QED
    BY <1>7, <1>8, <2>1 DEF LookupsCounted, z
<1>10. ConnSafe(c)
  BY <1>7, <1>8, <1>9, SamePageFacts DEF ConnSafe, ListedAreActive, DaemonAwaited
<1>11. ConnSafe(OnAvahiError(c))
  BY <1>10, ErrorShown, SameDaemonFacts DEF ConnSafe, ListedAreActive
<1> QED
  BY <1>1, <1>10, <1>11

LEMMA ConnInitSafe == ConnectionsInit => ConnSafe(conns)
<1> DEFINE o == <<>>
<1> SUFFICES ASSUME NEW l \in Configured,
                    conns = [client |-> FALSE, connected |-> FALSE, timer |-> TRUE,
                             browser |-> FALSE, told |-> {}, allTold |-> FALSE,
                             objects |-> o, resolvers |-> 0, pending |-> FALSE,
                             items |-> l, cursor |-> 1, range |-> FALSE,
                             target |-> Default, active |-> {}, dirty |-> TRUE]
             PROVE  ConnSafe(conns)
  BY DEF ConnectionsInit
<1>1. o \in Objects
  <2>1. o \in [{} -> ObjectStates] /\ {} \in SUBSET Services
    OBVIOUS
  <2> HIDE DEF o
  <2> QED
    BY <2>1 DEF Objects
<1>2. /\ l \in Seq(Lines) /\ Len(l) \in 1..2 /\ l[1] = Default
      /\ \A i \in 2..Len(l) : i = 2 /\ l[i] = Fallback
  <2>1. CASE l = <<Default>>
    <3>1. l \in Seq(Lines) /\ Len(l) = 1 /\ l[1] = Default
      BY <2>1 DEF Lines
    <3> QED
      BY <3>1
  <2>2. CASE l = <<Default, Fallback>>
    <3>1. l \in Seq(Lines) /\ Len(l) = 2 /\ l[1] = Default /\ l[2] = Fallback
      BY <2>2 DEF Lines
    <3> QED
      BY <3>1
  <2> QED
    BY <2>1, <2>2 DEF Configured
<1>3. {k \in DOMAIN o : o[k] = "active"} = {} /\ {k \in DOMAIN o : o[k] = "resolving"} = {}
  OBVIOUS
<1> HIDE DEF o
<1>4. /\ conns \in ConnRecords /\ conns.items = l /\ conns.objects = o /\ conns.resolvers = 0
      /\ conns.cursor = 1 /\ conns.dirty = TRUE /\ conns.target = Default
      /\ conns.client = FALSE /\ conns.timer = TRUE /\ conns.connected = FALSE /\ conns.browser = FALSE
  BY <1>1, <1>2 DEF ConnRecords, KnownServers
<1>5. ServerList(l)
  <2>1. \A i \in 1..Len(l) : (i = 1 /\ l[i] = Default) \/ (i = 2 /\ l[i] = Fallback)
    <3>1. \A i \in 1..Len(l) : i = 1 \/ i \in 2..Len(l)
      BY <1>2
    <3> QED
      BY <1>2, <3>1
  <2>2. Len(l) >= 1 /\ \A i, j \in 1..Len(l) : l[i] = l[j] => i = j
    BY <1>2, <2>1, LineKinds
  <2> QED
    BY <1>2, <2>1, <2>2, LineKinds DEF ServerList
<1>6. PageRight(conns)
  <2>1. conns.target \notin Services
    BY <1>4, LineKinds
  <2>2. conns.cursor \in 1..Len(conns.items)
    <3>1. conns.items = l /\ conns.cursor = 1
      BY <1>4, Zenon
    <3> QED
      BY <1>2, <3>1
  <2> QED
    BY <1>4, <1>5, <2>1, <2>2 DEF PageRight
<1>7. ListedAreActive(conns)
  <2>1. \A k \in Services : ~Lists(l, k)
    <3>1. \A i \in 1..Len(l) : l[i] = Default \/ l[i] = Fallback
      BY <1>2
    <3> QED
      BY <3>1, LineKinds DEF Lists
  <2> QED
    BY <1>3, <1>4, <2>1 DEF ListedAreActive, InState
<1>8. LookupsCounted(conns)
  <2>1. IsFiniteSet({}) /\ Cardinality({}) = 0
    BY FS_EmptySet
  <2> QED
    BY <1>3, <1>4, <2>1 DEF LookupsCounted, InState
<1> QED
  BY <1>4, <1>6, <1>7, <1>8 DEF ConnSafe, DaemonAwaited

LEMMA ConnStep == ConnSafe(conns) /\ [ConnectionsNext]_conns => ConnSafe(conns')
<1> SUFFICES ASSUME ConnSafe(conns), ConnectionsNext PROVE ConnSafe(conns')
  OBVIOUS
<1> QED
  BY ActivateItemSafe, MoveToItemSafe, FallBackSafe, DrawConnectionsSafe, BrowserNewSafe, BrowserRemoveSafe,
     BrowserAllForNowSafe, ResolverFoundSafe, ResolverFailedSafe, OnAvahiReconnectSafe, ClientRunningSafe,
     ClientChangedSafe, ClientFailureSafe
     DEF ConnectionsNext

LEMMA ConnSafeIsRight ==
    ConnSafe(conns) => /\ ConnectionsTypeOK /\ ServersListed /\ ResolversCounted /\ Reconnects
                      /\ ActiveMarked
<1> SUFFICES ASSUME ConnSafe(conns)
             PROVE  /\ ConnectionsTypeOK /\ ServersListed /\ ResolversCounted /\ Reconnects
                    /\ ActiveMarked
  OBVIOUS
<1>1. Range(conns.items) = Listed(conns) /\ Listed(conns) \subseteq Lines
  BY RangeIsListed DEF ConnSafe, Listed
<1>2. conns.items \in Seq(Lines) /\ DOMAIN conns.items = 1..Len(conns.items) /\ Len(conns.items) \in Nat
  BY LenProperties DEF ConnSafe, PageRight, ServerList
<1>3. ConnectionsTypeOK
  BY <1>1 DEF ConnectionsTypeOK, ConnSafe, PageRight, ConnRecords, Lines, KnownServers
<1>4. IsInjective(conns.items)
  BY <1>2 DEF IsInjective, ConnSafe, PageRight, ServerList
<1>5. Range(conns.items) \cap Services = InState(conns, "active")
  <2>1. InState(conns, "active") \subseteq Services
    <3>1. PICK D \in SUBSET Services : conns.objects \in [D -> ObjectStates]
      BY DEF ConnSafe, PageRight, ConnRecords, Objects
    <3> QED
      BY <3>1 DEF InState
  <2> QED
    BY <1>1, <2>1 DEF Listed, ConnSafe, ListedAreActive, Lines
<1>6. Error \in Range(conns.items) => Last(conns.items) = Error
  BY <1>1, <1>2 DEF Listed, Lists, Last, ConnSafe, PageRight, ServerList
<1>7. ResolversCounted
  <2>1. Cardinality(InState(conns, "resolving")) \in Nat
    BY FS_CardinalityType DEF ConnSafe, LookupsCounted
  <2> QED
    BY <2>1 DEF ResolversCounted, ConnSafe, LookupsCounted, PageRight, ConnRecords
<1>8. Reconnects /\ ActiveMarked
  BY <1>1 DEF Reconnects, ActiveMarked, ConnSafe, DaemonAwaited, PageRight
<1> QED
  BY <1>3, <1>4, <1>5, <1>6, <1>7, <1>8 DEF ServersListed

LEMMA CursorStays ==
    ConnSafe(conns) /\ [ConnectionsNext]_conns =>
      [LET name(c) == NameOf(c.items[c.cursor])
       IN  (BrowserRemove \/ ResolverFound) /\ ~conns.range
             => \/ name(conns') = name(conns)
                \/ \A i \in Range(conns'.items) : NameOf(i) # name(conns)]_conns
<1> SUFFICES ASSUME ConnSafe(conns), BrowserRemove \/ ResolverFound, ~conns.range
             PROVE  \/ NameOf(conns'.items[conns'.cursor]) = NameOf(conns.items[conns.cursor])
                    \/ \A i \in Range(conns'.items) : NameOf(i) # NameOf(conns.items[conns.cursor])
  OBVIOUS
<1>1. /\ ConnSafe(conns')
      /\ \/ NameOf(conns'.items[conns'.cursor]) = NameOf(conns.items[conns.cursor])
         \/ \A i \in 1..Len(conns'.items) : NameOf(conns'.items[i]) # NameOf(conns.items[conns.cursor])
  BY BrowserRemoveSafe, ResolverFoundSafe
<1>2. DOMAIN conns'.items = 1..Len(conns'.items)
  BY <1>1, LenProperties DEF ConnSafe, PageRight, ServerList
<1> QED
  BY <1>1, <1>2 DEF Range

\* Whatever order services, lookups and daemons come and go in, every server that is known is
\* listed once, before an error message; no lookup is uncounted, ncmpc gets its daemon back, and
\* the cursor stays with the server it is on.
THEOREM ServersAreAsAnnounced == ConnectionsSpec => ServersAreKnown
<1>1. ConnectionsInit => ConnSafe(conns)
  BY ConnInitSafe
<1>2. ConnSafe(conns) /\ [ConnectionsNext]_conns => ConnSafe(conns)'
  BY ConnStep
<1>3. ConnSafe(conns) => ConnectionsTypeOK /\ ServersListed /\ ResolversCounted /\ Reconnects /\ ActiveMarked
  BY ConnSafeIsRight
<1>4. ConnSafe(conns) /\ [ConnectionsNext]_conns =>
        [LET name(c) == NameOf(c.items[c.cursor])
         IN  (BrowserRemove \/ ResolverFound) /\ ~conns.range
               => \/ name(conns') = name(conns)
                  \/ \A i \in Range(conns'.items) : NameOf(i) # name(conns)]_conns
  BY CursorStays
<1> QED
  BY <1>1, <1>2, <1>3, <1>4, PTL DEF ConnectionsSpec, ServersAreKnown, CursorKeepsServer

-----------------------------------------------------------------------------
(* The outputs page: what MPD lists *)

AllItems ==
    {OutputItem(o, on) : o \in Outputs, on \in BOOLEAN} \cup {PartitionItem(p) : p \in Partitions} \cup {NewPartition}

OutRecords ==
    [on : SUBSET Outputs, home : [Outputs -> Partitions], parts : SUBSET Partitions, mine : Partitions,
     news : SUBSET ViewFlags, parted : BOOLEAN, conn : BOOLEAN, idle : BOOLEAN,
     status : Partitions \cup {NoPartition}, events : SUBSET ViewFlags, dirty : BOOLEAN,
     items : Seq(AllItems), length : Nat, cursor : Nat \ {0}, range : BOOLEAN,
     active : Partitions \cup {NoPartition}, dialog : BOOLEAN]

\* The lines of the page
LinesOf(s) ==
    {OutputItem(o, o \in s.on) : o \in {u \in Outputs : s.home[u] = s.mine}}
      \cup IF s.parted THEN {PartitionItem(p) : p \in s.parts} \cup {NewPartition} ELSE {}

LEMMA Bounds == NOutputs \in Nat /\ NPartitions \in Nat /\ MainPartition \in Partitions /\ NoPartition \notin Partitions
BY OutputsAssumption DEF MainPartition, NoPartition, Partitions

LEMMA OutputLinesFacts ==
    ASSUME NEW s \in OutRecords
    PROVE  /\ OutputLines(s) \in Seq(AllItems)
           /\ Range(OutputLines(s)) = {OutputItem(o, o \in s.on) : o \in {u \in Outputs : s.home[u] = s.mine}}
<1> DEFINE S == {o \in Outputs : s.home[o] = s.mine}
           own == SetToSeq(S)
           n == Cardinality(S)
           l == [i \in DOMAIN own |-> OutputItem(own[i], own[i] \in s.on)]
<1>1. n \in Nat /\ own \in [1..n -> S] /\ Range(own) = S
  <2>1. S \in SUBSET (1..NOutputs)
    BY DEF Outputs
  <2> HIDE DEF S
  <2> QED
    BY <2>1, Bounds, SetListed
<1>2. OutputLines(s) = l
  BY DEF OutputLines
<1>3. S \subseteq Outputs
  OBVIOUS
<1> HIDE DEF S, own, n
<1>4. l \in [1..n -> AllItems]
  <2>1. ASSUME NEW o \in Outputs PROVE OutputItem(o, o \in s.on) \in AllItems
    <3>1. \A b \in BOOLEAN : OutputItem(o, b) \in AllItems
      BY DEF AllItems
    <3>2. (o \in s.on) \in BOOLEAN
      OBVIOUS
    <3> QED
      BY <3>1, <3>2, Zenon
  <2> QED
    BY <1>1, <1>3, <2>1
<1>5. l \in Seq(AllItems)
  <2> HIDE DEF l
  <2> QED
    BY <1>1, <1>4, SeqDef
<1>6. Range(l) = {OutputItem(o, o \in s.on) : o \in S}
  BY <1>1 DEF Range
<1> QED
  BY <1>2, <1>5, <1>6 DEF S

LEMMA PartitionLinesFacts ==
    ASSUME NEW s \in OutRecords
    PROVE  /\ PartitionLines(s) \in Seq(AllItems)
           /\ Range(PartitionLines(s)) = IF s.parted THEN {PartitionItem(p) : p \in s.parts} \cup {NewPartition} ELSE {}
<1> DEFINE S == s.parts
           parts == SetToSeq(S)
           n == Cardinality(S)
           l == [i \in DOMAIN parts |-> PartitionItem(parts[i])]
           m == <<NewPartition>>
<1>1. n \in Nat /\ parts \in [1..n -> S] /\ Range(parts) = S
  <2>1. S \in SUBSET (1..NPartitions)
    BY DEF Partitions, OutRecords
  <2> HIDE DEF S
  <2> QED
    BY <2>1, Bounds, SetListed
<1>2. PartitionLines(s) = IF s.parted THEN l \o m ELSE <<>>
  BY DEF PartitionLines
<1>3. S \subseteq Partitions
  BY DEF OutRecords
<1> HIDE DEF S, parts, n
<1>4. l \in [1..n -> AllItems]
  BY <1>1, <1>3 DEF AllItems
<1>5. l \in Seq(AllItems)
  <2> HIDE DEF l
  <2> QED
    BY <1>1, <1>4, SeqDef
<1>6. Range(l) = {PartitionItem(p) : p \in S}
  BY <1>1 DEF Range
<1>7. m \in Seq(AllItems) /\ Range(m) = {NewPartition}
  BY DEF AllItems, Range
<1>8. <<>> \in Seq(AllItems) /\ Range(<<>>) = {}
  BY DEF Range
<1> HIDE DEF l, m
<1>9. l \o m \in Seq(AllItems) /\ Range(l \o m) = Range(l) \cup Range(m)
  BY <1>5, <1>7, RangeJoined, JoinFacts
<1> QED
  BY <1>2, <1>6, <1>7, <1>8, <1>9 DEF S

LEMMA LinesFacts ==
    ASSUME NEW s \in OutRecords
    PROVE  LinesOf(s) = Range(OutputLines(s) \o PartitionLines(s))
BY OutputLinesFacts, PartitionLinesFacts, RangeJoined DEF LinesOf

-----------------------------------------------------------------------------
(* Its list window *)

\* What no update changes, what only the talk with MPD does, and the list
Untold(f, s) ==
    /\ f.on = s.on /\ f.home = s.home /\ f.parts = s.parts /\ f.parted = s.parted
    /\ f.dirty = s.dirty /\ f.dialog = s.dialog

SameTalk(f, s) ==
    /\ f.mine = s.mine /\ f.news = s.news /\ f.conn = s.conn /\ f.idle = s.idle
    /\ f.status = s.status /\ f.events = s.events /\ f.active = s.active

SameList(f, s) == f.items = s.items /\ f.length = s.length /\ f.cursor = s.cursor /\ f.range = s.range

Sized(s) == s.length = Len(s.items) /\ (s.cursor <= s.length \/ s.cursor = 1)

HasHash(s, hash) == \E item \in Range(s.items) : HashOf(item) = hash

\* The cursor stays with what it is on, if that is still listed.
Follows(s, f) ==
    \A hash \in CursorHashes(s) : hash = NoHash \/ CursorHashes(f) = {hash} \/ ~HasHash(f, hash)

LEMMA ItemsAreLists ==
    ASSUME NEW s \in OutRecords
    PROVE  /\ s.items \in Seq(AllItems) /\ DOMAIN s.items = 1..Len(s.items) /\ Len(s.items) \in Nat
           /\ Range(s.items) \subseteq AllItems
<1>1. s.items \in Seq(AllItems)
  BY DEF OutRecords
<1>2. \A i \in 1..Len(s.items) : s.items[i] \in AllItems
  BY <1>1, ElementOfSeq
<1> QED
  BY <1>1, <1>2, LenProperties DEF Range

LEMMA AtLeastOne == \A n \in Nat : Max({n, 1}) = IF n >= 1 THEN n ELSE 1
<1> SUFFICES ASSUME NEW n \in Nat PROVE Max({n, 1}) = IF n >= 1 THEN n ELSE 1
  OBVIOUS
<1> DEFINE m == IF n >= 1 THEN n ELSE 1
<1>1. m \in {n, 1} /\ \A y \in {n, 1} : m >= y
  OBVIOUS
<1>2. \A x \in {n, 1} : (\A y \in {n, 1} : x >= y) => x = m
  OBVIOUS
<1> HIDE DEF m
<1> QED
  BY <1>1, <1>2 DEF Max, m

LEMMA LengthIsSet ==
    ASSUME NEW s \in OutRecords
    PROVE  LET f == LengthSet(s)
           IN  /\ f \in OutRecords /\ Sized(f) /\ f.items = s.items /\ f.range = s.range
               /\ Untold(f, s) /\ SameTalk(f, s)
<1> DEFINE n == Len(s.items)
           c == IF s.cursor > n THEN Max({n, 1}) ELSE s.cursor
           f == [s EXCEPT !.length = n, !.cursor = c]
<1>1. n \in Nat
  BY ItemsAreLists
<1>2. c \in Nat \ {0} /\ (c <= n \/ c = 1)
  BY <1>1, AtLeastOne DEF OutRecords
<1>3. LengthSet(s) = f
  BY DEF LengthSet
<1> HIDE DEF c
<1>4. /\ f \in OutRecords /\ f.length = n /\ f.cursor = c /\ f.items = s.items /\ f.range = s.range
      /\ Untold(f, s) /\ SameTalk(f, s)
  BY <1>1, <1>2 DEF OutRecords, Untold, SameTalk
<1> QED
  BY <1>2, <1>3, <1>4 DEF Sized

\* The cursor is set to the first item with the hash, if there is one.
LEMMA ListIsSet ==
    ASSUME NEW s \in OutRecords, NEW hash
    PROVE  LET f == Relisted(s, hash)
           IN  /\ f \in OutRecords /\ Sized(f) /\ f.items = s.items
               /\ Untold(f, s) /\ SameTalk(f, s)
               /\ CursorHashes(f) = {hash} \/ ~HasHash(f, hash)
<1> DEFINE same == {i \in 1..Len(s.items) : HashOf(s.items[i]) = hash}
           g == LengthSet(s)
           m == Min(same)
           h == [g EXCEPT !.cursor = m, !.range = FALSE]
<1>1. Relisted(s, hash) = IF same = {} THEN g ELSE h
  BY DEF Relisted
<1>2. /\ g \in OutRecords /\ Sized(g) /\ g.items = s.items /\ Untold(g, s) /\ SameTalk(g, s)
  BY LengthIsSet
<1>3. Len(s.items) \in Nat /\ DOMAIN s.items = 1..Len(s.items)
  BY ItemsAreLists
<1> HIDE DEF g
<1>4. CASE same = {}
  <2>1. ~HasHash(g, hash)
    BY <1>2, <1>3, <1>4 DEF HasHash, Range
  <2> QED
    BY <1>1, <1>2, <1>4, <2>1
<1>5. CASE same # {}
  <2>1. m \in same
    <3>1. same \in SUBSET Nat
      BY <1>3
    <3> HIDE DEF same
    <3>2. \E j \in same : \A l \in same : j <= l
      BY <1>5, <3>1, LeastOf
    <3> QED
      BY <3>2 DEF Min
  <2>2. m \in 1..Len(s.items) /\ HashOf(s.items[m]) = hash /\ m \in Nat \ {0}
    BY <1>3, <2>1
  <2> HIDE DEF m, same
  <2>3. /\ h \in OutRecords /\ h.items = s.items /\ h.length = g.length /\ h.cursor = m /\ h.range = FALSE
        /\ Untold(h, s) /\ SameTalk(h, s)
    BY <1>2, <2>2 DEF OutRecords, Untold, SameTalk
  <2> HIDE DEF h
  <2>4. h.cursor <= h.length /\ h.length = Len(h.items) /\ h.cursor \in Nat
    BY <1>2, <1>3, <2>2, <2>3 DEF Sized
  <2>5. CursorHashes(h) = {hash}
    <3>1. ~(h.range \/ h.cursor > h.length) /\ h.cursor <= Len(h.items)
      BY <1>3, <2>3, <2>4
    <3> QED
      BY <2>2, <2>3, <3>1 DEF CursorHashes
  <2> QED
    BY <1>1, <1>5, <2>3, <2>4, <2>5 DEF Sized
<1> QED
  BY <1>4, <1>5

\* A list window that knows the length of the list knows what the cursor is on.
LEMMA OneHash ==
    ASSUME NEW s \in OutRecords, Sized(s)
    PROVE  CursorHashes(s) = {IF s.range \/ s.cursor > s.length THEN NoHash ELSE HashOf(s.items[s.cursor])}
<1>1. s.cursor \in Nat /\ s.length \in Nat /\ s.length = Len(s.items)
  BY DEF OutRecords, Sized
<1>2. CASE s.range \/ s.cursor > s.length
  BY <1>2 DEF CursorHashes
<1>3. CASE ~(s.range \/ s.cursor > s.length)
  <2>1. s.cursor <= Len(s.items)
    BY <1>1, <1>3
  <2> QED
    BY <1>3, <2>1 DEF CursorHashes
<1> QED
  BY <1>2, <1>3

LEMMA SameListFollows ==
    ASSUME NEW s \in OutRecords, NEW f, SameList(f, s)
    PROVE  CursorHashes(f) = CursorHashes(s) /\ (Sized(s) => Sized(f) /\ Follows(s, f))
<1>1. CursorHashes(f) = CursorHashes(s)
  BY DEF SameList, CursorHashes
<1>2. Sized(s) => Sized(f)
  BY DEF SameList, Sized
<1> QED
  BY <1>1, <1>2, OneHash DEF Follows

-----------------------------------------------------------------------------
(* Filling it *)

\* Without a connection: nothing is known of MPD.
Offline(f) ==
    /\ ~f.conn /\ ~f.idle /\ f.news = {} /\ f.mine = MainPartition
    /\ f.status = NoPartition /\ f.active = NoPartition

\* The connection is lost: nothing is listed, but perhaps the last line.
LostFrom(f, s) ==
    /\ f \in OutRecords /\ Untold(f, s) /\ Offline(f)
    /\ Range(f.items) \subseteq {NewPartition}

LEMMA LoseFacts ==
    ASSUME NEW s \in OutRecords
    PROVE  LET f == Lose(s) IN LostFrom(f, s) /\ Sized(f) /\ f.items = <<>>
<1> DEFINE l == <<>>
           g == [s EXCEPT !.conn = FALSE, !.idle = FALSE, !.news = {}, !.mine = MainPartition,
                          !.status = NoPartition, !.active = NoPartition,
                          !.events = ViewFlags, !.items = l]
<1>1. Lose(s) = LengthSet(g)
  BY DEF Lose
<1>2. l \in Seq(AllItems) /\ Range(l) = {} /\ MainPartition \in Partitions
  BY Bounds DEF Range
<1> HIDE DEF l
<1>3. g \in OutRecords /\ Untold(g, s) /\ Offline(g) /\ g.items = l
  BY <1>2 DEF OutRecords, Untold, Offline
<1> HIDE DEF g
<1>4. /\ Lose(s) \in OutRecords /\ Sized(Lose(s)) /\ Lose(s).items = l
      /\ Untold(Lose(s), g) /\ SameTalk(Lose(s), g)
  BY <1>1, <1>3, LengthIsSet
<1>5. Untold(Lose(s), s) /\ Offline(Lose(s))
  BY <1>3, <1>4 DEF Untold, Offline, SameTalk
<1> QED
  BY <1>2, <1>3, <1>4, <1>5 DEF LostFrom, l

SameLines(f, s) == f.on = s.on /\ f.home = s.home /\ f.parts = s.parts /\ f.parted = s.parted /\ f.mine = s.mine

LEMMA LinesKept == \A s, f : SameLines(f, s) => LinesOf(f) = LinesOf(s)
BY DEF SameLines, LinesOf

\* What MPD lists is appended, or the connection is lost.
LEMMA FilledFacts ==
    ASSUME NEW s \in OutRecords, NEW f \in Filled(s)
    PROVE  \/ ~s.conn /\ f = s
           \/ s.conn /\ LostFrom(f, s)
           \/ /\ s.conn /\ f \in OutRecords /\ Untold(f, s) /\ SameTalk(f, s)
              /\ Range(f.items) = Range(s.items) \cup LinesOf(s)
<1>1. PICK g \in FillOutputs(s) : f \in FillPartitions(g)
  BY DEF Filled
<1> DEFINE a == OutputLines(s)
           i == s.items \o a
           h == [s EXCEPT !.items = i]
<1>2. (g = s /\ ~s.conn) \/ (s.conn /\ (g = h \/ g = Lose(s)))
  BY DEF FillOutputs
<1>3. CASE ~s.conn
  BY <1>1, <1>2, <1>3 DEF FillPartitions
<1>4. CASE s.conn /\ g = Lose(s)
  <2>1. LostFrom(g, s)
    BY <1>4, LoseFacts
  <2>2. f = g
    BY <1>1, <2>1 DEF FillPartitions, LostFrom, Offline
  <2> QED
    BY <1>4, <2>1, <2>2
<1>5. CASE s.conn /\ g = h
  <2>1. a \in Seq(AllItems) /\ s.items \in Seq(AllItems)
    BY OutputLinesFacts, ItemsAreLists
  <2>2. i \in Seq(AllItems) /\ Range(i) = Range(s.items) \cup Range(a)
    BY <2>1, JoinFacts, RangeJoined
  <2> HIDE DEF i, a
  <2>3. /\ h \in OutRecords /\ h.items = i /\ Untold(h, s) /\ SameTalk(h, s)
        /\ SameLines(h, s)
    BY <2>2 DEF OutRecords, Untold, SameTalk, SameLines
  <2> HIDE DEF h
  <2>4. LinesOf(s) = Range(a) \cup Range(PartitionLines(s))
    BY LinesFacts, OutputLinesFacts, PartitionLinesFacts, RangeJoined DEF a
  <2>5. CASE ~s.parted
    <3>1. f = h
      BY <1>1, <1>5, <2>3, <2>5 DEF FillPartitions, Untold
    <3>2. Range(PartitionLines(s)) = {}
      BY <2>5, PartitionLinesFacts
    <3> QED
      BY <1>5, <2>2, <2>3, <2>4, <3>1, <3>2
  <2>6. CASE s.parted
    <3> DEFINE b == PartitionLines(h)
               j == h.items \o b
               k == [h EXCEPT !.items = j]
               m == <<NewPartition>>
               n == [Lose(h) EXCEPT !.items = m]
    <3>1. f = k \/ f = n
      BY <1>1, <1>5, <2>3, <2>6 DEF FillPartitions, Untold, SameTalk
    <3>2. b \in Seq(AllItems) /\ Range(b) = Range(PartitionLines(s))
      BY <2>3, PartitionLinesFacts DEF SameLines
    <3>3. j \in Seq(AllItems) /\ Range(j) = Range(i) \cup Range(b)
      BY <2>2, <2>3, <3>2, JoinFacts, RangeJoined
    <3>4. m \in Seq(AllItems) /\ Range(m) = {NewPartition}
      BY DEF AllItems, Range
    <3>5. LostFrom(Lose(h), h)
      BY <2>3, LoseFacts
    <3> HIDE DEF b, j, m
    <3>6. CASE f = k
      <4>1. k \in OutRecords /\ k.items = j /\ Untold(k, s) /\ SameTalk(k, s)
        BY <2>3, <3>3 DEF OutRecords, Untold, SameTalk
      <4> HIDE DEF k
      <4> QED
        BY <1>5, <2>2, <2>4, <3>2, <3>3, <3>6, <4>1
    <3>7. CASE f = n
      <4>1. n \in OutRecords /\ n.items = m /\ Untold(n, s) /\ Offline(n)
        BY <2>3, <3>4, <3>5 DEF LostFrom, OutRecords, Untold, Offline
      <4> HIDE DEF n
      <4> QED
        BY <1>5, <3>4, <3>7, <4>1 DEF LostFrom
    <3> QED
      BY <3>1, <3>6, <3>7
  <2> QED
    BY <2>5, <2>6
<1> QED
  BY <1>2, <1>3, <1>4, <1>5

\* Clear(), filled and listed, with what the cursor is said to be on.
LEMMA RefilledFacts ==
    ASSUME NEW c \in OutRecords, NEW hash, NEW n \in Filled(c), NEW f, f = Relisted(n, hash)
    PROVE  /\ f \in OutRecords /\ Sized(f) /\ Untold(f, c)
           /\ CursorHashes(f) = {hash} \/ ~HasHash(f, hash)
           /\ \/ ~c.conn /\ f.items = c.items /\ SameTalk(f, c)
              \/ c.conn /\ LostFrom(f, c)
              \/ c.conn /\ SameTalk(f, c) /\ Range(f.items) = Range(c.items) \cup LinesOf(c)
<1>1. n \in OutRecords
  BY FilledFacts DEF LostFrom
<1>2. /\ f \in OutRecords /\ Sized(f) /\ f.items = n.items /\ Untold(f, n) /\ SameTalk(f, n)
      /\ CursorHashes(f) = {hash} \/ ~HasHash(f, hash)
  BY <1>1, ListIsSet
<1>3. CASE ~c.conn /\ n = c
  BY <1>2, <1>3
<1>4. CASE c.conn /\ LostFrom(n, c)
  <2>1. Untold(f, c) /\ Offline(f) /\ Range(f.items) \subseteq {NewPartition}
    BY <1>2, <1>4 DEF LostFrom, Untold, Offline, SameTalk
  <2>2. LostFrom(f, c)
    BY <1>2, <2>1 DEF LostFrom
  <2> QED
    BY <1>2, <1>4, <2>1, <2>2
<1>5. CASE /\ c.conn /\ Untold(n, c) /\ SameTalk(n, c)
           /\ Range(n.items) = Range(c.items) \cup LinesOf(c)
  BY <1>2, <1>5 DEF Untold, SameTalk
<1> QED
  BY <1>3, <1>4, <1>5, FilledFacts

-----------------------------------------------------------------------------
(* Updating it *)

SameNews(f, s) == f.mine = s.mine /\ f.news = s.news /\ f.conn = s.conn /\ f.idle = s.idle

\* The page has been updated, or the connection lost.
Updated(f, s) ==
    /\ f \in OutRecords /\ Untold(f, s) /\ f.events = {}
    /\ \/ s.conn /\ s.events # {} /\ LostFrom(f, s) /\ Sized(f)
       \/ /\ SameNews(f, s) /\ f.status = s.status /\ f.active = s.status
          /\ s.events = {} => SameList(f, s)
          /\ s.events # {} => Sized(f)
          /\ s.events # {} /\ s.conn => Range(f.items) = LinesOf(s)
          /\ s.events # {} /\ ~s.conn => f.items = <<>>

LEMMA UpdateFacts ==
    ASSUME NEW s \in OutRecords, NEW n \in UpdateOutputs(s), NEW f, f = [n EXCEPT !.events = {}]
    PROVE  Updated(f, s) /\ (Sized(s) => Sized(f) /\ Follows(s, f))
<1> DEFINE d == [s EXCEPT !.active = s.status]
           l == <<>>
           c == [d EXCEPT !.items = l]
<1>1. n \in IF s.events # {} THEN ReloadAwake(d) ELSE {d}
  <2>1. d.events = s.events
    BY DEF OutRecords
  <2> HIDE DEF d
  <2> QED
    BY <2>1 DEF UpdateOutputs, d
<1>2. /\ d \in OutRecords /\ Untold(d, s) /\ SameNews(d, s) /\ SameList(d, s) /\ d.status = s.status
      /\ d.active = s.status /\ d.events = s.events /\ SameLines(d, s)
  BY DEF OutRecords, Untold, SameNews, SameList, SameLines
<1> HIDE DEF d
<1>3. n \in OutRecords => /\ f \in OutRecords /\ f.events = {} /\ Untold(f, n) /\ SameNews(f, n) /\ SameList(f, n)
                          /\ f.status = n.status /\ f.active = n.active
  BY DEF OutRecords, Untold, SameNews, SameList
<1>4. CASE s.events = {}
  <2>1. n = d
    BY <1>1, <1>4
  <2>2. /\ f \in OutRecords /\ Untold(f, s) /\ SameNews(f, s) /\ SameList(f, s) /\ f.status = s.status
        /\ f.active = s.status /\ f.events = {}
    BY <1>2, <1>3, <2>1 DEF Untold, SameNews, SameList
  <2> QED
    BY <1>4, <2>2, SameListFollows DEF Updated
<1>5. CASE s.events # {}
  <2>1. PICK m \in Filled(c), hash \in CursorHashes(d) : n = Relisted(m, hash)
    <3>1. n \in ReloadAwake(d) /\ Cleared(d) = c
      BY <1>1, <1>5 DEF Cleared
    <3> HIDE DEF c
    <3>2. n \in {Relisted(m, hash) : m \in Filled(c), hash \in CursorHashes(d)}
      BY <3>1 DEF ReloadAwake
    <3> QED
      BY <3>2
  <2>2. l \in Seq(AllItems) /\ Range(l) = {}
    BY DEF Range
  <2> HIDE DEF l
  <2>3. /\ c \in OutRecords /\ c.items = l /\ Untold(c, s) /\ SameNews(c, s) /\ c.status = s.status
        /\ c.active = s.status /\ c.events = s.events /\ SameLines(c, s)
    BY <1>2, <2>2 DEF OutRecords, Untold, SameNews, SameLines
  <2> HIDE DEF c
  <2>4. /\ n \in OutRecords /\ Sized(n) /\ Untold(n, c)
        /\ CursorHashes(n) = {hash} \/ ~HasHash(n, hash)
        /\ \/ ~c.conn /\ n.items = c.items /\ SameTalk(n, c)
           \/ c.conn /\ LostFrom(n, c)
           \/ c.conn /\ SameTalk(n, c) /\ Range(n.items) = Range(c.items) \cup LinesOf(c)
    BY <2>1, <2>3, RefilledFacts
  <2>5. f \in OutRecords /\ f.events = {} /\ Untold(f, s) /\ Sized(f) /\ SameList(f, n)
    BY <1>3, <2>3, <2>4 DEF Untold, Sized, SameList
  <2>6. Updated(f, s)
    <3>1. CASE ~c.conn /\ n.items = c.items /\ SameTalk(n, c)
      BY <1>3, <1>5, <2>3, <2>4, <2>5, <3>1 DEF Updated, SameTalk, SameNews, SameList, l
    <3>2. CASE c.conn /\ LostFrom(n, c)
      <4>1. LostFrom(f, s)
        BY <1>3, <2>4, <2>5, <3>2 DEF LostFrom, Offline, SameNews, SameList
      <4> QED
        BY <1>5, <2>3, <2>5, <3>2, <4>1 DEF Updated, SameNews
    <3>3. CASE c.conn /\ SameTalk(n, c) /\ Range(n.items) = Range(c.items) \cup LinesOf(c)
      <4>1. LinesOf(c) = LinesOf(s)
        BY <2>3, LinesKept
      <4> QED
        BY <1>3, <1>5, <2>2, <2>3, <2>4, <2>5, <3>3, <4>1 DEF Updated, SameTalk, SameNews, SameList
    <3> QED
      BY <2>4, <3>1, <3>2, <3>3
  <2>7. Sized(s) => Follows(s, f)
    <3> SUFFICES ASSUME Sized(s) PROVE Follows(s, f)
      OBVIOUS
    <3>1. CursorHashes(d) = CursorHashes(s)
      BY <1>2, SameListFollows
    <3>2. CursorHashes(s) = {hash}
      BY <2>1, <3>1, OneHash
    <3>3. CursorHashes(f) = CursorHashes(n) /\ (HasHash(f, hash) <=> HasHash(n, hash))
      <4>1. CursorHashes(f) = CursorHashes(n)
        BY <2>4, <2>5, SameListFollows
      <4> QED
        BY <2>5, <4>1 DEF SameList, HasHash
    <3> QED
      BY <2>4, <3>2, <3>3 DEF Follows
  <2> QED
    BY <2>5, <2>6, <2>7
<1> QED
  BY <1>4, <1>5

\* Offline, with nothing listed but perhaps the last line
Cut(f) == Offline(f) /\ Sized(f) /\ Range(f.items) \subseteq {NewPartition}

\* The status was asked for and the page updated.
Refreshed(f, s) ==
    /\ f \in OutRecords /\ Untold(f, s) /\ f.events = {}
    /\ \/ s.conn /\ Cut(f) /\ (s.events = {} => f.items = <<>>)
       \/ /\ SameNews(f, s) /\ f.active = f.status
          /\ f.status = IF s.conn THEN OwnPartition(s) ELSE s.status
          /\ s.events = {} => SameList(f, s)
          /\ s.events # {} => Sized(f)
          /\ s.events # {} /\ s.conn => Range(f.items) = LinesOf(s)
          /\ s.events # {} /\ ~s.conn => f.items = <<>>

LEMMA NothingListed == \A s, f : f.items = <<>> => Follows(s, f) /\ Range(f.items) = {}
BY DEF Follows, HasHash, Range

LEMMA RefreshFacts ==
    ASSUME NEW s \in OutRecords, NEW f \in ScreenUpdates(StatusUpdates(s))
    PROVE  Refreshed(f, s) /\ (Sized(s) => Sized(f) /\ Follows(s, f))
<1>1. PICK g \in StatusUpdates(s) : \E n \in UpdateOutputs(g) : f = [n EXCEPT !.events = {}]
  BY DEF ScreenUpdates
<1> DEFINE o == OwnPartition(s)
           h == [s EXCEPT !.status = o]
<1>2. (~s.conn /\ g = s) \/ (s.conn /\ g = h) \/ (s.conn /\ g = Lose(s))
  BY DEF StatusUpdates
<1>3. CASE ~s.conn /\ g = s
  <2>1. Updated(f, s) /\ (Sized(s) => Sized(f) /\ Follows(s, f))
    BY <1>1, <1>3, UpdateFacts
  <2> QED
    BY <1>3, <2>1 DEF Updated, Refreshed
<1>4. CASE s.conn /\ g = h
  <2>1. o \in Partitions \cup {NoPartition}
    BY DEF OwnPartition, OutRecords
  <2> HIDE DEF o
  <2>2. /\ h \in OutRecords /\ Untold(h, s) /\ SameNews(h, s) /\ SameList(h, s) /\ h.status = o
        /\ h.events = s.events /\ SameLines(h, s)
    BY <2>1 DEF OutRecords, Untold, SameNews, SameList, SameLines
  <2> HIDE DEF h
  <2>3. Updated(f, h) /\ (Sized(h) => Sized(f) /\ Follows(h, f))
    BY <1>1, <1>4, <2>2, UpdateFacts
  <2>4. LinesOf(h) = LinesOf(s) /\ CursorHashes(h) = CursorHashes(s) /\ (Sized(s) => Sized(h))
    BY <2>2, LinesKept, SameListFollows
  <2>5. Sized(s) => Sized(f) /\ Follows(s, f)
    BY <2>3, <2>4 DEF Follows
  <2>6. CASE h.conn /\ h.events # {} /\ LostFrom(f, h) /\ Sized(f)
    <3>1. f \in OutRecords /\ Untold(f, s) /\ f.events = {} /\ Cut(f)
      BY <2>2, <2>3, <2>6 DEF Updated, LostFrom, Cut, Untold
    <3> QED
      BY <1>4, <2>2, <2>5, <2>6, <3>1 DEF Refreshed
  <2>7. CASE /\ SameNews(f, h) /\ f.status = h.status /\ f.active = h.status
             /\ h.events = {} => SameList(f, h)
             /\ h.events # {} => Sized(f)
             /\ h.events # {} /\ h.conn => Range(f.items) = LinesOf(h)
    <3>1. f \in OutRecords /\ Untold(f, s) /\ f.events = {} /\ SameNews(f, s)
      BY <2>2, <2>3, <2>7 DEF Updated, Untold, SameNews
    <3>2. s.events = {} => SameList(f, s)
      BY <2>2, <2>7 DEF SameList
    <3> QED
      BY <1>4, <2>2, <2>4, <2>5, <2>7, <3>1, <3>2 DEF Refreshed, SameNews, o
  <2> QED
    BY <2>3, <2>6, <2>7 DEF Updated
<1>5. CASE s.conn /\ g = Lose(s)
  <2>1. LostFrom(g, s) /\ Sized(g) /\ g.items = <<>>
    BY <1>5, LoseFacts
  <2>2. Updated(f, g) /\ Sized(f)
    BY <1>1, <2>1, UpdateFacts DEF LostFrom
  <2>3. ~g.conn /\ SameNews(f, g) /\ f.status = g.status /\ f.active = g.status /\ f.items = <<>>
    BY <2>1, <2>2 DEF Updated, LostFrom, Offline, SameList
  <2>4. Follows(s, f) /\ Range(f.items) = {}
    BY <2>3, NothingListed
  <2>5. Offline(f)
    BY <2>1, <2>3 DEF LostFrom, Offline, SameNews
  <2>6. f \in OutRecords /\ Untold(f, s) /\ f.events = {}
    BY <2>1, <2>2 DEF Updated, LostFrom, Untold
  <2> QED
    BY <1>5, <2>2, <2>3, <2>4, <2>5, <2>6 DEF Refreshed, Cut
<1> QED
  BY <1>2, <1>3, <1>4, <1>5

-----------------------------------------------------------------------------
(* Taking the connection, which may update it *)

\* The connection was taken out of idle mode, if it was in it.
Taken(f, s) ==
    /\ f \in OutRecords /\ Untold(f, s)
    /\ \/ ~s.idle /\ f = s
       \/ s.idle /\ Cut(f) /\ (f.events = {} \/ f.items = <<>>)
       \/ /\ s.idle /\ s.news = {} /\ SameList(f, s) /\ ~f.idle
          /\ f.conn /\ f.mine = s.mine /\ f.news = {} /\ f.status = s.status /\ f.active = s.active
          /\ f.events = s.events
       \/ /\ s.idle /\ f.conn /\ ~f.idle /\ f.news = {} /\ f.events = {} /\ f.mine = s.mine
          /\ f.status = OwnPartition(s) /\ f.active = f.status
          /\ s.events \cup s.news = {} => SameList(f, s)
          /\ s.events \cup s.news # {} => Sized(f) /\ Range(f.items) = LinesOf(s)

\* What OnIdle() does, called in idle mode
LEMMA OnIdleFacts ==
    ASSUME NEW s \in OutRecords, s.conn, s.idle, NEW f \in OnIdleOutputs(s)
    PROVE  Taken(f, s) /\ (Sized(s) => Sized(f) /\ Follows(s, f))
<1> DEFINE e == s.events \cup s.news
           g == [s EXCEPT !.idle = FALSE, !.events = e, !.news = {}]
<1>1. f \in ScreenUpdates(StatusUpdates(g))
  BY DEF OnIdleOutputs
<1>2. e \in SUBSET ViewFlags
  BY DEF OutRecords
<1> HIDE DEF e
<1>3. /\ g \in OutRecords /\ Untold(g, s) /\ SameList(g, s) /\ SameLines(g, s) /\ g.conn /\ ~g.idle
      /\ g.news = {} /\ g.events = e /\ g.mine = s.mine
  BY <1>2 DEF OutRecords, Untold, SameList, SameLines
<1> HIDE DEF g
<1>4. Refreshed(f, g) /\ (Sized(g) => Sized(f) /\ Follows(g, f))
  BY <1>1, <1>3, RefreshFacts
<1>5. /\ LinesOf(g) = LinesOf(s) /\ OwnPartition(g) = OwnPartition(s)
      /\ CursorHashes(g) = CursorHashes(s) /\ (Sized(s) => Sized(g))
  BY <1>3, LinesKept, SameListFollows DEF OwnPartition, Untold
<1>6. Sized(s) => Sized(f) /\ Follows(s, f)
  BY <1>4, <1>5 DEF Follows
<1>7. f \in OutRecords /\ Untold(f, s) /\ f.events = {}
  BY <1>3, <1>4 DEF Refreshed, Untold
<1>8. CASE Cut(f)
  BY <1>6, <1>7, <1>8 DEF Taken
<1>9. CASE /\ SameNews(f, g) /\ f.active = f.status
           /\ f.status = IF g.conn THEN OwnPartition(g) ELSE g.status
           /\ g.events = {} => SameList(f, g)
           /\ g.events # {} => Sized(f)
           /\ g.events # {} /\ g.conn => Range(f.items) = LinesOf(g)
  <2>1. f.conn /\ ~f.idle /\ f.news = {} /\ f.mine = s.mine /\ f.status = OwnPartition(s)
    BY <1>3, <1>5, <1>9 DEF SameNews
  <2>2. e = {} => SameList(f, s)
    BY <1>3, <1>9 DEF SameList
  <2>3. e # {} => Sized(f) /\ Range(f.items) = LinesOf(s)
    BY <1>3, <1>5, <1>9
  <2> QED
    BY <1>6, <1>7, <1>9, <2>1, <2>2, <2>3 DEF Taken, e
<1> QED
  BY <1>4, <1>8, <1>9 DEF Refreshed

LEMMA ConnectionFacts ==
    ASSUME NEW s \in OutRecords, s.idle => s.conn, NEW f \in Connection(s)
    PROVE  Taken(f, s) /\ (Sized(s) => Sized(f) /\ Follows(s, f))
<1> DEFINE w == [s EXCEPT !.idle = FALSE]
<1>1. \/ ~s.idle /\ f = s
      \/ s.idle /\ f \in OnIdleOutputs(s)
      \/ s.idle /\ f = Lose(s)
      \/ s.idle /\ s.news = {} /\ f = w
  BY DEF Connection
<1>2. CASE ~s.idle /\ f = s
  <2>1. Untold(f, s) /\ SameList(f, s)
    BY <1>2 DEF Untold, SameList
  <2> QED
    BY <1>2, <2>1, SameListFollows DEF Taken
<1>3. CASE s.idle /\ f \in OnIdleOutputs(s)
  BY <1>3, OnIdleFacts
<1>4. CASE s.idle /\ f = Lose(s)
  <2>1. LostFrom(f, s) /\ Sized(f) /\ f.items = <<>>
    BY <1>4, LoseFacts
  <2>2. Follows(s, f)
    BY <2>1, NothingListed
  <2> QED
    BY <1>4, <2>1, <2>2 DEF Taken, LostFrom, Cut
<1>5. CASE s.idle /\ s.news = {} /\ f = w
  <2>1. /\ w \in OutRecords /\ Untold(w, s) /\ SameList(w, s) /\ w.conn /\ ~w.idle
        /\ w.news = {} /\ w.events = s.events /\ w.mine = s.mine /\ w.status = s.status /\ w.active = s.active
    BY <1>5 DEF OutRecords, Untold, SameList
  <2> HIDE DEF w
  <2>2. Sized(s) => Sized(f) /\ Follows(s, f)
    BY <1>5, <2>1, SameListFollows
  <2> QED
    BY <1>5, <2>1, <2>2 DEF Taken
<1> QED
  BY <1>1, <1>2, <1>3, <1>4, <1>5

\* Between two calls: the list is MPD's unless events or news are on their way, what is highlighted is
\* the partition in the status, and that is the client's unless there is news.
OutSafe(s) ==
    /\ s \in OutRecords /\ s.mine \in s.parts /\ MainPartition \in s.parts
    /\ Sized(s) /\ s.active = s.status
    /\ ~s.conn => Cut(s)
    /\ s.conn /\ s.news = {} => s.status = OwnPartition(s)
    /\ s.conn /\ s.news = {} /\ s.events = {} => Range(s.items) = LinesOf(s)
    /\ s.conn /\ ~s.dirty => s.events = {}

LEMMA IdleIsConnected == \A s : OutSafe(s) /\ s.idle => s.conn
BY DEF OutSafe, Cut, Offline

LEMMA OfflineIsSafe ==
    ASSUME NEW s, OutSafe(s), NEW f \in OutRecords, Untold(f, s), Cut(f)
    PROVE  OutSafe(f)
BY DEF OutSafe, Cut, Offline, Untold

LEMMA LoseSafe ==
    ASSUME NEW s, OutSafe(s)
    PROVE  OutSafe(Lose(s)) /\ Lose(s).items = <<>> /\ Untold(Lose(s), s)
<1>1. LostFrom(Lose(s), s) /\ Sized(Lose(s)) /\ Lose(s).items = <<>>
  BY LoseFacts DEF OutSafe
<1> QED
  BY <1>1, OfflineIsSafe DEF LostFrom, Cut

\* Taking the connection keeps the invariant, within a command and within a reload.
LEMMA ConnectionSafe ==
    ASSUME NEW s, OutSafe(s), NEW f \in Connection(s)
    PROVE  OutSafe(f) /\ Follows(s, f) /\ Taken(f, s)
<1>1. Taken(f, s) /\ Sized(f) /\ Follows(s, f)
  BY IdleIsConnected, ConnectionFacts DEF OutSafe
<1>2. f \in OutRecords /\ Untold(f, s)
  BY <1>1 DEF Taken
<1>3. CASE f = s
  BY <1>1, <1>3
<1>4. CASE Cut(f)
  BY <1>1, <1>2, <1>4, OfflineIsSafe
<1>5. CASE /\ s.idle /\ s.news = {} /\ SameList(f, s) /\ f.conn /\ f.mine = s.mine /\ f.news = {}
           /\ f.status = s.status /\ f.active = s.active /\ f.events = s.events
  <2>1. SameLines(f, s) /\ OwnPartition(f) = OwnPartition(s) /\ s.conn
    BY <1>2, <1>5, IdleIsConnected DEF SameLines, Untold, OwnPartition
  <2>2. LinesOf(f) = LinesOf(s) /\ f.items = s.items
    BY <1>5, <2>1, LinesKept DEF SameList
  <2> QED
    BY <1>1, <1>2, <1>5, <2>1, <2>2 DEF OutSafe, Untold
<1>6. CASE /\ s.idle /\ f.conn /\ ~f.idle /\ f.news = {} /\ f.events = {} /\ f.mine = s.mine
           /\ f.status = OwnPartition(s) /\ f.active = f.status
           /\ s.events \cup s.news = {} => SameList(f, s)
           /\ s.events \cup s.news # {} => Sized(f) /\ Range(f.items) = LinesOf(s)
  <2>1. SameLines(f, s) /\ OwnPartition(f) = OwnPartition(s) /\ s.conn
    BY <1>2, <1>6, IdleIsConnected DEF SameLines, Untold, OwnPartition
  <2>2. LinesOf(f) = LinesOf(s)
    BY <2>1, LinesKept
  <2>3. Range(f.items) = LinesOf(f)
    BY <1>6, <2>1, <2>2 DEF OutSafe, SameList
  <2> QED
    BY <1>1, <1>2, <1>6, <2>1, <2>3 DEF OutSafe, Untold
<1> QED
  BY <1>1, <1>3, <1>4, <1>5, <1>6 DEF Taken

\* The page is loaded anew: then it lists what there is, whatever a reload within it has listed.
LEMMA ReloadSafe ==
    ASSUME NEW s, OutSafe(s), NEW f \in ReloadOutputs(s)
    PROVE  /\ OutSafe(f) /\ Follows(s, f) /\ Untold(f, s)
           /\ f.conn => Range(f.items) = LinesOf(f)
<1> DEFINE l == <<>>
           k == [s EXCEPT !.items = l]
<1>0. s \in OutRecords
  BY DEF OutSafe
<1>1. PICK c \in Connection(k) : f \in {Relisted(n, hash) : n \in Filled(c), hash \in CursorHashes(s)}
  <2>1. Cleared(s) = k
    BY DEF Cleared
  <2> HIDE DEF k
  <2> QED
    BY <2>1 DEF ReloadOutputs
<1>1a. PICK n \in Filled(c), hash \in CursorHashes(s) : f = Relisted(n, hash)
  BY <1>1
<1>2. l \in Seq(AllItems) /\ Range(l) = {}
  BY DEF Range
<1> HIDE DEF l
<1>3. /\ k \in OutRecords /\ k.items = l /\ Untold(k, s) /\ SameTalk(k, s) /\ SameLines(k, s)
  BY <1>0, <1>2 DEF OutRecords, Untold, SameTalk, SameLines
<1> HIDE DEF k
<1>4. k.idle => k.conn
  BY <1>3, IdleIsConnected DEF SameTalk
<1>5. Taken(c, k)
  BY <1>3, <1>4, ConnectionFacts
<1>6. c \in OutRecords /\ Untold(c, s)
  BY <1>3, <1>5 DEF Taken, Untold
<1>7. /\ f \in OutRecords /\ Sized(f) /\ Untold(f, c)
      /\ CursorHashes(f) = {hash} \/ ~HasHash(f, hash)
      /\ \/ ~c.conn /\ f.items = c.items /\ SameTalk(f, c)
         \/ c.conn /\ LostFrom(f, c)
         \/ c.conn /\ SameTalk(f, c) /\ Range(f.items) = Range(c.items) \cup LinesOf(c)
  BY <1>1a, <1>6, RefilledFacts
<1>8. Follows(s, f)
  <2>1. CursorHashes(s) = {hash}
    BY <1>1a, OneHash DEF OutSafe
  <2> QED
    BY <1>7, <2>1 DEF Follows
<1>9. Untold(f, s)
  BY <1>6, <1>7 DEF Untold
<1>10. CASE ~c.conn /\ f.items = c.items /\ SameTalk(f, c)
  <2>1. Offline(c) /\ Range(c.items) \subseteq {NewPartition}
    <3>1. CASE ~k.idle /\ c = k
      BY <1>2, <1>3, <1>10, <3>1 DEF OutSafe, Cut, Offline, SameTalk
    <3>2. CASE Cut(c)
      BY <3>2 DEF Cut
    <3> QED
      BY <1>5, <1>10, <3>1, <3>2 DEF Taken
  <2>2. Cut(f) /\ ~f.conn
    BY <1>7, <1>10, <2>1 DEF Cut, Offline, SameTalk
  <2> QED
    BY <1>7, <1>8, <1>9, <2>2, OfflineIsSafe
<1>11. CASE c.conn /\ LostFrom(f, c)
  <2>1. Cut(f) /\ ~f.conn
    BY <1>7, <1>11 DEF Cut, Offline, LostFrom
  <2> QED
    BY <1>7, <1>8, <1>9, <2>1, OfflineIsSafe
<1>12. CASE c.conn /\ SameTalk(f, c) /\ Range(f.items) = Range(c.items) \cup LinesOf(c)
  <2>1. /\ s.conn /\ c.mine = s.mine /\ c.active = c.status
        /\ c.news = {} => c.status = OwnPartition(s)
        /\ c.events = {} \/ c.events = s.events
        /\ c.items = l \/ Range(c.items) = LinesOf(s)
    <3>1. CASE ~k.idle /\ c = k
      BY <1>3, <1>12, <3>1 DEF OutSafe, SameTalk
    <3>2. CASE Cut(c)
      BY <1>12, <3>2 DEF Cut, Offline
    <3>3. CASE /\ k.idle /\ k.news = {} /\ SameList(c, k) /\ c.mine = k.mine /\ c.news = {}
               /\ c.status = k.status /\ c.active = k.active /\ c.events = k.events
      BY <1>3, <1>4, <3>3 DEF OutSafe, SameTalk, SameList
    <3>4. CASE /\ k.idle /\ c.news = {} /\ c.events = {} /\ c.mine = k.mine
               /\ c.status = OwnPartition(k) /\ c.active = c.status
               /\ k.events \cup k.news = {} => SameList(c, k)
               /\ k.events \cup k.news # {} => Sized(c) /\ Range(c.items) = LinesOf(k)
      <4>1. OwnPartition(k) = OwnPartition(s) /\ LinesOf(k) = LinesOf(s)
        BY <1>3, LinesKept DEF OwnPartition, SameLines
      <4> QED
        BY <1>3, <1>4, <3>4, <4>1 DEF SameTalk, SameList
    <3> QED
      BY <1>5, <3>1, <3>2, <3>3, <3>4 DEF Taken
  <2>2. /\ LinesOf(c) = LinesOf(s) /\ LinesOf(f) = LinesOf(s) /\ OwnPartition(f) = OwnPartition(s)
    <3>1. SameLines(c, s) /\ SameLines(f, s)
      BY <1>6, <1>9, <1>12, <2>1 DEF SameLines, Untold, SameTalk
    <3> QED
      BY <3>1, LinesKept DEF OwnPartition, SameLines
  <2>3. Range(f.items) = LinesOf(f)
    BY <1>2, <1>12, <2>1, <2>2
  <2>4. OutSafe(f)
    BY <1>7, <1>9, <1>12, <2>1, <2>2, <2>3 DEF OutSafe, Untold, SameTalk
  <2> QED
    BY <1>8, <1>9, <2>3, <2>4
<1> QED
  BY <1>7, <1>10, <1>11, <1>12

\* The status is asked for, and the page updated; a page that was not listed anew before is now.
LEMMA RefreshSafe ==
    ASSUME NEW s \in OutRecords, s.mine \in s.parts, MainPartition \in s.parts, Sized(s),
           ~s.conn => Cut(s),
           s.conn /\ s.news = {} /\ s.events = {} => Range(s.items) = LinesOf(s),
           NEW f \in ScreenUpdates(StatusUpdates(s))
    PROVE  /\ OutSafe(f) /\ Follows(s, f) /\ Untold(f, s)
           /\ s.events = {} \/ ~s.conn => SameList(f, s) \/ f.items = <<>>
<1>1. Refreshed(f, s) /\ Sized(f) /\ Follows(s, f)
  BY RefreshFacts
<1>2. f \in OutRecords /\ Untold(f, s) /\ f.events = {}
  BY <1>1 DEF Refreshed
<1>3. CASE s.conn /\ Cut(f) /\ (s.events = {} => f.items = <<>>)
  BY <1>1, <1>2, <1>3 DEF OutSafe, Cut, Offline, Untold
<1>4. CASE /\ SameNews(f, s) /\ f.active = f.status
           /\ f.status = IF s.conn THEN OwnPartition(s) ELSE s.status
           /\ s.events = {} => SameList(f, s)
           /\ s.events # {} => Sized(f)
           /\ s.events # {} /\ s.conn => Range(f.items) = LinesOf(s)
           /\ s.events # {} /\ ~s.conn => f.items = <<>>
  <2>1. LinesOf(f) = LinesOf(s) /\ OwnPartition(f) = OwnPartition(s)
    <3>1. SameLines(f, s)
      BY <1>2, <1>4 DEF SameLines, Untold, SameNews
    <3> QED
      BY <3>1, LinesKept DEF OwnPartition, SameLines
  <2>2. CASE ~s.conn
    <3>1. Range(f.items) \subseteq {NewPartition}
      BY <1>4, <2>2, NothingListed DEF SameList, Cut
    <3> QED
      BY <1>1, <1>2, <1>4, <2>2, <3>1 DEF OutSafe, Cut, Offline, Untold, SameNews
  <2>3. CASE s.conn
    BY <1>1, <1>2, <1>4, <2>1, <2>3 DEF OutSafe, Untold, SameNews, SameList
  <2> QED
    BY <2>2, <2>3
<1> QED
  BY <1>1, <1>3, <1>4 DEF Refreshed

\* UpdateClient(): an update may follow the one that leaving idle mode has made.
LEMMA UpdateClientSafe ==
    ASSUME NEW s, OutSafe(s), NEW f \in UpdateClientOutputs(s)
    PROVE  OutSafe(f) /\ Follows(s, f) /\ Untold(f, s)
<1>1. PICK c \in Connection(s) : f \in ScreenUpdates(StatusUpdates(c))
  BY DEF UpdateClientOutputs, ScreenUpdates
<1>2. OutSafe(c) /\ Follows(s, c) /\ Taken(c, s)
  BY ConnectionSafe
<1>3. /\ OutSafe(f) /\ Follows(c, f) /\ Untold(f, c)
      /\ c.events = {} \/ ~c.conn => SameList(f, c) \/ f.items = <<>>
  BY <1>1, <1>2, RefreshSafe DEF OutSafe
<1>4. Untold(f, s)
  BY <1>2, <1>3 DEF Taken, Untold
<1>5. CASE f.items = <<>>
  BY <1>3, <1>4, <1>5, NothingListed
<1>6. CASE SameList(f, c)
  <2>1. CursorHashes(f) = CursorHashes(c) /\ \A hash : HasHash(f, hash) <=> HasHash(c, hash)
    BY <1>2, <1>6, SameListFollows DEF OutSafe, SameList, HasHash
  <2>2. Follows(s, f)
    BY <1>2, <2>1 DEF Follows
  <2> QED
    BY <1>3, <1>4, <2>2
<1>7. CASE SameList(c, s)
  <2>1. CursorHashes(c) = CursorHashes(s)
    BY <1>7, SameListFollows DEF OutSafe
  <2>2. Follows(s, f)
    BY <1>3, <2>1 DEF Follows
  <2> QED
    BY <1>3, <1>4, <2>2
<1>8. CASE c.events = {} \/ ~c.conn
  BY <1>3, <1>5, <1>6, <1>8
<1>9. c.events = {} \/ ~c.conn \/ SameList(c, s)
  BY <1>2 DEF Taken, Cut, Offline, SameList
<1> QED
  BY <1>7, <1>8, <1>9

-----------------------------------------------------------------------------
(* Its commands *)

\* Whatever becomes of the list after the connection was taken
LEMMA ThenFollows ==
    ASSUME NEW s, NEW c, OutSafe(c), Follows(s, c), NEW f, SameList(f, c) \/ f.items = <<>>
    PROVE  Follows(s, f)
<1>1. CASE f.items = <<>>
  BY <1>1, NothingListed
<1>2. CASE SameList(f, c)
  <2>1. CursorHashes(f) = CursorHashes(c) /\ \A hash : HasHash(f, hash) <=> HasHash(c, hash)
    BY <1>2, SameListFollows DEF OutSafe, SameList, HasHash
  <2> QED
    BY <2>1 DEF Follows
<1> QED
  BY <1>1, <1>2

LEMMA ViewSafe ==
    ASSUME NEW s, OutSafe(s)
    PROVE  LET v == ViewCommand(s)
           IN  /\ OutSafe(v) /\ SameList(v, s) /\ CursorHashes(v) = CursorHashes(s)
               /\ v.on = s.on /\ v.dirty /\ v.events = s.events /\ v.news = s.news /\ v.idle = s.idle
<1> DEFINE v == [s EXCEPT !.dirty = TRUE, !.dialog = FALSE]
<1>1. ViewCommand(s) = v /\ s \in OutRecords
  BY DEF ViewCommand, OutSafe
<1>2. /\ v \in OutRecords /\ SameList(v, s) /\ SameTalk(v, s) /\ SameLines(v, s) /\ v.dirty
      /\ v.on = s.on
  BY <1>1 DEF OutRecords, SameList, SameTalk, SameLines
<1> HIDE DEF v
<1>3. LinesOf(v) = LinesOf(s) /\ OwnPartition(v) = OwnPartition(s) /\ CursorHashes(v) = CursorHashes(s)
  BY <1>1, <1>2, LinesKept, SameListFollows DEF OwnPartition, SameLines
<1>4. OutSafe(v)
  BY <1>2, <1>3 DEF OutSafe, SameList, SameTalk, SameLines, Sized, Cut, Offline
<1> QED
  BY <1>1, <1>2, <1>3, <1>4 DEF SameTalk

\* A command begins with this.
LEMMA CommandSafe ==
    ASSUME NEW s, OutSafe(s), NEW c \in Connection(ViewCommand(s))
    PROVE  OutSafe(c) /\ Follows(s, c) /\ c.dirty /\ c.on = s.on
<1>1. /\ OutSafe(ViewCommand(s)) /\ CursorHashes(ViewCommand(s)) = CursorHashes(s)
      /\ ViewCommand(s).dirty /\ ViewCommand(s).on = s.on
  BY ViewSafe
<1>2. OutSafe(c) /\ Follows(ViewCommand(s), c) /\ Taken(c, ViewCommand(s))
  BY <1>1, ConnectionSafe
<1> QED
  BY <1>1, <1>2 DEF Follows, Taken, Untold

\* A request is made then.
LEMMA RequestSafe ==
    ASSUME NEW s, NEW c, OutSafe(c), Follows(s, c), NEW done, OutSafe(done), SameList(done, c),
           NEW f \in Requested(c, done)
    PROVE  OutSafe(f) /\ Follows(s, f) /\ (f.on = c.on \/ f = done)
<1>1. f = done \/ f = c \/ f = Lose(c)
  BY DEF Requested
<1>2. CASE f = done
  BY <1>2, ThenFollows
<1>3. CASE f = c
  BY <1>3
<1>4. CASE f = Lose(c)
  <2>1. OutSafe(f) /\ f.items = <<>> /\ Untold(f, c)
    BY <1>4, LoseSafe
  <2> QED
    BY <2>1, ThenFollows DEF Untold
<1> QED
  BY <1>1, <1>2, <1>3, <1>4

\* MPD has done something the client will be told of.
LEMMA ToldSafe ==
    ASSUME NEW c, OutSafe(c), c.conn, NEW d \in OutRecords, SameList(d, c),
           d.mine \in d.parts, MainPartition \in d.parts, d.conn, d.news # {},
           d.status = c.status, d.active = c.active, d.dirty = c.dirty, d.dirty \/ d.events = c.events
    PROVE  OutSafe(d)
BY DEF OutSafe, SameList, Sized

LEMMA ToggleSafe ==
    ASSUME OutSafe(outs), ToggleOutput
    PROVE  /\ OutSafe(outs') /\ Follows(outs, outs')
           /\ outs'.on = outs.on \/ ReloadsFirst(outs)
              \/ LET item == outs.items[outs.cursor]
                 IN  outs'.on = IF item.on THEN outs.on \ {item.id} ELSE outs.on \cup {item.id}
<1> DEFINE i == outs.items[outs.cursor]
<1>1. AtItem("output")
  BY DEF ToggleOutput
<1>2. PICK c \in Connection(ViewCommand(outs)) :
         \/ ~c.conn /\ outs' = c
         \/ c.conn /\ \E item \in ItemsAfter(c) : outs' \in Requested(c, EnabledBy(c, item))
  BY DEF ToggleOutput
<1>3. OutSafe(c) /\ Follows(outs, c) /\ c.dirty /\ c.on = outs.on
  BY <1>2, CommandSafe
<1>4. CASE ~c.conn /\ outs' = c
  BY <1>3, <1>4
<1>5. CASE c.conn /\ \E item \in ItemsAfter(c) : outs' \in Requested(c, EnabledBy(c, item))
  <2>1. PICK item \in ItemsAfter(c) : outs' \in Requested(c, EnabledBy(c, item))
    BY <1>5
  <2>2. i \in AllItems /\ i.kind = "output"
    <3>1. outs \in OutRecords /\ outs.cursor \in 1..Len(outs.items) /\ i.kind = "output"
      <4>1. outs \in OutRecords /\ outs.cursor \in Nat \ {0}
        BY DEF OutSafe, OutRecords
      <4> QED
        BY <1>1, <4>1, ItemsAreLists DEF AtItem
    <3>2. outs.items \in Seq(AllItems)
      BY <3>1 DEF OutRecords
    <3> QED
      BY <3>1, <3>2, ElementOfSeq
  <2>3. item \in AllItems /\ item.kind = "output" /\ (item = i \/ ReloadsFirst(outs))
    <3>1. item = i \/ (Reloaded(c) /\ item.kind = i.kind /\ \E j \in DOMAIN c.items : item = c.items[j])
      BY DEF ItemsAfter
    <3>2. \A j \in DOMAIN c.items : c.items[j] \in AllItems
      BY <1>3, ItemsAreLists DEF OutSafe, Range
    <3> HIDE DEF i
    <3> QED
      BY <2>2, <3>1, <3>2 DEF Reloaded
  <2>4. item.id \in Outputs
    BY <2>3 DEF AllItems, OutputItem, PartitionItem, NewPartition
  <2> DEFINE d == EnabledBy(c, item)
             on == IF item.on THEN c.on \ {item.id} ELSE c.on \cup {item.id}
             news == c.news \cup {"output"}
             events == c.events \cup {"output"}
             g == [c EXCEPT !.on = on, !.news = news, !.events = events]
  <2>5. d = g
    BY DEF EnabledBy
  <2>6. c \in OutRecords
    BY <1>3 DEF OutSafe
  <2>7. on \in SUBSET Outputs /\ news \in SUBSET ViewFlags /\ events \in SUBSET ViewFlags /\ news # {}
    BY <2>4, <2>6 DEF OutRecords, ViewFlags
  <2> HIDE DEF news, events, on, i
  <2>8. /\ g \in OutRecords /\ SameList(g, c) /\ g.on = on /\ g.news = news /\ g.parts = c.parts
        /\ g.mine = c.mine /\ g.conn = c.conn /\ g.status = c.status /\ g.active = c.active /\ g.dirty = c.dirty
    BY <2>6, <2>7 DEF OutRecords, SameList
  <2> HIDE DEF g
  <2>9. OutSafe(g)
    BY <1>3, <1>5, <2>7, <2>8, ToldSafe DEF OutSafe
  <2>10. OutSafe(outs') /\ Follows(outs, outs') /\ (outs'.on = c.on \/ outs' = g)
    BY <1>3, <2>1, <2>5, <2>8, <2>9, RequestSafe
  <2>11. outs'.on = c.on \/ outs'.on = IF item.on THEN c.on \ {item.id} ELSE c.on \cup {item.id}
    BY <2>8, <2>10 DEF on
  <2> QED
    BY <1>3, <2>3, <2>10, <2>11 DEF i
<1> QED
  BY <1>2, <1>4, <1>5

LEMMA ActivateSafe ==
    ASSUME OutSafe(outs), ActivatePartition
    PROVE  OutSafe(outs') /\ Follows(outs, outs')
<1>1. PICK c \in Connection(ViewCommand(outs)) :
         \/ ~c.conn /\ outs' = c
         \/ /\ c.conn
            /\ \E p : outs' \in Requested(c, IF p \in c.parts \ {c.mine}
                                             THEN [c EXCEPT !.mine = p, !.news = @ \cup {"output"}] ELSE c)
  BY DEF ActivatePartition
<1>2. OutSafe(c) /\ Follows(outs, c) /\ c.dirty
  BY <1>1, CommandSafe
<1>3. CASE ~c.conn /\ outs' = c
  BY <1>2, <1>3
<1>4. CASE c.conn /\ ~(~c.conn /\ outs' = c)
  <2>1. PICK p : outs' \in Requested(c, IF p \in c.parts \ {c.mine}
                                        THEN [c EXCEPT !.mine = p, !.news = @ \cup {"output"}] ELSE c)
    BY <1>1, <1>4
  <2> DEFINE news == c.news \cup {"output"}
             g == [c EXCEPT !.mine = p, !.news = news]
             d == IF p \in c.parts \ {c.mine} THEN g ELSE c
  <2>2. outs' \in Requested(c, d)
    BY <2>1
  <2>3. c \in OutRecords
    BY <1>2 DEF OutSafe
  <2>4. news \in SUBSET ViewFlags /\ news # {}
    BY <2>3 DEF OutRecords, ViewFlags
  <2> HIDE DEF news
  <2>5. CASE p \in c.parts \ {c.mine}
    <3>1. /\ g \in OutRecords /\ SameList(g, c) /\ g.news = news /\ g.parts = c.parts /\ g.events = c.events
          /\ g.mine = p /\ g.conn = c.conn /\ g.status = c.status /\ g.active = c.active /\ g.dirty = c.dirty
      BY <2>3, <2>4, <2>5 DEF OutRecords, SameList
    <3> HIDE DEF g
    <3>2. OutSafe(g)
      BY <1>2, <1>4, <2>4, <2>5, <3>1, ToldSafe DEF OutSafe
    <3> QED
      BY <1>2, <2>2, <2>5, <3>1, <3>2, RequestSafe
  <2>6. CASE p \notin c.parts \ {c.mine}
    BY <1>2, <2>2, <2>6, RequestSafe DEF SameList
  <2> QED
    BY <2>5, <2>6
<1> QED
  BY <1>1, <1>3, <1>4

LEMMA DeleteSafe ==
    ASSUME OutSafe(outs), DeletePartition
    PROVE  OutSafe(outs') /\ Follows(outs, outs')
<1>1. PICK c \in Connection(ViewCommand(outs)) :
         \/ ~c.conn /\ outs' = c
         \/ c.conn /\ \E item \in ItemsAfter(c) :
              outs' \in Requested(c,
                  IF item.id \in c.parts \ ({c.mine, MainPartition} \cup Range(c.home))
                  THEN [c EXCEPT !.parts = @ \ {item.id}, !.news = @ \cup {"partition"}] ELSE c)
  BY DEF DeletePartition
<1>2. OutSafe(c) /\ Follows(outs, c) /\ c.dirty
  BY <1>1, CommandSafe
<1>3. CASE ~c.conn /\ outs' = c
  BY <1>2, <1>3
<1>4. CASE c.conn /\ ~(~c.conn /\ outs' = c)
  <2>1. PICK item \in ItemsAfter(c) :
            outs' \in Requested(c,
                IF item.id \in c.parts \ ({c.mine, MainPartition} \cup Range(c.home))
                THEN [c EXCEPT !.parts = @ \ {item.id}, !.news = @ \cup {"partition"}] ELSE c)
    BY <1>1, <1>4
  <2> DEFINE news == c.news \cup {"partition"}
             parts == c.parts \ {item.id}
             may == item.id \in c.parts \ ({c.mine, MainPartition} \cup Range(c.home))
             g == [c EXCEPT !.parts = parts, !.news = news]
             d == IF may THEN g ELSE c
  <2>2. outs' \in Requested(c, d)
    BY <2>1
  <2>3. c \in OutRecords
    BY <1>2 DEF OutSafe
  <2>4. /\ news \in SUBSET ViewFlags /\ news # {} /\ parts \in SUBSET Partitions
        /\ may => c.mine \in parts /\ MainPartition \in parts
    BY <1>2, <2>3 DEF OutRecords, ViewFlags, OutSafe
  <2> HIDE DEF news, parts, may
  <2>5. CASE may
    <3>1. /\ g \in OutRecords /\ SameList(g, c) /\ g.news = news /\ g.parts = parts /\ g.events = c.events
          /\ g.mine = c.mine /\ g.conn = c.conn /\ g.status = c.status /\ g.active = c.active /\ g.dirty = c.dirty
      BY <2>3, <2>4 DEF OutRecords, SameList
    <3> HIDE DEF g
    <3>2. OutSafe(g)
      BY <1>2, <1>4, <2>4, <2>5, <3>1, ToldSafe
    <3> QED
      BY <1>2, <2>2, <2>5, <3>1, <3>2, RequestSafe
  <2>6. CASE ~may
    BY <1>2, <2>2, <2>6, RequestSafe DEF SameList
  <2> QED
    BY <2>5, <2>6
<1> QED
  BY <1>1, <1>3, <1>4

LEMMA CreateSafe ==
    ASSUME OutSafe(outs), CreatePartition
    PROVE  OutSafe(outs') /\ Follows(outs, outs')
<1>1. PICK c \in Connection(ViewCommand(outs)), p \in Partitions :
         \/ ~c.conn /\ outs' = c
         \/ c.conn /\ outs' \in Requested(c,
              IF p \notin c.parts
              THEN [c EXCEPT !.parts = @ \cup {p}, !.news = @ \cup {"partition"}] ELSE c)
  BY DEF CreatePartition
<1>2. OutSafe(c) /\ Follows(outs, c) /\ c.dirty
  BY <1>1, CommandSafe
<1>3. CASE ~c.conn /\ outs' = c
  BY <1>2, <1>3
<1>4. CASE c.conn /\ ~(~c.conn /\ outs' = c)
  <2> DEFINE news == c.news \cup {"partition"}
             parts == c.parts \cup {p}
             g == [c EXCEPT !.parts = parts, !.news = news]
             d == IF p \notin c.parts THEN g ELSE c
  <2>1. outs' \in Requested(c, d)
    BY <1>1, <1>4
  <2>2. c \in OutRecords
    BY <1>2 DEF OutSafe
  <2>3. /\ news \in SUBSET ViewFlags /\ news # {} /\ parts \in SUBSET Partitions
        /\ c.mine \in parts /\ MainPartition \in parts
    BY <1>2, <2>2 DEF OutRecords, ViewFlags, OutSafe
  <2> HIDE DEF news, parts
  <2>4. CASE p \notin c.parts
    <3>1. /\ g \in OutRecords /\ SameList(g, c) /\ g.news = news /\ g.parts = parts /\ g.events = c.events
          /\ g.mine = c.mine /\ g.conn = c.conn /\ g.status = c.status /\ g.active = c.active /\ g.dirty = c.dirty
      BY <2>2, <2>3 DEF OutRecords, SameList
    <3> HIDE DEF g
    <3>2. OutSafe(g)
      BY <1>2, <1>4, <2>3, <3>1, ToldSafe
    <3> QED
      BY <1>2, <2>1, <2>4, <3>1, <3>2, RequestSafe
  <2>5. CASE p \in c.parts
    BY <1>2, <2>1, <2>5, RequestSafe DEF SameList
  <2> QED
    BY <2>4, <2>5
<1> QED
  BY <1>1, <1>3, <1>4

\* The name of a partition is asked for, or the question withdrawn.
LEMMA AskingSafe ==
    ASSUME NEW s, OutSafe(s), NEW b \in BOOLEAN, NEW f, f = [s EXCEPT !.dialog = b]
    PROVE  OutSafe(f) /\ f.items = s.items /\ f.on = s.on
<1>1. s \in OutRecords
  BY DEF OutSafe
<1>2. /\ f \in OutRecords /\ SameList(f, s) /\ SameTalk(f, s) /\ SameLines(f, s) /\ f.dirty = s.dirty
  BY <1>1 DEF OutRecords, SameList, SameTalk, SameLines
<1>3. LinesOf(f) = LinesOf(s) /\ OwnPartition(f) = OwnPartition(s)
  BY <1>2, LinesKept DEF OwnPartition, SameLines
<1> QED
  BY <1>2, <1>3 DEF OutSafe, SameList, SameTalk, SameLines, Sized, Cut, Offline

LEMMA AskSafe ==
    ASSUME OutSafe(outs), AskPartitionName \/ CancelPartitionName
    PROVE  OutSafe(outs') /\ outs'.items = outs.items
<1>0. OutSafe(ViewCommand(outs)) /\ ViewCommand(outs).items = outs.items /\ outs.conn \in BOOLEAN
  BY ViewSafe DEF SameList, OutSafe, OutRecords
<1>1. CASE AskPartitionName
  <2>1. outs' = [ViewCommand(outs) EXCEPT !.dialog = outs.conn]
    BY <1>1 DEF AskPartitionName
  <2> QED
    BY <1>0, <2>1, AskingSafe
<1>2. CASE CancelPartitionName
  <2>1. PICK s \in {outs, ViewCommand(outs)} : outs' = [s EXCEPT !.dialog = FALSE]
    BY <1>2 DEF CancelPartitionName
  <2>2. OutSafe(s) /\ s.items = outs.items
    BY <1>0
  <2> QED
    BY <2>1, <2>2, AskingSafe
<1> QED
  BY <1>1, <1>2

LEMMA LookSafe ==
    ASSUME OutSafe(outs), ScreenUpdateOutputs \/ OtherCommand
    PROVE  OutSafe(outs') /\ Follows(outs, outs')
<1>1. OutSafe(ViewCommand(outs)) /\ CursorHashes(ViewCommand(outs)) = CursorHashes(outs)
  BY ViewSafe
<1>2. CASE ScreenUpdateOutputs
  <2>1. OutSafe(outs') /\ Follows(ViewCommand(outs), outs')
    BY <1>1, <1>2, ReloadSafe DEF ScreenUpdateOutputs
  <2> QED
    BY <1>1, <2>1 DEF Follows
<1>3. CASE OtherCommand
  <2>1. CASE outs' = ViewCommand(outs)
    BY <1>1, <2>1, ViewSafe, SameListFollows DEF OutSafe
  <2>2. CASE outs' \in Connection(ViewCommand(outs))
    BY <2>2, CommandSafe
  <2> QED
    BY <1>3, <2>1, <2>2 DEF OtherCommand
<1> QED
  BY <1>2, <1>3

\* The cursor moves, or a range begins at it.
LEMMA MoveSafe ==
    ASSUME OutSafe(outs), MoveToOutput \/ SelectRange
    PROVE  OutSafe(outs') /\ outs'.items = outs.items
<1> DEFINE v == ViewCommand(outs)
<1>1. OutSafe(v) /\ SameList(v, outs) /\ v \in OutRecords
  BY ViewSafe DEF OutSafe
<1> HIDE DEF v
<1>2. ASSUME NEW c \in Nat \ {0}, c <= Len(outs.items) \/ c = v.cursor, NEW r \in BOOLEAN,
             outs' = [v EXCEPT !.cursor = c, !.range = r]
      PROVE  OutSafe(outs') /\ outs'.items = outs.items
  <2>1. /\ outs' \in OutRecords /\ outs'.items = v.items /\ outs'.length = v.length /\ outs'.cursor = c
        /\ SameTalk(outs', v) /\ SameLines(outs', v) /\ outs'.dirty = v.dirty
    BY <1>1, <1>2 DEF OutRecords, SameTalk, SameLines
  <2>2. LinesOf(outs') = LinesOf(v) /\ OwnPartition(outs') = OwnPartition(v)
    BY <2>1, LinesKept DEF OwnPartition, SameLines
  <2>3. Sized(outs')
    BY <1>1, <1>2, <2>1 DEF OutSafe, Sized, SameList
  <2> QED
    BY <1>1, <2>1, <2>2, <2>3 DEF OutSafe, SameList, SameTalk, SameLines, Cut, Offline
<1>3. CASE MoveToOutput
  <2>1. PICK c \in DOMAIN outs.items, r \in {outs.range, FALSE} :
            outs' = [v EXCEPT !.cursor = c, !.range = r]
    BY <1>3 DEF MoveToOutput, v
  <2>2. c \in Nat \ {0} /\ c <= Len(outs.items)
    BY <2>1, ItemsAreLists DEF OutSafe
  <2>3. r \in BOOLEAN
    BY DEF OutSafe, OutRecords
  <2> QED
    BY <1>2, <2>1, <2>2, <2>3
<1>4. CASE SelectRange
  <2>1. outs' = [v EXCEPT !.range = ~v.range]
    BY <1>4 DEF SelectRange, v
  <2>2. v.cursor \in Nat \ {0} /\ (~v.range) \in BOOLEAN
    BY <1>1 DEF OutRecords
  <2>3. outs' = [v EXCEPT !.cursor = v.cursor, !.range = ~v.range]
    BY <1>1, <2>1 DEF OutRecords
  <2> QED
    BY <1>2, <2>2, <2>3
<1> QED
  BY <1>3, <1>4

-----------------------------------------------------------------------------
(* Callbacks of the event loop, and MPD *)

LEMMA DrawSafe ==
    ASSUME OutSafe(outs), DrawOutputs
    PROVE  OutSafe(outs') /\ Follows(outs, outs')
<1> DEFINE shown == [outs EXCEPT !.active = outs.status]
           none == {}
<1>0. outs \in OutRecords
  BY DEF OutSafe
<1>1. shown = outs
  BY <1>0 DEF OutSafe, OutRecords
<1>2. PICK s \in (IF outs.events # {} THEN ReloadOutputs(outs) ELSE {outs}) :
            outs' = [s EXCEPT !.dirty = FALSE, !.events = none]
  <2>1. \E s \in (IF outs.events # {} THEN ReloadOutputs(shown) ELSE {shown}) :
            outs' = [s EXCEPT !.dirty = FALSE, !.events = none]
    BY DEF DrawOutputs
  <2> HIDE DEF shown
  <2> QED
    BY <1>1, <2>1
<1>3. OutSafe(s) /\ Follows(outs, s) /\ (s.conn /\ s.news = {} => Range(s.items) = LinesOf(s))
  <2>1. CASE outs.events # {}
    BY <1>2, <2>1, ReloadSafe
  <2>2. CASE outs.events = {}
    <3>1. s = outs
      BY <1>2, <2>2
    <3> QED
      BY <2>2, <3>1, SameListFollows DEF OutSafe, SameList
  <2> QED
    BY <2>1, <2>2
<1>4. none \in SUBSET ViewFlags
  OBVIOUS
<1> HIDE DEF none
<1>5. /\ outs' \in OutRecords /\ SameList(outs', s) /\ SameLines(outs', s) /\ ~outs'.dirty /\ outs'.events = none
      /\ outs'.news = s.news /\ outs'.conn = s.conn /\ outs'.idle = s.idle
      /\ outs'.status = s.status /\ outs'.active = s.active
  BY <1>2, <1>3, <1>4 DEF OutRecords, SameList, SameLines, OutSafe
<1>6. LinesOf(outs') = LinesOf(s) /\ OwnPartition(outs') = OwnPartition(s)
  BY <1>5, LinesKept DEF OwnPartition, SameLines
<1>7. OutSafe(outs')
  BY <1>3, <1>5, <1>6 DEF OutSafe, SameList, SameLines, Sized, Cut, Offline, none
<1> QED
  BY <1>3, <1>5, <1>7, ThenFollows

LEMMA TalkSafe ==
    ASSUME OutSafe(outs), OutputsTimer \/ OutputsEvent \/ OutputsLost
    PROVE  OutSafe(outs') /\ Follows(outs, outs')
<1>1. CASE OutputsTimer
  BY <1>1, UpdateClientSafe DEF OutputsTimer
<1>2. CASE OutputsEvent
  <2>1. outs' \in Connection(outs)
    BY <1>2 DEF OutputsEvent, Connection
  <2> QED
    BY <2>1, ConnectionSafe
<1>3. CASE OutputsLost
  BY <1>3, LoseSafe, NothingListed DEF OutputsLost
<1> QED
  BY <1>1, <1>2, <1>3

LEMMA IdleSafe ==
    ASSUME OutSafe(outs), EnterOutputsIdle
    PROVE  OutSafe(outs') /\ outs'.items = outs.items
<1>1. outs \in OutRecords /\ outs.conn /\ outs' = [outs EXCEPT !.idle = TRUE]
  BY DEF OutSafe, EnterOutputsIdle
<1>2. /\ outs' \in OutRecords /\ SameList(outs', outs) /\ SameLines(outs', outs)
      /\ outs'.news = outs.news /\ outs'.conn = outs.conn /\ outs'.events = outs.events /\ outs'.dirty = outs.dirty
      /\ outs'.status = outs.status /\ outs'.active = outs.active
  BY <1>1 DEF OutRecords, SameList, SameLines
<1>3. LinesOf(outs') = LinesOf(outs) /\ OwnPartition(outs') = OwnPartition(outs)
  BY <1>2, LinesKept DEF OwnPartition, SameLines
<1> QED
  BY <1>1, <1>2, <1>3 DEF OutSafe, SameList, SameLines, Sized

LEMMA ConnectedSafe ==
    ASSUME OutSafe(outs), OutputsConnected
    PROVE  OutSafe(outs') /\ Follows(outs, outs')
<1> DEFINE e == ViewFlags
           s == [outs EXCEPT !.conn = TRUE, !.events = e]
<1>1. outs \in OutRecords /\ ~outs.conn /\ outs' \in UpdateClientOutputs(s) /\ Cut(outs)
  BY DEF OutSafe, OutputsConnected
<1>2. e \in SUBSET ViewFlags /\ e # {}
  BY DEF ViewFlags
<1> HIDE DEF e
<1>3. /\ s \in OutRecords /\ SameList(s, outs) /\ s.mine = outs.mine /\ s.parts = outs.parts /\ s.conn /\ ~s.idle
      /\ s.events = e
  BY <1>1, <1>2 DEF OutRecords, SameList, Cut, Offline
<1> HIDE DEF s
<1>4. Connection(s) = {s}
  BY <1>3 DEF Connection
<1>5. outs' \in ScreenUpdates(StatusUpdates(s))
  <2>1. UNION {StatusUpdates(c) : c \in {s}} = StatusUpdates(s)
    BY Zenon
  <2> QED
    BY <1>1, <1>4, <2>1 DEF UpdateClientOutputs
<1>6. Sized(s) /\ s.mine \in s.parts /\ MainPartition \in s.parts
  BY <1>3 DEF OutSafe, Sized, SameList
<1>7. OutSafe(outs') /\ Follows(s, outs')
  BY <1>2, <1>3, <1>5, <1>6, RefreshSafe
<1>8. CursorHashes(s) = CursorHashes(outs)
  BY <1>1, <1>3, SameListFollows
<1> QED
  BY <1>7, <1>8 DEF Follows

\* What others do is told to a client that is connected.
LEMMA OthersSafe ==
    ASSUME OutSafe(outs), OthersChange
    PROVE  OutSafe(outs') /\ outs'.items = outs.items
<1>1. outs \in OutRecords
  BY DEF OutSafe
<1>2. ASSUME NEW on \in SUBSET Outputs, NEW home \in [Outputs -> Partitions], NEW parts \in SUBSET Partitions,
             outs.mine \in parts, MainPartition \in parts, NEW flag \in ViewFlags, NEW news,
             news = outs.news \cup (IF outs.conn THEN {flag} ELSE {}),
             outs' = [outs EXCEPT !.on = on, !.home = home, !.parts = parts, !.news = news]
      PROVE  OutSafe(outs') /\ outs'.items = outs.items
  <2>1. news \in SUBSET ViewFlags /\ (outs.conn => news # {}) /\ (~outs.conn => news = outs.news)
    BY <1>1, <1>2 DEF OutRecords
  <2>2. /\ outs' \in OutRecords /\ SameList(outs', outs) /\ outs'.parts = parts /\ outs'.mine = outs.mine
        /\ outs'.news = news /\ outs'.conn = outs.conn /\ outs'.idle = outs.idle /\ outs'.events = outs.events
        /\ outs'.dirty = outs.dirty /\ outs'.status = outs.status /\ outs'.active = outs.active
    BY <1>1, <1>2, <2>1 DEF OutRecords, SameList
  <2> QED
    BY <1>2, <2>1, <2>2 DEF OutSafe, SameList, Sized, Cut, Offline
<1>3. outs.on \in SUBSET Outputs /\ outs.home \in [Outputs -> Partitions] /\ outs.parts \in SUBSET Partitions
  BY <1>1 DEF OutRecords
<1>4. outs.mine \in outs.parts /\ MainPartition \in outs.parts
  BY DEF OutSafe
<1>5. "output" \in ViewFlags /\ "partition" \in ViewFlags
  BY DEF ViewFlags
<1>6. ASSUME NEW o \in Outputs,
             outs' = [outs EXCEPT !.on = SymDiff(outs.on, {o}),
                                  !.news = outs.news \cup (IF outs.conn THEN {"output"} ELSE {})]
      PROVE  OutSafe(outs') /\ outs'.items = outs.items
  <2> DEFINE on == SymDiff(outs.on, {o})
             news == outs.news \cup (IF outs.conn THEN {"output"} ELSE {})
  <2>1. on \in SUBSET Outputs
    BY <1>3 DEF SymDiff
  <2> HIDE DEF on
  <2>2. outs' = [outs EXCEPT !.on = on, !.home = outs.home, !.parts = outs.parts, !.news = news]
    BY <1>1, <1>6 DEF OutRecords, on
  <2> QED
    BY <1>2, <1>3, <1>4, <1>5, <2>1, <2>2
<1>7. ASSUME NEW o \in Outputs, NEW p \in outs.parts,
             outs' = [outs EXCEPT !.home[o] = p,
                                  !.news = outs.news \cup (IF outs.conn THEN {"output"} ELSE {})]
      PROVE  OutSafe(outs') /\ outs'.items = outs.items
  <2> DEFINE home == [outs.home EXCEPT ![o] = p]
             news == outs.news \cup (IF outs.conn THEN {"output"} ELSE {})
  <2>1. home \in [Outputs -> Partitions]
    BY <1>3
  <2>2. outs' = [outs EXCEPT !.home = home, !.news = news]
    BY <1>1, <1>7 DEF OutRecords
  <2> HIDE DEF home
  <2>3. outs' = [outs EXCEPT !.on = outs.on, !.home = home, !.parts = outs.parts, !.news = news]
    BY <1>1, <2>2 DEF OutRecords
  <2> QED
    BY <1>2, <1>3, <1>4, <1>5, <2>1, <2>3
<1>8. ASSUME NEW p \in Partitions \ ({MainPartition, outs.mine} \cup Range(outs.home)),
             outs' = [outs EXCEPT !.parts = SymDiff(outs.parts, {p}),
                                  !.news = outs.news \cup (IF outs.conn THEN {"partition"} ELSE {})]
      PROVE  OutSafe(outs') /\ outs'.items = outs.items
  <2> DEFINE parts == SymDiff(outs.parts, {p})
             news == outs.news \cup (IF outs.conn THEN {"partition"} ELSE {})
  <2>1. parts \in SUBSET Partitions /\ outs.mine \in parts /\ MainPartition \in parts
    BY <1>3, <1>4, <1>8 DEF SymDiff
  <2> HIDE DEF parts
  <2>2. outs' = [outs EXCEPT !.on = outs.on, !.home = outs.home, !.parts = parts, !.news = news]
    BY <1>1, <1>8 DEF OutRecords, parts
  <2> QED
    BY <1>2, <1>3, <1>4, <1>5, <2>1, <2>2
<1> QED
  BY <1>6, <1>7, <1>8 DEF OthersChange

-----------------------------------------------------------------------------
(* What the user sees of it *)

LEMMA OutInit == ASSUME OutputsInit PROVE OutSafe(outs)
<1>1. PICK parted \in BOOLEAN :
        outs = [on |-> {}, home |-> [o \in Outputs |-> MainPartition], parts |-> {MainPartition},
                mine |-> MainPartition, news |-> {}, parted |-> parted,
                conn |-> FALSE, idle |-> FALSE, status |-> NoPartition,
                events |-> {}, dirty |-> FALSE,
                items |-> <<>>, length |-> 0, cursor |-> 1, range |-> FALSE,
                active |-> NoPartition, dialog |-> FALSE]
  BY DEF OutputsInit
<1>2. outs \in OutRecords
  BY <1>1, Bounds DEF OutRecords
<1> QED
  BY <1>1, <1>2 DEF OutSafe, Sized, Cut, Offline, Range

LEMMA OutStep ==
    ASSUME OutSafe(outs), [OutputsNext]_outs
    PROVE  OutSafe(outs') /\ (outs'.items = outs.items \/ Follows(outs, outs'))
<1>1. CASE ToggleOutput
  BY <1>1, ToggleSafe
<1>2. CASE ActivatePartition
  BY <1>2, ActivateSafe
<1>3. CASE DeletePartition
  BY <1>3, DeleteSafe
<1>4. CASE AskPartitionName \/ CancelPartitionName
  BY <1>4, AskSafe
<1>5. CASE CreatePartition
  BY <1>5, CreateSafe
<1>6. CASE ScreenUpdateOutputs \/ OtherCommand
  BY <1>6, LookSafe
<1>7. CASE MoveToOutput \/ SelectRange
  BY <1>7, MoveSafe
<1>8. CASE DrawOutputs
  BY <1>8, DrawSafe
<1>9. CASE OutputsTimer \/ OutputsEvent \/ OutputsLost
  BY <1>9, TalkSafe
<1>10. CASE EnterOutputsIdle
  BY <1>10, IdleSafe
<1>11. CASE OutputsConnected
  BY <1>11, ConnectedSafe
<1>12. CASE OthersChange
  BY <1>12, OthersSafe
<1>13. CASE UNCHANGED outs
  BY <1>13
<1> QED
  BY <1>1, <1>2, <1>3, <1>4, <1>5, <1>6, <1>7, <1>8, <1>9, <1>10, <1>11, <1>12, <1>13 DEF OutputsNext

LEMMA OutSafeIsRight == OutSafe(outs) => OutputsTypeOK /\ ListsOutputs
<1> SUFFICES ASSUME OutSafe(outs) PROVE OutputsTypeOK /\ ListsOutputs
  OBVIOUS
<1>1. /\ outs \in OutRecords /\ outs.length \in Nat /\ outs.cursor \in Nat \ {0}
      /\ outs.events \subseteq ViewFlags /\ outs.news \subseteq ViewFlags
  BY DEF OutSafe, OutRecords
<1>2. OutputsTypeOK
  BY <1>1, AtLeastOne DEF OutSafe, Sized, OutputsTypeOK
<1>3. ListsOutputs
  BY <1>1, LinesFacts DEF ListsOutputs, OutSafe, Cut, Offline
<1> QED
  BY <1>2, <1>3

\* What the cursor does when the list changes
LEMMA CursorStaysOn ==
    ASSUME Follows(outs, outs') \/ outs'.items = outs.items
    PROVE  outs'.items # outs.items
             => \A hash \in CursorHashes(outs) :
                  \/ hash = NoHash \/ CursorHashes(outs') = {hash}
                  \/ \A item \in Range(outs'.items) : HashOf(item) # hash
BY DEF Follows, HasHash

\* However often a command or a reload is overtaken by an update, what is listed, once drawn, is
\* what MPD has (maybe twice), under a cursor that keeps its output, as far as the code reads a
\* line that is there.  A toggle is of what the line shows when the page was not reloaded between
\* the command and its request; nothing is said of a toggle that was (OutputsPage).
THEOREM OutputsPageIsAsTold == OutputsSpec => OutputsAsTold
<1> DEFINE Stays == outs'.items # outs.items
                     => \A hash \in CursorHashes(outs) :
                          \/ hash = NoHash \/ CursorHashes(outs') = {hash}
                          \/ \A item \in Range(outs'.items) : HashOf(item) # hash
           Toggled == outs'.on # outs.on /\ ~ReloadsFirst(outs) /\ ToggleOutput
                        => LET item == outs.items[outs.cursor]
                           IN  outs'.on = IF item.on THEN outs.on \ {item.id} ELSE outs.on \cup {item.id}
<1>1. OutputsInit => OutSafe(outs)
  BY OutInit
<1>2. OutSafe(outs) /\ [OutputsNext]_outs => OutSafe(outs)'
  <2>1. OutSafe(outs)' <=> OutSafe(outs')
    BY DEF OutSafe, Sized, Cut, Offline, OwnPartition, LinesOf
  <2> QED
    BY <2>1, OutStep
<1>3. OutSafe(outs) => OutputsTypeOK /\ ListsOutputs
  BY OutSafeIsRight
<1>4. OutSafe(outs) /\ [OutputsNext]_outs => [Stays]_outs
  BY OutStep, CursorStaysOn
<1>5. OutSafe(outs) /\ [OutputsNext]_outs => [Toggled]_outs
  BY ToggleSafe
<1> QED
  BY <1>1, <1>2, <1>3, <1>4, <1>5, PTL DEF OutputsSpec, OutputsAsTold, CursorKeepsOutput, TogglesAsShown
-----------------------------------------------------------------------------
(* The queue page *)

SongLists == {l \in Seq(QueueSongs) : Len(l) <= QueueBound /\ IsInjective(l)}

QueueRecords ==
    [queue : SongLists, playing : QueueSongs \cup {NoSongId}, news : SUBSET PageEvents,
     conn : BOOLEAN, idle : BOOLEAN, events : SUBSET PageEvents, list : SongLists,
     status : {NotPlaying} \cup [id : QueueSongs, pos : 0..(QueueBound - 1)],
     dirty : BOOLEAN, open : BOOLEAN, pending : SUBSET PageEvents, length : 0..QueueBound,
     cursor : -1..QueueBound, base : NoRange..QueueBound,
     selected : QueueSongs \cup {NoSongId}, current : QueueSongs \cup {NoSongId},
     searching : BOOLEAN, unsaved : BOOLEAN]

\* The lines are within the list window.
LinesValid(q) ==
    /\ ValidLine(q, q.cursor) = q.cursor
    /\ q.base # NoRange => ValidLine(q, q.base) = q.base

\* Whatever the replica lacks has been announced, by MPD or by the command itself, and what is
\* announced will be shown.
QueueSound(q) ==
    /\ q \in QueueRecords
    /\ "queue" \notin q.news => q.list = q.queue
    /\ q.events # {} => q.dirty
    /\ q.open /\ ~q.dirty => q.length = Len(q.list)
    /\ ~(q.open /\ q.dirty) => LinesValid(q)

\* The song under the cursor is the one that was chosen,
ChoiceRight(q) == ~q.unsaved /\ q.selected # NoSongId => GetSelectedSong(q) = q.selected

\* unless an event tells otherwise.
ChoiceTold(q) == q.open /\ "queue" \notin q.news \cup q.events => ChoiceRight(q)

QueueSafe(q) == QueueSound(q) /\ ChoiceTold(q)

LEMMA QueueFacts == QueueBound \in Nat /\ NoSongId \notin QueueSongs /\ \A i : NotPlaying.id # i => i # NoSongId
  BY QueueAssumption DEF NotPlaying

\* A list of songs, item by item
LEMMA SongListFacts ==
    ASSUME NEW l
    PROVE  l \in SongLists <=>
              /\ l \in Seq(QueueSongs) /\ Len(l) \in 0..QueueBound
              /\ \A i, j \in 1..Len(l) : l[i] = l[j] => i = j
<1>1. l \in Seq(QueueSongs) => DOMAIN l = 1..Len(l) /\ Len(l) \in Nat
  BY LenProperties
<1>2. l \in Seq(QueueSongs) => (Len(l) \in 0..QueueBound <=> Len(l) <= QueueBound)
  BY <1>1, QueueAssumption
<1> QED
  BY <1>1, <1>2 DEF SongLists, IsInjective

LEMMA SongOf ==
    ASSUME NEW l \in SongLists
    PROVE  /\ Len(l) \in 0..QueueBound /\ Len(l) \in Nat
           /\ \A i \in 1..Len(l) : l[i] \in QueueSongs /\ l[i] # NoSongId /\ Contains(l, l[i])
           /\ \A i : i \in 0..(Len(l) - 1) => SongAt(l, i) = l[i + 1] /\ i + 1 \in 1..Len(l)
           /\ \A i : i \notin 0..(Len(l) - 1) => SongAt(l, i) = NoSongId
           /\ \A i : SongAt(l, i) \in QueueSongs \cup {NoSongId}
<1>1. l \in Seq(QueueSongs) /\ Len(l) \in 0..QueueBound
  BY SongListFacts
<1>2. Len(l) \in Nat /\ \A i \in 1..Len(l) : l[i] \in QueueSongs
  BY <1>1, LenProperties, ElementOfSeq
<1>3. \A i : i \in 0..(Len(l) - 1) => i + 1 \in 1..Len(l)
  BY <1>2
<1> QED
  BY <1>1, <1>2, <1>3, QueueFacts DEF SongAt, Contains

\* The position of a song
LEMMA SongFound ==
    ASSUME NEW l \in SongLists, NEW id
    PROVE  /\ Contains(l, id) => /\ FindById(l, id) \in 0..(Len(l) - 1)
                                 /\ l[FindById(l, id) + 1] = id /\ id \in QueueSongs
           /\ ~Contains(l, id) => FindById(l, id) = -1
<1> DEFINE Is(i) == IF i = -1 THEN ~Contains(l, id) ELSE l[i + 1] = id
           Places == -1..(Len(l) - 1)
           p == FindById(l, id)
<1>1. Len(l) \in Nat /\ \A i \in 1..Len(l) : l[i] \in QueueSongs
  BY SongOf
<1>2. \E i \in Places : Is(i)
  <2>1. CASE Contains(l, id)
    <3>1. PICK i \in 1..Len(l) : l[i] = id
      BY <2>1 DEF Contains
    <3>2. i - 1 \in Places /\ i - 1 # -1 /\ i - 1 + 1 = i
      BY <1>1
    <3>3. Is(i - 1)
      BY <3>1, <3>2
    <3> QED
      BY <3>2, <3>3
  <2>2. CASE ~Contains(l, id)
    <3>1. -1 \in Places
      BY <1>1
    <3> QED
      BY <2>2, <3>1
  <2> QED
    BY <2>1, <2>2
<1>3. p = CHOOSE i \in Places : Is(i)
  BY DEF FindById
<1> HIDE DEF Is, p
<1>4. p \in Places /\ Is(p)
  BY <1>2, <1>3
<1> HIDE DEF Places
<1>5. CASE p = -1
  BY <1>4, <1>5 DEF Is, p
<1>6. CASE p # -1
  <2>1. l[p + 1] = id
    BY <1>4, <1>6 DEF Is
  <2>2. p \in 0..(Len(l) - 1) /\ p + 1 \in 1..Len(l)
    BY <1>1, <1>4, <1>6 DEF Places
  <2>3. Contains(l, id) /\ id \in QueueSongs
    BY <1>1, <2>1, <2>2 DEF Contains
  <2> QED
    BY <2>1, <2>2, <2>3 DEF p
<1> QED
  BY <1>5, <1>6

LEMMA PlayingFacts ==
    ASSUME NEW l \in SongLists, NEW id
    PROVE  PlayingIn(l, id) \in {NotPlaying} \cup [id : QueueSongs, pos : 0..(QueueBound - 1)]
<1>1. CASE Contains(l, id)
  <2>1. FindById(l, id) \in 0..(Len(l) - 1) /\ id \in QueueSongs /\ Len(l) \in 0..QueueBound
    BY <1>1, SongFound, SongOf
  <2>2. FindById(l, id) \in 0..(QueueBound - 1)
    BY <2>1, QueueAssumption
  <2> QED
    BY <1>1, <2>1, <2>2 DEF PlayingIn
<1> QED
  BY <1>1 DEF PlayingIn

\* What edits make of a list of songs
LEMMA SongRemoved ==
    ASSUME NEW l \in SongLists, NEW k \in 1..Len(l)
    PROVE  /\ RemoveAt(l, k) \in SongLists /\ Len(RemoveAt(l, k)) = Len(l) - 1
           /\ \A i \in 1..(Len(l) - 1) : RemoveAt(l, k)[i] = IF i < k THEN l[i] ELSE l[i + 1]
           /\ ~Contains(RemoveAt(l, k), l[k])
<1> DEFINE n == Len(l)
           r == RemoveAt(l, k)
<1>1. l \in Seq(QueueSongs) /\ n \in 0..QueueBound /\ \A i, j \in 1..n : l[i] = l[j] => i = j
  BY SongListFacts
<1>2. /\ r \in Seq(QueueSongs) /\ Len(r) = n - 1
      /\ \A i \in 1..(n - 1) : r[i] = IF i < k THEN l[i] ELSE l[i + 1]
  BY <1>1, ItemRemoved
<1> HIDE DEF n, r
<1>3. k \in 1..n
  BY DEF n
<1>4. \A i \in 1..(n - 1) : (IF i < k THEN i ELSE i + 1) \in 1..n \ {k}
  BY <1>1, <1>3, QueueAssumption
<1>5. \A i \in 1..(n - 1) : r[i] = l[IF i < k THEN i ELSE i + 1]
  BY <1>2
<1>6. \A i, j \in 1..(n - 1) : r[i] = r[j] => i = j
  <2> SUFFICES ASSUME NEW i \in 1..(n - 1), NEW j \in 1..(n - 1), r[i] = r[j] PROVE i = j
    OBVIOUS
  <2>1. (IF i < k THEN i ELSE i + 1) = (IF j < k THEN j ELSE j + 1)
    BY <1>1, <1>4, <1>5
  <2> QED
    BY <1>1, <1>3, <2>1, QueueAssumption
<1>7. \A i \in 1..(n - 1) : r[i] # l[k]
  BY <1>1, <1>3, <1>4, <1>5
<1>8. n - 1 \in 0..QueueBound
  BY <1>1, <1>3, QueueAssumption
<1>9. r \in SongLists
  BY <1>2, <1>6, <1>8, SongListFacts
<1>10. ~Contains(r, l[k])
  BY <1>2, <1>7 DEF Contains
<1> QED
  BY <1>2, <1>9, <1>10 DEF n, r

LEMMA SongInserted ==
    ASSUME NEW l \in SongLists, NEW k \in 1..(Len(l) + 1), NEW x \in QueueSongs,
           ~Contains(l, x), Len(l) + 1 <= QueueBound
    PROVE  /\ InsertAt(l, k, x) \in SongLists /\ Len(InsertAt(l, k, x)) = Len(l) + 1
           /\ \A i \in 1..(Len(l) + 1) :
                 InsertAt(l, k, x)[i] = IF i < k THEN l[i] ELSE IF i = k THEN x ELSE l[i - 1]
<1> DEFINE n == Len(l)
           r == InsertAt(l, k, x)
<1>1. l \in Seq(QueueSongs) /\ n \in 0..QueueBound /\ \A i, j \in 1..n : l[i] = l[j] => i = j
  BY SongListFacts
<1>2. /\ r \in Seq(QueueSongs) /\ Len(r) = n + 1
      /\ \A i \in 1..(n + 1) : r[i] = IF i < k THEN l[i] ELSE IF i = k THEN x ELSE l[i - 1]
  BY <1>1, ItemInserted
<1>3. \A i \in 1..n : l[i] # x
  BY DEF Contains
<1> HIDE DEF n, r
<1>4. k \in 1..(n + 1) /\ n + 1 \in 0..QueueBound
  BY <1>1 DEF n
<1>5. \A i \in 1..(n + 1) : i # k => (IF i < k THEN i ELSE i - 1) \in 1..n
  BY <1>1, <1>4, QueueAssumption
<1>6. \A i \in 1..(n + 1) : i # k => r[i] = l[IF i < k THEN i ELSE i - 1] /\ r[i] # x
  BY <1>2, <1>3, <1>5
<1>7. r[k] = x
  BY <1>2, <1>4
<1>8. \A i, j \in 1..(n + 1) : r[i] = r[j] => i = j
  <2> SUFFICES ASSUME NEW i \in 1..(n + 1), NEW j \in 1..(n + 1), r[i] = r[j] PROVE i = j
    OBVIOUS
  <2>1. CASE i = k \/ j = k
    BY <1>6, <1>7, <2>1
  <2>2. CASE i # k /\ j # k
    <3>1. (IF i < k THEN i ELSE i - 1) = (IF j < k THEN j ELSE j - 1)
      BY <1>1, <1>5, <1>6, <2>2
    <3> QED
      BY <1>1, <1>4, <2>2, <3>1, QueueAssumption
  <2> QED
    BY <2>1, <2>2
<1>9. r \in SongLists
  BY <1>2, <1>4, <1>8, SongListFacts
<1> QED
  BY <1>2, <1>9 DEF n, r

\* A song is taken from one place to another.
LEMMA SongMoved ==
    ASSUME NEW l \in SongLists, NEW a \in 1..Len(l), NEW b \in 1..Len(l)
    PROVE  LET r == InsertAt(RemoveAt(l, a), b, l[a])
           IN  /\ r \in SongLists /\ Len(r) = Len(l)
               /\ a = b + 1 => r[a] = l[b]
               /\ b + 1 = a => r[b] = l[a]
               /\ a + 1 = b => r[a] = l[b]
               /\ r[b] = l[a]
<1> DEFINE n == Len(l)
           p == RemoveAt(l, a)
           r == InsertAt(p, b, l[a])
<1>1. n \in 0..QueueBound /\ n \in Nat /\ l[a] \in QueueSongs
  BY SongOf
<1>2. p \in SongLists /\ Len(p) = n - 1 /\ ~Contains(p, l[a])
      /\ \A i \in 1..(n - 1) : p[i] = IF i < a THEN l[i] ELSE l[i + 1]
  BY SongRemoved
<1> HIDE DEF p
<1>3. b \in 1..(Len(p) + 1) /\ Len(p) + 1 <= QueueBound /\ Len(p) + 1 = n
  BY <1>1, <1>2, QueueAssumption
<1>4. r \in SongLists /\ Len(r) = n
      /\ \A i \in 1..n : r[i] = IF i < b THEN p[i] ELSE IF i = b THEN l[a] ELSE p[i - 1]
  <2>1. /\ r \in SongLists /\ Len(r) = Len(p) + 1
        /\ \A i \in 1..(Len(p) + 1) : r[i] = IF i < b THEN p[i] ELSE IF i = b THEN l[a] ELSE p[i - 1]
    BY <1>1, <1>2, <1>3, SongInserted
  <2> QED
    BY <1>3, <2>1
<1> HIDE DEF r
<1>5. r[b] = l[a]
  BY <1>1, <1>4
<1>6. ASSUME a = b + 1 PROVE r[a] = l[b]
  <2>1. r[a] = p[a - 1]
    BY <1>1, <1>4, <1>6
  <2>2. p[a - 1] = l[b]
    BY <1>1, <1>2, <1>6
  <2> QED
    BY <2>1, <2>2
<1>7. ASSUME a + 1 = b PROVE r[a] = l[b]
  <2>1. r[a] = p[a]
    BY <1>1, <1>4, <1>7
  <2>2. p[a] = l[b]
    BY <1>1, <1>2, <1>7
  <2> QED
    BY <2>1, <2>2
<1> QED
  BY <1>4, <1>5, <1>6, <1>7 DEF r, p, n

LEMMA SongsLeft ==
    ASSUME NEW l \in SongLists, NEW a \in Int, NEW b \in Int, 0 <= a, a <= b, b <= Len(l)
    PROVE  WithoutSongs(l, a, b) \in SongLists
<1> DEFINE n == Len(l)
           p == SubSeq(l, 1, a)
           q == SubSeq(l, b + 1, n)
           r == WithoutSongs(l, a, b)
<1>1. l \in Seq(QueueSongs) /\ n \in 0..QueueBound /\ \A i, j \in 1..n : l[i] = l[j] => i = j
  BY SongListFacts
<1>2. p \in Seq(QueueSongs) /\ Len(p) = a /\ \A i \in 1..a : p[i] = l[i]
  BY <1>1, PieceFacts
<1>3. q \in Seq(QueueSongs) /\ Len(q) = n - b /\ \A i \in 1..(n - b) : q[i] = l[b + i]
  <2>1. /\ q \in Seq(QueueSongs) /\ Len(q) = IF b + 1 <= n THEN n - (b + 1) + 1 ELSE 0
        /\ \A i \in 1..(n - (b + 1) + 1) : q[i] = l[b + 1 + i - 1]
    BY <1>1, PieceFacts
  <2>2. n - (b + 1) + 1 = n - b /\ \A i \in 1..(n - b) : b + 1 + i - 1 = b + i
    BY <1>1, QueueAssumption
  <2>3. Len(q) = n - b
    BY <1>1, <2>1, QueueAssumption
  <2> QED
    BY <2>1, <2>2, <2>3
<1>4. r = p \o q
  BY DEF WithoutSongs
<1> HIDE DEF p, q, r
<1>5. /\ r \in Seq(QueueSongs) /\ Len(r) = a + (n - b)
      /\ \A i \in 1..(a + (n - b)) : r[i] = IF i <= a THEN p[i] ELSE q[i - a]
  <2>1. /\ r \in Seq(QueueSongs) /\ Len(r) = Len(p) + Len(q)
        /\ \A i \in 1..Len(r) : r[i] = IF i <= Len(p) THEN p[i] ELSE q[i - Len(p)]
    BY <1>2, <1>3, <1>4, JoinFacts
  <2> QED
    BY <1>2, <1>3, <2>1
<1>6. b <= n
  OBVIOUS
<1> HIDE DEF n
<1>7. \A i \in 1..(a + (n - b)) : (IF i <= a THEN i ELSE i + (b - a)) \in 1..n
  BY <1>1, <1>6, QueueAssumption
<1>8. \A i \in 1..(a + (n - b)) : r[i] = l[IF i <= a THEN i ELSE i + (b - a)]
  <2> SUFFICES ASSUME NEW i \in 1..(a + (n - b)) PROVE r[i] = l[IF i <= a THEN i ELSE i + (b - a)]
    OBVIOUS
  <2>1. CASE i <= a
    <3>1. i \in 1..a
      BY <1>1, <2>1, QueueAssumption
    <3> QED
      BY <1>2, <1>5, <2>1, <3>1
  <2>2. CASE ~(i <= a)
    <3>1. i - a \in 1..(n - b) /\ b + (i - a) = i + (b - a)
      BY <1>1, <2>2, QueueAssumption
    <3> QED
      BY <1>3, <1>5, <2>2, <3>1
  <2> QED
    BY <2>1, <2>2
<1>9. \A i, j \in 1..(a + (n - b)) : r[i] = r[j] => i = j
  <2> SUFFICES ASSUME NEW i \in 1..(a + (n - b)), NEW j \in 1..(a + (n - b)), r[i] = r[j] PROVE i = j
    OBVIOUS
  <2>1. (IF i <= a THEN i ELSE i + (b - a)) = (IF j <= a THEN j ELSE j + (b - a))
    BY <1>1, <1>7, <1>8
  <2> QED
    BY <1>1, <1>6, <2>1, QueueAssumption
<1>10. a + (n - b) \in 0..QueueBound
  BY <1>1, <1>6, QueueAssumption
<1> QED
  BY <1>5, <1>9, <1>10, SongListFacts DEF r

\* What the list window has no part in
SameQueue(r, q) ==
    /\ r.queue = q.queue /\ r.playing = q.playing /\ r.news = q.news /\ r.conn = q.conn /\ r.idle = q.idle
    /\ r.events = q.events /\ r.list = q.list /\ r.status = q.status /\ r.dirty = q.dirty /\ r.open = q.open

LEMMA LineFacts ==
    ASSUME NEW q, q.length \in 0..QueueBound, NEW i \in Int
    PROVE  /\ ValidLine(q, i) \in 0..QueueBound
           /\ ValidLine(q, ValidLine(q, i)) = ValidLine(q, i)
           /\ i \in 0..(q.length - 1) => ValidLine(q, i) = i
           /\ q.length > 0 => ValidLine(q, i) \in 0..(q.length - 1)
BY QueueAssumption DEF ValidLine

LEMMA ChosenFacts ==
    ASSUME NEW q \in QueueRecords
    PROVE  /\ GetSelectedSong(q) \in QueueSongs \cup {NoSongId}
           /\ GetSelectedSong(q) # NoSongId =>
                 /\ q.base = NoRange /\ q.cursor \in 0..(q.length - 1) /\ q.cursor \in 0..(Len(q.list) - 1)
                 /\ GetSelectedSong(q) = SongAt(q.list, q.cursor)
<1>1. q.list \in SongLists
  BY DEF QueueRecords
<1>2. \A i : SongAt(q.list, i) \in QueueSongs \cup {NoSongId}
  BY <1>1, SongOf
<1>3. \A i : i \notin 0..(Len(q.list) - 1) => SongAt(q.list, i) = NoSongId
  BY <1>1, SongOf
<1> QED
  BY <1>2, <1>3 DEF GetSelectedSong

LEMMA CheckedFacts ==
    ASSUME NEW q \in QueueRecords
    PROVE  LET c == CheckLines(q)
           IN  /\ c \in QueueRecords /\ LinesValid(c) /\ SameQueue(c, q)
               /\ c.length = q.length /\ c.selected = q.selected /\ c.unsaved = q.unsaved
               /\ c.cursor = ValidLine(q, q.cursor)
               /\ c.base = IF q.base = NoRange THEN NoRange ELSE ValidLine(q, q.base)
<1> DEFINE x == ValidLine(q, q.cursor)
           y == IF q.base = NoRange THEN NoRange ELSE ValidLine(q, q.base)
           c == [q EXCEPT !.cursor = x, !.base = y]
<1>1. CheckLines(q) = c
  BY DEF CheckLines
<1>2. q.length \in 0..QueueBound /\ q.cursor \in -1..QueueBound /\ q.base \in NoRange..QueueBound
  BY DEF QueueRecords
<1>3. q.cursor \in Int /\ q.base \in Int /\ NoRange \in Int /\ NoRange < -1
  BY <1>2, QueueAssumption DEF NoRange
<1>4. x \in 0..QueueBound /\ x \in -1..QueueBound /\ ValidLine(q, x) = x
  BY <1>2, <1>3, LineFacts, QueueAssumption
<1>5. y \in NoRange..QueueBound /\ (y # NoRange => ValidLine(q, y) = y)
  <2>1. ValidLine(q, q.base) \in 0..QueueBound /\ ValidLine(q, ValidLine(q, q.base)) = ValidLine(q, q.base)
    BY <1>2, <1>3, LineFacts
  <2> QED
    BY <1>3, <2>1, QueueAssumption
<1> HIDE DEF x, y
<1>6. c \in QueueRecords /\ SameQueue(c, q) /\ c.length = q.length /\ c.cursor = x /\ c.base = y
      /\ c.selected = q.selected /\ c.unsaved = q.unsaved
  BY <1>4, <1>5 DEF QueueRecords, SameQueue
<1>7. \A i : ValidLine(c, i) = ValidLine(q, i)
  BY <1>6 DEF ValidLine
<1> HIDE DEF c
<1>8. LinesValid(c)
  BY <1>4, <1>5, <1>6, <1>7 DEF LinesValid
<1> QED
  BY <1>1, <1>6, <1>8 DEF x, y

LEMMA SizedFacts ==
    ASSUME NEW q \in QueueRecords
    PROVE  LET r == SetQueueLength(q)
           IN  /\ r \in QueueRecords /\ LinesValid(r) /\ SameQueue(r, q)
               /\ r.length = Len(r.list) /\ r.selected = q.selected /\ r.unsaved = q.unsaved
               /\ GetSelectedSong(q) # NoSongId => GetSelectedSong(r) = GetSelectedSong(q)
<1> DEFINE n == Len(q.list)
           p == [q EXCEPT !.length = n]
           r == CheckLines(p)
<1>1. SetQueueLength(q) = r
  BY DEF SetQueueLength
<1>2. q.list \in SongLists /\ n \in 0..QueueBound
  BY SongOf DEF QueueRecords
<1> HIDE DEF n
<1>3. p \in QueueRecords /\ SameQueue(p, q) /\ p.length = n /\ p.cursor = q.cursor /\ p.base = q.base
      /\ p.selected = q.selected /\ p.unsaved = q.unsaved
  BY <1>2 DEF QueueRecords, SameQueue
<1> HIDE DEF p
<1>4. /\ r \in QueueRecords /\ LinesValid(r) /\ SameQueue(r, p)
      /\ r.length = p.length /\ r.selected = p.selected /\ r.unsaved = p.unsaved
      /\ r.cursor = ValidLine(p, p.cursor)
      /\ r.base = IF p.base = NoRange THEN NoRange ELSE ValidLine(p, p.base)
  BY <1>3, CheckedFacts
<1> HIDE DEF r
<1>5. SameQueue(r, q)
  BY <1>3, <1>4 DEF SameQueue
<1>6. r.list = q.list /\ r.length = n
  BY <1>3, <1>4, <1>5 DEF SameQueue
<1>7. ASSUME GetSelectedSong(q) # NoSongId PROVE GetSelectedSong(r) = GetSelectedSong(q)
  <2>1. q.base = NoRange /\ q.cursor \in 0..(n - 1) /\ GetSelectedSong(q) = SongAt(q.list, q.cursor)
    BY <1>7, ChosenFacts DEF n
  <2>2. r.cursor = q.cursor /\ r.base = NoRange
    BY <1>2, <1>3, <1>4, <2>1, QueueAssumption DEF ValidLine
  <2> QED
    BY <1>6, <2>1, <2>2 DEF GetSelectedSong
<1> QED
  BY <1>1, <1>3, <1>4, <1>5, <1>6, <1>7 DEF n

LEMMA LineSetFacts ==
    ASSUME NEW q \in QueueRecords, NEW i \in -1..QueueBound
    PROVE  LET r == SetLine(q, i)
           IN  /\ r \in QueueRecords /\ LinesValid(r) /\ SameQueue(r, q)
               /\ r.length = q.length /\ r.selected = q.selected /\ r.unsaved = q.unsaved
               /\ r.base = NoRange /\ r.cursor = ValidLine(q, i)
<1> DEFINE p == [q EXCEPT !.base = NoRange, !.cursor = i]
           r == CheckLines(p)
<1>1. SetLine(q, i) = r
  BY DEF SetLine
<1>2. NoRange \in NoRange..QueueBound
  BY QueueAssumption DEF NoRange
<1>3. p \in QueueRecords /\ SameQueue(p, q) /\ p.length = q.length /\ p.cursor = i /\ p.base = NoRange
      /\ p.selected = q.selected /\ p.unsaved = q.unsaved
  BY <1>2 DEF QueueRecords, SameQueue
<1> HIDE DEF p
<1>4. /\ r \in QueueRecords /\ LinesValid(r) /\ SameQueue(r, p)
      /\ r.length = p.length /\ r.selected = p.selected /\ r.unsaved = p.unsaved
      /\ r.cursor = ValidLine(p, i) /\ r.base = NoRange
  BY <1>3, CheckedFacts
<1> HIDE DEF r
<1>5. SameQueue(r, q)
  BY <1>3, <1>4 DEF SameQueue
<1>6. ValidLine(p, i) = ValidLine(q, i)
  BY <1>3 DEF ValidLine
<1> QED
  BY <1>1, <1>3, <1>4, <1>5, <1>6

LEMMA SavedFacts ==
    ASSUME NEW q \in QueueRecords
    PROVE  LET r == SaveQueueSelection(q)
           IN  /\ r \in QueueRecords /\ SameQueue(r, q)
               /\ r.length = q.length /\ r.cursor = q.cursor /\ r.base = q.base
               /\ LinesValid(q) => LinesValid(r)
               /\ ~r.unsaved /\ r.selected = GetSelectedSong(q) /\ GetSelectedSong(r) = GetSelectedSong(q)
<1> DEFINE x == GetSelectedSong(q)
           r == [q EXCEPT !.selected = x, !.unsaved = FALSE]
<1>1. SaveQueueSelection(q) = r
  BY DEF SaveQueueSelection
<1>2. x \in QueueSongs \cup {NoSongId}
  BY ChosenFacts
<1> HIDE DEF x
<1>3. r \in QueueRecords /\ SameQueue(r, q) /\ r.length = q.length /\ r.cursor = q.cursor /\ r.base = q.base
      /\ ~r.unsaved /\ r.selected = x
  BY <1>2 DEF QueueRecords, SameQueue
<1> HIDE DEF r
<1>4. LinesValid(q) => LinesValid(r)
  BY <1>3 DEF LinesValid, ValidLine
<1>5. GetSelectedSong(r) = x
  BY <1>3 DEF GetSelectedSong, SameQueue, x
<1> QED
  BY <1>1, <1>3, <1>4, <1>5 DEF x

LEMMA RestoredFacts ==
    ASSUME NEW q \in QueueRecords
    PROVE  LET r == RestoreQueueSelection(q)
           IN  /\ r \in QueueRecords /\ LinesValid(r) /\ SameQueue(r, q) /\ r.length = Len(r.list)
               /\ r.selected # NoSongId => GetSelectedSong(r) = r.selected
               /\ r.selected = q.selected \/ ~Contains(r.list, q.selected)
<1> DEFINE sized == SetQueueLength(q)
           pos == FindById(q.list, q.selected)
           moved == IF pos >= 0 THEN SetLine(sized, pos) ELSE sized
           saved == SaveQueueSelection(moved)
           calm == [sized EXCEPT !.unsaved = FALSE]
           r == RestoreQueueSelection(q)
<1>1. /\ sized \in QueueRecords /\ LinesValid(sized) /\ SameQueue(sized, q)
      /\ sized.length = Len(sized.list) /\ sized.selected = q.selected
  BY SizedFacts
<1>2. r = IF q.selected = NoSongId THEN sized ELSE IF GetSelectedSong(sized) = q.selected THEN calm ELSE saved
  BY DEF RestoreQueueSelection
<1>3. q.list \in SongLists /\ sized.list = q.list
  BY <1>1 DEF SameQueue, QueueRecords
<1> SUFFICES
      /\ r \in QueueRecords /\ LinesValid(r) /\ SameQueue(r, q) /\ r.length = Len(r.list)
      /\ r.selected # NoSongId => GetSelectedSong(r) = r.selected
      /\ r.selected = q.selected \/ ~Contains(r.list, q.selected)
  OBVIOUS
<1> HIDE DEF sized, r
<1>4. CASE q.selected = NoSongId
  BY <1>1, <1>2, <1>4
<1>5. CASE q.selected # NoSongId /\ GetSelectedSong(sized) = q.selected
  <2>1. r = calm
    BY <1>2, <1>5
  <2>2. calm \in QueueRecords /\ SameQueue(calm, q) /\ calm.length = sized.length /\ calm.cursor = sized.cursor
        /\ calm.base = sized.base /\ calm.selected = q.selected /\ calm.list = sized.list
    BY <1>1 DEF QueueRecords, SameQueue
  <2> HIDE DEF calm
  <2>3. LinesValid(calm) /\ GetSelectedSong(calm) = q.selected
    BY <1>1, <1>5, <2>2 DEF LinesValid, ValidLine, GetSelectedSong
  <2> QED
    BY <1>1, <2>1, <2>2, <2>3
<1>6. CASE q.selected # NoSongId /\ GetSelectedSong(sized) # q.selected
  <2>1. r = saved
    BY <1>2, <1>6
  <2>2. /\ Contains(q.list, q.selected) => pos \in 0..(Len(q.list) - 1) /\ q.list[pos + 1] = q.selected
        /\ ~Contains(q.list, q.selected) => pos = -1
    BY <1>3, SongFound
  <2>3. Len(q.list) \in 0..QueueBound
    BY <1>3, SongOf
  <2> HIDE DEF pos
  <2>4. CASE Contains(q.list, q.selected)
    <3>1. pos >= 0 /\ pos \in -1..QueueBound /\ pos \in 0..(sized.length - 1)
      BY <1>1, <1>3, <2>2, <2>3, <2>4, QueueAssumption
    <3>2. moved = SetLine(sized, pos)
      BY <3>1
    <3> HIDE DEF moved
    <3>3. /\ moved \in QueueRecords /\ LinesValid(moved) /\ SameQueue(moved, sized) /\ moved.length = sized.length
          /\ moved.base = NoRange /\ moved.cursor = ValidLine(sized, pos)
      BY <1>1, <3>1, <3>2, LineSetFacts
    <3>4. moved.cursor = pos
      BY <3>1, <3>3 DEF ValidLine
    <3>5. moved.list = q.list
      BY <1>3, <3>3 DEF SameQueue
    <3>6. SongAt(q.list, pos) = q.selected
      BY <2>2, <2>4 DEF SongAt
    <3>7. GetSelectedSong(moved) = q.selected
      BY <3>1, <3>3, <3>4, <3>5, <3>6 DEF GetSelectedSong
    <3>8. /\ saved \in QueueRecords /\ SameQueue(saved, moved) /\ saved.length = moved.length
          /\ LinesValid(saved) /\ saved.selected = q.selected /\ GetSelectedSong(saved) = q.selected
      BY <3>3, <3>7, SavedFacts
    <3> HIDE DEF saved
    <3> QED
      BY <1>1, <2>1, <3>3, <3>8 DEF SameQueue
  <2>5. CASE ~Contains(q.list, q.selected)
    <3>1. moved = sized
      BY <2>2, <2>5
    <3> HIDE DEF moved
    <3>2. /\ saved \in QueueRecords /\ SameQueue(saved, sized) /\ saved.length = sized.length
          /\ LinesValid(saved) /\ saved.selected = GetSelectedSong(sized) /\ GetSelectedSong(saved) = GetSelectedSong(sized)
      BY <1>1, <3>1, SavedFacts
    <3> HIDE DEF saved
    <3> QED
      BY <1>1, <2>1, <2>5, <3>2 DEF SameQueue
  <2> QED
    BY <2>4, <2>5
<1> QED
  BY <1>4, <1>5, <1>6

LEMMA LesserAndGreater ==
    ASSUME NEW m \in Int, NEW n \in Int
    PROVE  /\ Min({m, n}) = IF m <= n THEN m ELSE n
           /\ Max({m, n}) = IF m <= n THEN n ELSE m
<1> DEFINE a == IF m <= n THEN m ELSE n
           b == IF m <= n THEN n ELSE m
<1>1. a \in {m, n} /\ \A y \in {m, n} : a <= y
  OBVIOUS
<1>2. b \in {m, n} /\ \A y \in {m, n} : b >= y
  OBVIOUS
<1>3. \A x \in {m, n} : (\A y \in {m, n} : x <= y) => x = a
  OBVIOUS
<1>4. \A x \in {m, n} : (\A y \in {m, n} : x >= y) => x = b
  OBVIOUS
<1>5. Min({m, n}) = a
  BY <1>1, <1>3 DEF Min
<1>6. Max({m, n}) = b
  BY <1>2, <1>4 DEF Max
<1> QED
  BY <1>5, <1>6

\* The cursor is taken elsewhere, which is not saved.
ViewMoved(r, q) ==
    /\ r \in QueueRecords /\ SameQueue(r, q) /\ r.length = q.length /\ r.selected = q.selected
    /\ LinesValid(q) => LinesValid(r)
    /\ r.unsaved \/ (r.unsaved = q.unsaved /\ GetSelectedSong(r) = GetSelectedSong(q))

LEMMA UnsavedFacts ==
    ASSUME NEW q \in QueueRecords
    PROVE  LET r == [q EXCEPT !.unsaved = TRUE]
           IN  /\ r \in QueueRecords /\ SameQueue(r, q) /\ r.length = q.length /\ r.selected = q.selected
               /\ r.cursor = q.cursor /\ r.base = q.base
               /\ (LinesValid(q) => LinesValid(r)) /\ r.unsaved
<1> DEFINE r == [q EXCEPT !.unsaved = TRUE]
<1>1. r \in QueueRecords /\ SameQueue(r, q) /\ r.length = q.length /\ r.selected = q.selected
      /\ r.cursor = q.cursor /\ r.base = q.base /\ r.unsaved
  BY DEF QueueRecords, SameQueue
<1> HIDE DEF r
<1>2. LinesValid(q) => LinesValid(r)
  BY <1>1 DEF LinesValid, ValidLine
<1> QED
  BY <1>1, <1>2 DEF r

LEMMA CursorFacts ==
    ASSUME NEW q \in QueueRecords, NEW i \in -1..QueueBound
    PROVE  LET r == CheckLines([q EXCEPT !.cursor = i])
           IN  /\ r \in QueueRecords /\ SameQueue(r, q) /\ r.length = q.length /\ r.selected = q.selected
               /\ LinesValid(r)
<1> DEFINE p == [q EXCEPT !.cursor = i]
           r == CheckLines(p)
<1>1. p \in QueueRecords /\ SameQueue(p, q) /\ p.length = q.length /\ p.selected = q.selected
  BY DEF QueueRecords, SameQueue
<1> HIDE DEF p
<1>2. r \in QueueRecords /\ LinesValid(r) /\ SameQueue(r, p) /\ r.length = p.length /\ r.selected = p.selected
  BY <1>1, CheckedFacts
<1> HIDE DEF r
<1>3. SameQueue(r, q)
  BY <1>1, <1>2 DEF SameQueue
<1> QED
  BY <1>1, <1>2, <1>3 DEF r, p

LEMMA CenterFacts ==
    ASSUME NEW q \in QueueRecords, NEW center_cursor \in BOOLEAN, NEW r \in CenterPlaying(q, center_cursor)
    PROVE  ViewMoved(r, q)
<1> DEFINE v == ValidLine(q, q.cursor)
           pos == q.status.pos
<1>1. CASE q.status = NotPlaying
  BY <1>1 DEF CenterPlaying, ViewMoved, SameQueue
<1>2. CASE q.status # NotPlaying
  <2>1. pos \in 0..(QueueBound - 1) /\ q.length \in 0..QueueBound /\ q.cursor \in -1..QueueBound
    BY <1>2 DEF QueueRecords
  <2>2. pos \in Int /\ pos \in -1..QueueBound /\ v \in 0..QueueBound /\ v \in Int
    <3>1. q.cursor \in Int
      BY <2>1, QueueAssumption
    <3>2. v \in 0..QueueBound
      BY <2>1, <3>1, LineFacts
    <3> QED
      BY <2>1, <3>2, QueueAssumption
  <2>3. CASE center_cursor
    <3> DEFINE p == SetLine(q, pos)
    <3>1. r = [p EXCEPT !.unsaved = TRUE]
      BY <1>2, <2>3 DEF CenterPlaying
    <3>2. p \in QueueRecords /\ LinesValid(p) /\ SameQueue(p, q) /\ p.length = q.length /\ p.selected = q.selected
      BY <2>2, LineSetFacts
    <3> HIDE DEF p
    <3>3. /\ r \in QueueRecords /\ SameQueue(r, p) /\ r.length = p.length /\ r.selected = p.selected
          /\ (LinesValid(p) => LinesValid(r)) /\ r.unsaved
      BY <3>1, <3>2, UnsavedFacts
    <3>4. SameQueue(r, q)
      BY <3>2, <3>3 DEF SameQueue
    <3> QED
      BY <3>2, <3>3, <3>4 DEF ViewMoved
  <2>4. CASE ~center_cursor
    <3>1. r \in {[CheckLines([q EXCEPT !.cursor = i]) EXCEPT !.unsaved = TRUE] : i \in Min({v, pos})..Max({v, pos})}
      BY <1>2, <2>4 DEF CenterPlaying
    <3>2. PICK i \in Min({v, pos})..Max({v, pos}) : r = [CheckLines([q EXCEPT !.cursor = i]) EXCEPT !.unsaved = TRUE]
      BY <3>1, Zenon
    <3>3. i \in -1..QueueBound
      <4> HIDE DEF v, pos
      <4>1. Min({v, pos}) = (IF v <= pos THEN v ELSE pos) /\ Max({v, pos}) = (IF v <= pos THEN pos ELSE v)
        BY <2>2, LesserAndGreater
      <4> QED
        BY <2>2, <4>1, QueueAssumption
    <3> DEFINE p == CheckLines([q EXCEPT !.cursor = i])
    <3>4. p \in QueueRecords /\ SameQueue(p, q) /\ p.length = q.length /\ p.selected = q.selected /\ LinesValid(p)
      BY <3>3, CursorFacts
    <3>5. r = [p EXCEPT !.unsaved = TRUE]
      BY <3>2
    <3> HIDE DEF p
    <3>6. /\ r \in QueueRecords /\ SameQueue(r, p) /\ r.length = p.length /\ r.selected = p.selected
          /\ (LinesValid(p) => LinesValid(r)) /\ r.unsaved
      BY <3>4, <3>5, UnsavedFacts
    <3>7. SameQueue(r, q)
      BY <3>4, <3>6 DEF SameQueue
    <3> QED
      BY <3>4, <3>6, <3>7 DEF ViewMoved
  <2> QED
    BY <2>3, <2>4
<1> QED
  BY <1>1, <1>2

LEMMA SongChangeFacts ==
    ASSUME NEW q \in QueueRecords, NEW r \in OnSongChange(q)
    PROVE  ViewMoved(r, q)
<1> DEFINE new == [q EXCEPT !.current = q.status.id]
<1>1. r = q \/ r = new \/ r \in CenterPlaying(new, FALSE)
  BY DEF OnSongChange
<1>2. q.status.id \in QueueSongs \cup {NoSongId}
  BY DEF QueueRecords, NotPlaying
<1>3. /\ new \in QueueRecords /\ SameQueue(new, q) /\ new.length = q.length /\ new.selected = q.selected
      /\ new.cursor = q.cursor /\ new.base = q.base /\ new.unsaved = q.unsaved
  BY <1>2 DEF QueueRecords, SameQueue
<1> HIDE DEF new
<1>4. (LinesValid(q) <=> LinesValid(new)) /\ GetSelectedSong(new) = GetSelectedSong(q)
  BY <1>3 DEF LinesValid, ValidLine, GetSelectedSong, SameQueue
<1>5. CASE r = q
  BY <1>5 DEF ViewMoved, SameQueue
<1>6. CASE r = new
  BY <1>3, <1>4, <1>6 DEF ViewMoved
<1>7. CASE r \in CenterPlaying(new, FALSE)
  <2>1. ViewMoved(r, new)
    BY <1>3, <1>7, CenterFacts
  <2>2. SameQueue(r, q)
    BY <1>3, <2>1 DEF SameQueue, ViewMoved
  <2> QED
    BY <1>3, <1>4, <2>1, <2>2 DEF ViewMoved
<1> QED
  BY <1>1, <1>5, <1>6, <1>7

\* An update brings the lines into step with the queue; if the queue has changed, the cursor
\* finds its song again.
LEMMA UpdatedFacts ==
    ASSUME NEW q \in QueueRecords, NEW events, NEW r \in UpdateQueuePage(q, events)
    PROVE  /\ r \in QueueRecords /\ LinesValid(r) /\ SameQueue(r, q) /\ r.length = Len(r.list)
           /\ r.selected = q.selected \/ ~Contains(r.list, q.selected)
           /\ "queue" \in events \/ ChoiceRight(q) => ChoiceRight(r)
<1> DEFINE followed == IF "queue" \in events THEN RestoreQueueSelection(q) ELSE SetQueueLength(q)
<1>1. r = followed \/ r \in OnSongChange(followed)
  BY DEF UpdateQueuePage
<1>2. /\ followed \in QueueRecords /\ LinesValid(followed) /\ SameQueue(followed, q)
      /\ followed.length = Len(followed.list)
      /\ followed.selected = q.selected \/ ~Contains(followed.list, q.selected)
      /\ "queue" \in events \/ ChoiceRight(q) => ChoiceRight(followed)
  <2>1. CASE "queue" \in events
    <3>1. followed = RestoreQueueSelection(q)
      BY <2>1
    <3> HIDE DEF followed
    <3> QED
      BY <3>1, RestoredFacts DEF ChoiceRight
  <2>2. CASE "queue" \notin events
    <3>1. followed = SetQueueLength(q)
      BY <2>2
    <3> HIDE DEF followed
    <3> QED
      BY <2>2, <3>1, SizedFacts DEF ChoiceRight
  <2> QED
    BY <2>1, <2>2
<1> HIDE DEF followed
<1>3. CASE r = followed
  BY <1>2, <1>3
<1>4. CASE r \in OnSongChange(followed)
  <2>1. ViewMoved(r, followed)
    BY <1>2, <1>4, SongChangeFacts
  <2>2. SameQueue(r, q) /\ r.list = followed.list
    BY <1>2, <2>1 DEF SameQueue, ViewMoved
  <2> QED
    BY <1>2, <2>1, <2>2 DEF ViewMoved, ChoiceRight
<1> QED
  BY <1>1, <1>3, <1>4

\* What painting leaves as it is
Painted(r, q) ==
    /\ r.queue = q.queue /\ r.playing = q.playing /\ r.news = q.news /\ r.conn = q.conn /\ r.idle = q.idle
    /\ r.list = q.list /\ r.status = q.status /\ r.dirty = q.dirty /\ r.open = q.open /\ r.events = {}
    /\ r.selected = q.selected \/ ~Contains(r.list, q.selected)
    /\ LinesValid(q) => LinesValid(r)

LEMMA PaintFacts ==
    ASSUME NEW q \in QueueRecords, "queue" \notin q.news => q.list = q.queue,
           ~q.open => LinesValid(q), NEW r \in PaintQueue(q)
    PROVE  QueueSound(r) /\ Painted(r, q) /\ (ChoiceTold(q) => ChoiceTold(r))
<1> DEFINE Before == IF q.open THEN UpdateQueuePage(q, q.events) ELSE {[q EXCEPT !.pending = @ \cup q.events]}
<1>1. r \in {[p EXCEPT !.events = {}] : p \in Before}
  BY DEF PaintQueue
<1> HIDE DEF Before
<1>2. PICK p \in Before : r = [p EXCEPT !.events = {}]
  BY <1>1, Zenon
<1>3. /\ p \in QueueRecords /\ LinesValid(p) /\ SameQueue(p, q) /\ (q.open => p.length = Len(p.list))
      /\ p.selected = q.selected \/ ~Contains(p.list, q.selected)
      /\ ChoiceTold(q) /\ q.open /\ "queue" \notin q.news => ChoiceRight(p)
  <2>1. CASE q.open
    <3>1. p \in UpdateQueuePage(q, q.events)
      BY <2>1 DEF Before
    <3>2. /\ p \in QueueRecords /\ LinesValid(p) /\ SameQueue(p, q) /\ p.length = Len(p.list)
          /\ p.selected = q.selected \/ ~Contains(p.list, q.selected)
          /\ "queue" \in q.events \/ ChoiceRight(q) => ChoiceRight(p)
      BY <3>1, UpdatedFacts
    <3> QED
      BY <2>1, <3>2 DEF ChoiceTold
  <2>2. CASE ~q.open
    <3>1. p = [q EXCEPT !.pending = @ \cup q.events]
      BY <2>2 DEF Before
    <3>2. /\ p \in QueueRecords /\ SameQueue(p, q) /\ p.length = q.length /\ p.cursor = q.cursor
          /\ p.base = q.base /\ p.selected = q.selected
      BY <3>1 DEF QueueRecords, SameQueue
    <3>3. LinesValid(p)
      BY <2>2, <3>2 DEF LinesValid, ValidLine
    <3> QED
      BY <2>2, <3>2, <3>3
  <2> QED
    BY <2>1, <2>2
<1>4. /\ r \in QueueRecords /\ r.length = p.length /\ r.cursor = p.cursor /\ r.base = p.base
      /\ r.selected = p.selected /\ r.unsaved = p.unsaved /\ r.events = {}
      /\ r.queue = p.queue /\ r.playing = p.playing /\ r.news = p.news /\ r.conn = p.conn /\ r.idle = p.idle
      /\ r.list = p.list /\ r.status = p.status /\ r.dirty = p.dirty /\ r.open = p.open
  BY <1>2, <1>3 DEF QueueRecords
<1>5. LinesValid(r) /\ GetSelectedSong(r) = GetSelectedSong(p)
  BY <1>3, <1>4 DEF LinesValid, ValidLine, GetSelectedSong
<1>6. Painted(r, q)
  BY <1>3, <1>4, <1>5 DEF Painted, SameQueue
<1>7. QueueSound(r)
  BY <1>3, <1>4, <1>5, <1>6 DEF QueueSound, Painted
<1>8. ChoiceTold(q) => ChoiceTold(r)
  <2> SUFFICES ASSUME ChoiceTold(q), r.open, "queue" \notin r.news \cup r.events PROVE ChoiceRight(r)
    BY DEF ChoiceTold
  <2>1. q.open /\ "queue" \notin q.news
    BY <1>6 DEF Painted
  <2> QED
    BY <1>3, <1>4, <1>5, <2>1 DEF ChoiceRight
<1> QED
  BY <1>6, <1>7, <1>8

\* The replica is loaded again.
LEMMA ReplicaFacts ==
    ASSUME NEW q \in QueueRecords
    PROVE  LET r == UpdateReplica(q)
           IN  /\ r \in QueueRecords /\ r.list = q.queue
               /\ r.queue = q.queue /\ r.playing = q.playing /\ r.news = q.news /\ r.conn = q.conn /\ r.idle = q.idle
               /\ r.events = q.events /\ r.dirty = q.dirty /\ r.open = q.open
               /\ r.length = q.length /\ r.cursor = q.cursor /\ r.base = q.base
               /\ r.selected = q.selected /\ r.unsaved = q.unsaved
<1> DEFINE x == PlayingIn(q.queue, q.playing)
           y == q.queue
           r == [q EXCEPT !.list = y, !.status = x]
<1>1. y \in SongLists
  BY DEF QueueRecords
<1>2. x \in {NotPlaying} \cup [id : QueueSongs, pos : 0..(QueueBound - 1)]
  BY <1>1, PlayingFacts
<1>3. UpdateReplica(q) = r /\ y = q.queue
  BY DEF UpdateReplica
<1> HIDE DEF x, y
<1> QED
  BY <1>1, <1>2, <1>3 DEF QueueRecords

LEMMA IdleFacts ==
    ASSUME NEW q, QueueSound(q), NEW r \in OnIdleEvents(q)
    PROVE  /\ QueueSound(r) /\ (LinesValid(q) => LinesValid(r)) /\ (ChoiceTold(q) => ChoiceTold(r))
           /\ r.queue = q.queue /\ r.conn = q.conn /\ r.dirty = q.dirty /\ r.open = q.open
           /\ r.selected = q.selected \/ ~Contains(r.list, q.selected)
           /\ r.list = r.queue
<1> DEFINE told == [q EXCEPT !.events = @ \cup q.news, !.news = {}, !.idle = FALSE]
           p == UpdateReplica(told)
<1>1. r \in PaintQueue(p)
  BY DEF OnIdleEvents
<1>2. q \in QueueRecords
  BY DEF QueueSound
<1>3. /\ told \in QueueRecords /\ told.queue = q.queue /\ told.conn = q.conn /\ told.dirty = q.dirty
      /\ told.open = q.open /\ told.length = q.length /\ told.cursor = q.cursor /\ told.base = q.base
      /\ told.selected = q.selected /\ told.unsaved = q.unsaved /\ told.news = {}
      /\ told.events = q.events \cup q.news
  BY <1>2 DEF QueueRecords
<1> HIDE DEF told
<1>4. /\ p \in QueueRecords /\ p.list = q.queue /\ p.queue = q.queue /\ p.conn = q.conn /\ p.dirty = q.dirty
      /\ p.open = q.open /\ p.length = q.length /\ p.cursor = q.cursor /\ p.base = q.base
      /\ p.selected = q.selected /\ p.unsaved = q.unsaved /\ p.news = {}
      /\ p.events = q.events \cup q.news
  BY <1>3, ReplicaFacts
<1> HIDE DEF p
<1>5. LinesValid(p) <=> LinesValid(q)
  BY <1>4 DEF LinesValid, ValidLine
<1>6. ~p.open => LinesValid(p)
  BY <1>4, <1>5 DEF QueueSound
<1>7. ChoiceTold(q) => ChoiceTold(p)
  <2> SUFFICES ASSUME ChoiceTold(q), p.open, "queue" \notin p.news \cup p.events PROVE ChoiceRight(p)
    BY DEF ChoiceTold
  <2>1. q.open /\ "queue" \notin q.news \cup q.events
    BY <1>4
  <2>2. q.list = q.queue /\ ChoiceRight(q)
    BY <2>1 DEF QueueSound, ChoiceTold
  <2>3. GetSelectedSong(p) = GetSelectedSong(q)
    BY <1>4, <2>2 DEF GetSelectedSong
  <2> QED
    BY <1>4, <2>2, <2>3 DEF ChoiceRight
<1>8. QueueSound(r) /\ Painted(r, p) /\ (ChoiceTold(p) => ChoiceTold(r))
  BY <1>1, <1>4, <1>6, PaintFacts
<1> QED
  BY <1>4, <1>5, <1>7, <1>8 DEF Painted

\* A command that leaves idle mode
LEMMA LeaveFacts ==
    ASSUME NEW q, QueueSound(q), NEW r \in LeaveIdle(q)
    PROVE  /\ QueueSound(r) /\ (LinesValid(q) => LinesValid(r)) /\ (ChoiceTold(q) => ChoiceTold(r))
           /\ r.queue = q.queue /\ r.conn = q.conn /\ r.dirty = q.dirty /\ r.open = q.open
           /\ r.selected = q.selected \/ (r.list = r.queue /\ ~Contains(r.list, q.selected))
           /\ q.news = {} => /\ r.cursor = q.cursor /\ r.base = q.base /\ r.length = q.length
                             /\ r.list = q.list
<1>1. CASE q.idle /\ q.news # {}
  BY <1>1, IdleFacts DEF LeaveIdle
<1>2. CASE ~(q.idle /\ q.news # {})
  <2>1. r = [q EXCEPT !.idle = FALSE]
    BY <1>2 DEF LeaveIdle
  <2>2. q \in QueueRecords
    BY DEF QueueSound
  <2>3. /\ r \in QueueRecords /\ r.length = q.length /\ r.cursor = q.cursor /\ r.base = q.base
        /\ r.selected = q.selected /\ r.unsaved = q.unsaved /\ r.events = q.events
        /\ r.queue = q.queue /\ r.news = q.news /\ r.conn = q.conn
        /\ r.list = q.list /\ r.dirty = q.dirty /\ r.open = q.open
    BY <2>1, <2>2 DEF QueueRecords
  <2>4. (LinesValid(r) <=> LinesValid(q)) /\ GetSelectedSong(r) = GetSelectedSong(q)
    BY <2>3 DEF LinesValid, ValidLine, GetSelectedSong
  <2>5. QueueSound(r)
    BY <2>3, <2>4 DEF QueueSound
  <2>6. ChoiceTold(q) => ChoiceTold(r)
    BY <2>3, <2>4 DEF ChoiceTold, ChoiceRight
  <2> QED
    BY <2>3, <2>4, <2>5, <2>6
<1> QED
  BY <1>1, <1>2

-----------------------------------------------------------------------------
(* The queue page: the steps *)

LEMMA SoundKept ==
    ASSUME NEW q, QueueSound(q), NEW r \in QueueRecords, SameQueue(r, q), r.length = q.length,
           LinesValid(q) => LinesValid(r)
    PROVE  QueueSound(r)
BY DEF QueueSound, SameQueue

LEMMA SavedSafe ==
    ASSUME NEW q, QueueSound(q)
    PROVE  QueueSafe(SaveQueueSelection(q)) /\ SameQueue(SaveQueueSelection(q), q)
           /\ GetSelectedSong(SaveQueueSelection(q)) = GetSelectedSong(q)
<1> DEFINE r == SaveQueueSelection(q)
<1>1. q \in QueueRecords
  BY DEF QueueSound
<1>2. /\ r \in QueueRecords /\ SameQueue(r, q) /\ r.length = q.length
      /\ LinesValid(q) => LinesValid(r)
      /\ r.selected = GetSelectedSong(q) /\ GetSelectedSong(r) = GetSelectedSong(q)
  BY <1>1, SavedFacts
<1> HIDE DEF r
<1>3. QueueSound(r)
  BY <1>2, SoundKept
<1>4. ChoiceTold(r)
  BY <1>2 DEF ChoiceTold, ChoiceRight
<1> QED
  BY <1>2, <1>3, <1>4 DEF QueueSafe, r

\* Moving the cursor keeps the page right if it is saved, or noted that it is not.
LEMMA MovedSafe ==
    ASSUME NEW q, QueueSound(q), NEW r, ViewMoved(r, q), ChoiceTold(q)
    PROVE  QueueSafe(r)
<1>1. QueueSound(r)
  BY SoundKept DEF ViewMoved
<1>2. ChoiceTold(r)
  BY DEF ChoiceTold, ChoiceRight, ViewMoved, SameQueue
<1> QED
  BY <1>1, <1>2 DEF QueueSafe

LEMMA LineSafe ==
    ASSUME NEW q, QueueSound(q), NEW i \in -1..QueueBound
    PROVE  /\ QueueSound(SetLine(q, i)) /\ SameQueue(SetLine(q, i), q)
           /\ QueueSafe([SetLine(q, i) EXCEPT !.unsaved = TRUE])
           /\ QueueSafe(SaveQueueSelection(SetLine(q, i)))
<1> DEFINE p == SetLine(q, i)
           r == [p EXCEPT !.unsaved = TRUE]
<1>1. q \in QueueRecords
  BY DEF QueueSound
<1>2. p \in QueueRecords /\ LinesValid(p) /\ SameQueue(p, q) /\ p.length = q.length
  BY <1>1, LineSetFacts
<1> HIDE DEF p
<1>3. QueueSound(p)
  BY <1>2, SoundKept
<1>4. /\ r \in QueueRecords /\ SameQueue(r, p) /\ r.length = p.length
      /\ (LinesValid(p) => LinesValid(r)) /\ r.unsaved
  BY <1>2, UnsavedFacts
<1> HIDE DEF r
<1>5. QueueSound(r)
  BY <1>3, <1>4, SoundKept
<1>6. ChoiceTold(r)
  BY <1>4 DEF ChoiceTold, ChoiceRight
<1>7. QueueSafe(SaveQueueSelection(p))
  BY <1>3, SavedSafe
<1> QED
  BY <1>2, <1>3, <1>5, <1>6, <1>7 DEF QueueSafe, r, p

\* Commands that edit the queue
SameQueueLines(r, q) ==
    /\ r.conn = q.conn /\ r.dirty = q.dirty /\ r.open = q.open
    /\ r.length = q.length /\ r.cursor = q.cursor /\ r.base = q.base

LEMMA EditFacts ==
    ASSUME NEW q, QueueSound(q), q.dirty, NEW new \in SongLists
    PROVE  LET r == SendEdit(q, new)
           IN  /\ QueueSafe(r) /\ SameQueueLines(r, q) /\ r.queue = new
               /\ q.list = q.queue => r.list = new
<1> DEFINE x == IF q.list = q.queue THEN new ELSE q.list
           y == IF Contains(new, q.playing) THEN q.playing ELSE NoSongId
           e == q.events \cup {"queue"}
           n == q.news \cup {"queue"}
           r == [q EXCEPT !.queue = new, !.list = x, !.playing = y, !.events = e, !.news = n]
<1>1. SendEdit(q, new) = r
  BY DEF SendEdit
<1>2. q \in QueueRecords
  BY DEF QueueSound
<1>3. x \in SongLists /\ y \in QueueSongs \cup {NoSongId} /\ e \in SUBSET PageEvents /\ n \in SUBSET PageEvents
  BY <1>2 DEF QueueRecords, PageEvents
<1>4. (q.list = q.queue => x = new) /\ "queue" \in n
  OBVIOUS
<1> HIDE DEF x, y, e, n
<1>5. /\ r \in QueueRecords /\ SameQueueLines(r, q) /\ r.queue = new /\ r.list = x /\ r.news = n
  BY <1>2, <1>3 DEF QueueRecords, SameQueueLines
<1> HIDE DEF r
<1>6. LinesValid(q) => LinesValid(r)
  BY <1>5 DEF LinesValid, ValidLine, SameQueueLines
<1>7. QueueSound(r)
  BY <1>4, <1>5, <1>6 DEF QueueSound, SameQueueLines
<1>8. ChoiceTold(r)
  BY <1>4, <1>5 DEF ChoiceTold
<1> QED
  BY <1>1, <1>4, <1>5, <1>7, <1>8 DEF QueueSafe

LEMMA RefusedFacts ==
    ASSUME NEW q, QueueSound(q), q.dirty
    PROVE  LET r == Refused(q)
           IN  QueueSafe(r) /\ SameQueueLines(r, q) /\ r.queue = q.queue /\ r.list = q.list
<1> DEFINE e == q.events \cup {"queue"}
           r == [q EXCEPT !.events = e]
<1>1. Refused(q) = r
  BY DEF Refused
<1>2. q \in QueueRecords
  BY DEF QueueSound
<1>3. e \in SUBSET PageEvents /\ "queue" \in e
  BY <1>2 DEF QueueRecords, PageEvents
<1> HIDE DEF e
<1>4. r \in QueueRecords /\ SameQueueLines(r, q) /\ r.queue = q.queue /\ r.list = q.list /\ r.news = q.news /\ r.events = e
  BY <1>2, <1>3 DEF QueueRecords, SameQueueLines
<1> HIDE DEF r
<1>5. LinesValid(q) => LinesValid(r)
  BY <1>4 DEF LinesValid, ValidLine, SameQueueLines
<1>6. QueueSound(r)
  BY <1>4, <1>5 DEF QueueSound, SameQueueLines
<1>7. ChoiceTold(r)
  BY <1>3, <1>4 DEF ChoiceTold
<1> QED
  BY <1>1, <1>4, <1>6, <1>7 DEF QueueSafe

LEMMA MoveSongFacts ==
    ASSUME NEW q, QueueSafe(q), q.dirty, NEW dest \in Nat, NEW src \in Nat
    PROVE  LET r == RunMoveSong(q, dest, src)
           IN  /\ QueueSafe(r) /\ SameQueueLines(r, q)
               /\ dest < Len(q.queue) /\ src < Len(q.queue) /\ q.list = q.queue =>
                     /\ r.list \in SongLists /\ Len(r.list) = Len(q.list)
                     /\ src = dest + 1 => r.list[src + 1] = q.list[dest + 1]
                     /\ dest = src + 1 => r.list[src + 1] = q.list[dest + 1]
                     /\ r.list[dest + 1] = q.list[src + 1]
<1> DEFINE a == src + 1
           b == dest + 1
           l == q.queue
           new == InsertAt(RemoveAt(l, a), b, l[a])
           r == RunMoveSong(q, dest, src)
<1>1. QueueSound(q) /\ l \in SongLists
  BY DEF QueueSafe, QueueSound, QueueRecords
<1>2. Len(l) \in Nat
  BY <1>1, SongOf
<1>3. r = IF dest < Len(l) /\ src < Len(l) THEN SendEdit(q, new) ELSE Refused(q)
  BY DEF RunMoveSong
<1>4. (src = dest + 1 <=> a = b + 1) /\ (dest = src + 1 <=> a + 1 = b)
  OBVIOUS
<1> SUFFICES
      /\ QueueSafe(r) /\ SameQueueLines(r, q)
      /\ dest < Len(l) /\ src < Len(l) /\ q.list = l =>
            /\ r.list \in SongLists /\ Len(r.list) = Len(q.list)
            /\ a = b + 1 => r.list[a] = q.list[b]
            /\ a + 1 = b => r.list[a] = q.list[b]
            /\ r.list[b] = q.list[a]
  BY <1>4
<1> HIDE DEF r
<1>5. CASE dest < Len(l) /\ src < Len(l)
  <2>1. a \in 1..Len(l) /\ b \in 1..Len(l)
    BY <1>2, <1>5
  <2> HIDE DEF a, b, l
  <2>2. /\ new \in SongLists /\ Len(new) = Len(l)
        /\ a = b + 1 => new[a] = l[b]
        /\ a + 1 = b => new[a] = l[b]
        /\ new[b] = l[a]
    BY <1>1, <2>1, SongMoved
  <2> HIDE DEF new
  <2>3. r = SendEdit(q, new)
    BY <1>3, <1>5
  <2>4. QueueSafe(r) /\ SameQueueLines(r, q) /\ (q.list = l => r.list = new)
    BY <1>1, <2>2, <2>3, EditFacts DEF l
  <2> QED
    BY <2>2, <2>4
<1>6. CASE ~(dest < Len(l) /\ src < Len(l))
  BY <1>1, <1>3, <1>6, RefusedFacts
<1> QED
  BY <1>5, <1>6

LEMMA DeleteSongsFacts ==
    ASSUME NEW q, QueueSound(q), q.dirty, NEW first \in Nat, NEW end \in Nat
    PROVE  QueueSound(RunDeleteSongs(q, first, end)) /\ SameQueueLines(RunDeleteSongs(q, first, end), q)
<1> DEFINE song == SongAt(q.list, first)
           pos == FindById(q.queue, song)
           r == RunDeleteSongs(q, first, end)
<1>1. q.queue \in SongLists
  BY DEF QueueSound, QueueRecords
<1>2. r = IF end = first + 1 /\ song = NoSongId THEN q
          ELSE IF end = first + 1 /\ Contains(q.queue, song) THEN SendEdit(q, RemoveAt(q.queue, pos + 1))
          ELSE IF end > first + 1 /\ end <= Len(q.queue) THEN SendEdit(q, WithoutSongs(q.queue, first, end))
          ELSE Refused(q)
  BY DEF RunDeleteSongs
<1> HIDE DEF r
<1>3. QueueSound(r) /\ SameQueueLines(r, q)
  <2>1. CASE r = q
    BY <2>1 DEF SameQueueLines
  <2>2. CASE Contains(q.queue, song) /\ r = SendEdit(q, RemoveAt(q.queue, pos + 1))
    <3>1. pos \in 0..(Len(q.queue) - 1) /\ Len(q.queue) \in Nat
      BY <1>1, <2>2, SongFound, SongOf
    <3> HIDE DEF pos
    <3>2. pos + 1 \in 1..Len(q.queue)
      BY <3>1
    <3>3. RemoveAt(q.queue, pos + 1) \in SongLists
      BY <1>1, <3>2, SongRemoved
    <3> QED
      BY <2>2, <3>3, EditFacts DEF QueueSafe
  <2>3. CASE end > first + 1 /\ end <= Len(q.queue) /\ r = SendEdit(q, WithoutSongs(q.queue, first, end))
    <3>1. first \in Int /\ end \in Int /\ 0 <= first /\ first <= end
      BY <2>3
    <3>2. WithoutSongs(q.queue, first, end) \in SongLists
      BY <1>1, <2>3, <3>1, SongsLeft
    <3> QED
      BY <2>3, <3>2, EditFacts DEF QueueSafe
  <2>4. CASE r = Refused(q)
    BY <2>4, RefusedFacts DEF QueueSafe
  <2> HIDE DEF song, pos
  <2> QED
    BY <1>2, <2>1, <2>2, <2>3, <2>4
<1> QED
  BY <1>3 DEF r

\* Two songs change places.
LEMMA SongsSwapped ==
    ASSUME NEW l \in SongLists, NEW a \in 1..Len(l), NEW b \in 1..Len(l)
    PROVE  [l EXCEPT ![a] = l[b], ![b] = l[a]] \in SongLists
<1> DEFINE n == Len(l)
           x == l[a]
           y == l[b]
           r == [l EXCEPT ![a] = y, ![b] = x]
<1>1. l \in Seq(QueueSongs) /\ n \in 0..QueueBound /\ \A i, j \in 1..n : l[i] = l[j] => i = j
  BY SongListFacts
<1>2. n \in Nat /\ l \in [1..n -> QueueSongs] /\ x \in QueueSongs /\ y \in QueueSongs
  BY <1>1, LenProperties
<1>3. \A i \in 1..n : (l[i] = x <=> i = a) /\ (l[i] = y <=> i = b)
  BY <1>1
<1>4. a \in 1..n /\ b \in 1..n
  OBVIOUS
<1> HIDE DEF n, x, y
<1>5. r \in [1..n -> QueueSongs] /\ \A i \in 1..n : r[i] = IF i = b THEN x ELSE IF i = a THEN y ELSE l[i]
  BY <1>2, <1>4
<1> HIDE DEF r
<1>6. r \in Seq(QueueSongs) /\ Len(r) = n
  <2>1. r \in Seq(QueueSongs)
    BY <1>2, <1>5 DEF Seq
  <2> QED
    BY <1>2, <1>5, <2>1, LenProperties
<1>7. \A i, j \in 1..n : r[i] = r[j] => i = j
  BY <1>1, <1>3, <1>4, <1>5
<1>8. r \in SongLists
  BY <1>1, <1>6, <1>7, SongListFacts
<1> QED
  BY <1>8 DEF r, x, y

-----------------------------------------------------------------------------

\* Where a command of the user starts from
LEMMA UserFacts ==
    ASSUME QueueSafe(queuePage), UserActs
    PROVE  /\ queuePage \in QueueRecords /\ LinesValid(queuePage) /\ queuePage.length = Len(queuePage.list)
           /\ QueueSafe(Begun) /\ LinesValid(Begun) /\ Begun.dirty /\ Begun.open
           /\ Begun.queue = queuePage.queue /\ Begun.list = queuePage.list /\ Begun.news = queuePage.news
           /\ Begun.status = queuePage.status /\ Begun.conn = queuePage.conn
           /\ Begun.length = queuePage.length /\ Begun.cursor = queuePage.cursor /\ Begun.base = queuePage.base
<1>1. queuePage \in QueueRecords /\ LinesValid(queuePage) /\ queuePage.length = Len(queuePage.list)
      /\ queuePage.open
  BY DEF QueueSafe, QueueSound, UserActs
<1> DEFINE b == [queuePage EXCEPT !.searching = FALSE, !.dirty = TRUE]
<1>2. Begun = b
  BY DEF Begun
<1>3. /\ b \in QueueRecords /\ b.dirty /\ b.open
      /\ b.queue = queuePage.queue /\ b.list = queuePage.list /\ b.news = queuePage.news
      /\ b.status = queuePage.status /\ b.conn = queuePage.conn /\ b.events = queuePage.events
      /\ b.length = queuePage.length /\ b.cursor = queuePage.cursor /\ b.base = queuePage.base
      /\ b.selected = queuePage.selected /\ b.unsaved = queuePage.unsaved
  BY <1>1 DEF QueueRecords
<1> HIDE DEF b
<1>4. LinesValid(b) /\ GetSelectedSong(b) = GetSelectedSong(queuePage)
  BY <1>1, <1>3 DEF LinesValid, ValidLine, GetSelectedSong
<1>5. QueueSound(b)
  BY <1>3, <1>4 DEF QueueSafe, QueueSound
<1>6. ChoiceTold(b)
  BY <1>1, <1>3, <1>4 DEF QueueSafe, ChoiceTold, ChoiceRight
<1> QED
  BY <1>1, <1>2, <1>3, <1>4, <1>5, <1>6 DEF QueueSafe

LEMMA RangeFacts ==
    ASSUME NEW q \in QueueRecords, LinesValid(q)
    PROVE  /\ RangeFirst(q) \in 0..QueueBound /\ RangeFirst(q) \in Nat /\ RangeEnd(q) \in Nat
           /\ q.length = 0 => RangeFirst(q) = 0 /\ RangeEnd(q) = 0
           /\ q.length # 0 => /\ RangeFirst(q) \in 0..(q.length - 1) /\ RangeEnd(q) \in 1..q.length
                              /\ RangeFirst(q) < RangeEnd(q) /\ q.cursor \in 0..(q.length - 1)
                              /\ q.base = NoRange => RangeFirst(q) = q.cursor /\ RangeEnd(q) = q.cursor + 1
                              /\ q.base # NoRange => q.base \in 0..(q.length - 1)
<1>1. q.length \in 0..QueueBound /\ q.length \in Nat /\ q.cursor \in Int /\ q.base \in Int
  BY QueueAssumption DEF QueueRecords, NoRange
<1>2. CASE q.length = 0
  BY <1>2, QueueAssumption DEF RangeFirst, RangeEnd
<1>3. CASE q.length # 0
  <2> DEFINE c == q.cursor
             b == q.base
             n == q.length
  <2>1. c \in 0..(n - 1) /\ (b # NoRange => b \in 0..(n - 1))
    BY <1>1, <1>3, LineFacts DEF LinesValid
  <2>2. /\ Min({b, c}) = (IF b <= c THEN b ELSE c) /\ Max({b, c}) = (IF b <= c THEN c ELSE b)
    BY <1>1, LesserAndGreater
  <2>3. /\ RangeFirst(q) = IF b = NoRange THEN c ELSE Min({b, c})
        /\ RangeEnd(q) = Max({b, c}) + 1
    BY <1>3 DEF RangeFirst, RangeEnd
  <2>4. n \in 1..QueueBound
    BY <1>1, <1>3, QueueAssumption
  <2> HIDE DEF c, b, n
  <2>5. RangeFirst(q) \in 0..(n - 1) /\ RangeEnd(q) \in 1..n /\ RangeFirst(q) < RangeEnd(q)
        /\ (b = NoRange => RangeFirst(q) = c /\ RangeEnd(q) = c + 1)
    BY <2>1, <2>2, <2>3, <2>4, QueueAssumption DEF NoRange
  <2>6. RangeFirst(q) \in 0..QueueBound /\ RangeFirst(q) \in Nat /\ RangeEnd(q) \in Nat
    BY <2>4, <2>5, QueueAssumption
  <2> QED
    BY <1>3, <2>1, <2>5, <2>6 DEF c, b, n
<1> QED
  BY <1>2, <1>3

LEMMA MoveLineSafe == ASSUME QueueSafe(queuePage), MoveLine PROVE QueueSafe(queuePage')
<1>1. UserActs
  BY DEF MoveLine
<1>2. PICK i \in 0..(queuePage.length - 1) :
         queuePage' = SaveQueueSelection(CheckLines([Begun EXCEPT !.cursor = i]))
  BY DEF MoveLine
<1>3. queuePage \in QueueRecords /\ QueueSafe(Begun)
  BY <1>1, UserFacts
<1> DEFINE p == CheckLines([Begun EXCEPT !.cursor = i])
<1>4. i \in -1..QueueBound /\ Begun \in QueueRecords
  BY <1>3, QueueAssumption DEF QueueRecords, QueueSafe, QueueSound
<1>5. p \in QueueRecords /\ SameQueue(p, Begun) /\ p.length = Begun.length /\ LinesValid(p)
  BY <1>4, CursorFacts
<1>6. queuePage' = SaveQueueSelection(p)
  BY <1>2
<1> HIDE DEF p
<1>7. QueueSound(p)
  BY <1>3, <1>5, SoundKept DEF QueueSafe
<1> QED
  BY <1>6, <1>7, SavedSafe

LEMMA RangeSelectSafe == ASSUME QueueSafe(queuePage), RangeSelectLines PROVE QueueSafe(queuePage')
<1> DEFINE c == queuePage.cursor
           p == IF queuePage.base = NoRange THEN [Begun EXCEPT !.base = c] ELSE SetLine(Begun, c)
<1>1. UserActs /\ queuePage' = SaveQueueSelection(p)
  BY DEF RangeSelectLines
<1>2. /\ queuePage \in QueueRecords /\ QueueSafe(Begun) /\ LinesValid(Begun) /\ Begun \in QueueRecords
      /\ Begun.cursor = c
  BY <1>1, UserFacts DEF QueueSafe, QueueSound
<1>3. c \in -1..QueueBound /\ c \in NoRange..QueueBound
  BY <1>2, QueueAssumption DEF QueueRecords, NoRange
<1> HIDE DEF c, p
<1>4. QueueSound(p)
  <2>1. CASE queuePage.base = NoRange
    <3> DEFINE r == [Begun EXCEPT !.base = c]
    <3>1. r \in QueueRecords /\ SameQueue(r, Begun) /\ r.length = Begun.length /\ r.cursor = c /\ r.base = c
      BY <1>2, <1>3 DEF QueueRecords, SameQueue
    <3> HIDE DEF r
    <3>2. LinesValid(r)
      BY <1>2, <3>1 DEF LinesValid, ValidLine
    <3>3. QueueSound(r)
      BY <1>2, <3>1, <3>2, SoundKept DEF QueueSafe
    <3> QED
      BY <2>1, <3>3 DEF p, r
  <2>2. CASE queuePage.base # NoRange
    BY <1>2, <1>3, <2>2, LineSafe DEF QueueSafe, p
  <2> QED
    BY <2>1, <2>2
<1> QED
  BY <1>1, <1>4, SavedSafe

LEMMA ScreenUpdateSafe == ASSUME QueueSafe(queuePage), ScreenUpdate PROVE QueueSafe(queuePage')
<1>1. UserActs /\ \E twice \in BOOLEAN : queuePage' \in CenterPlaying(Begun, twice)
  BY DEF ScreenUpdate
<1>2. QueueSafe(Begun) /\ Begun \in QueueRecords
  BY <1>1, UserFacts DEF QueueSafe, QueueSound
<1>3. ViewMoved(queuePage', Begun)
  BY <1>1, <1>2, CenterFacts
<1> QED
  BY <1>2, <1>3, MovedSafe DEF QueueSafe

LEMMA SelectPlayingSafe == ASSUME QueueSafe(queuePage), SelectPlaying PROVE QueueSafe(queuePage')
<1> DEFINE pos == queuePage.status.pos
<1>1. UserActs /\ queuePage.status # NotPlaying /\ queuePage' = SaveQueueSelection(SetLine(Begun, pos))
  BY DEF SelectPlaying
<1>2. QueueSafe(Begun) /\ queuePage \in QueueRecords
  BY <1>1, UserFacts
<1>3. pos \in 0..(QueueBound - 1)
  BY <1>1, <1>2 DEF QueueRecords
<1>4. pos \in -1..QueueBound
  BY <1>3, QueueAssumption
<1> QED
  BY <1>1, <1>2, <1>4, LineSafe DEF QueueSafe

LEMMA StartSearchingSafe == ASSUME QueueSafe(queuePage), StartSearching PROVE QueueSafe(queuePage')
<1> DEFINE r == [Begun EXCEPT !.searching = TRUE]
<1>1. UserActs /\ queuePage' = r
  BY DEF StartSearching
<1>2. QueueSafe(Begun) /\ Begun \in QueueRecords
  BY <1>1, UserFacts DEF QueueSafe, QueueSound
<1>3. /\ r \in QueueRecords /\ SameQueue(r, Begun) /\ r.length = Begun.length /\ r.cursor = Begun.cursor
      /\ r.base = Begun.base /\ r.selected = Begun.selected /\ r.unsaved = Begun.unsaved
  BY <1>2 DEF QueueRecords, SameQueue
<1> HIDE DEF r
<1>4. (LinesValid(Begun) => LinesValid(r)) /\ GetSelectedSong(r) = GetSelectedSong(Begun)
  BY <1>3 DEF LinesValid, ValidLine, GetSelectedSong, SameQueue
<1>5. ViewMoved(r, Begun)
  BY <1>3, <1>4 DEF ViewMoved
<1> QED
  BY <1>1, <1>2, <1>5, MovedSafe DEF QueueSafe

LEMMA FoundSafe == ASSUME QueueSafe(queuePage), FoundWhileTyping PROVE QueueSafe(queuePage')
<1>1. PICK i \in 0..(queuePage.length - 1) : queuePage' = CheckLines([queuePage EXCEPT !.cursor = i, !.unsaved = TRUE])
  BY DEF FoundWhileTyping
<1> DEFINE q == queuePage
           p == [q EXCEPT !.cursor = i, !.unsaved = TRUE]
           r == CheckLines(p)
<1>2. q \in QueueRecords /\ QueueSound(q)
  BY DEF QueueSafe, QueueSound
<1>3. i \in -1..QueueBound
  BY <1>2, QueueAssumption DEF QueueRecords
<1>4. queuePage' = r
  BY <1>1
<1>5. p \in QueueRecords /\ SameQueue(p, q) /\ p.length = q.length /\ p.unsaved
  BY <1>2, <1>3 DEF QueueRecords, SameQueue
<1> HIDE DEF p
<1>6. r \in QueueRecords /\ LinesValid(r) /\ SameQueue(r, p) /\ r.length = p.length /\ r.unsaved
  BY <1>5, CheckedFacts
<1> HIDE DEF r, q
<1>7. SameQueue(r, q)
  BY <1>5, <1>6 DEF SameQueue
<1>8. QueueSound(r)
  BY <1>2, <1>5, <1>6, <1>7, SoundKept
<1>9. ChoiceTold(r)
  BY <1>6 DEF ChoiceTold, ChoiceRight
<1> QED
  BY <1>4, <1>8, <1>9 DEF QueueSafe

LEMMA FinishSearchingSafe == ASSUME QueueSafe(queuePage), FinishSearching PROVE QueueSafe(queuePage')
<1>1. PICK i \in {queuePage.cursor} \cup 0..(queuePage.length - 1) :
         queuePage' = SaveQueueSelection(CheckLines([queuePage EXCEPT !.searching = FALSE, !.cursor = i]))
  BY DEF FinishSearching
<1> DEFINE q == queuePage
           p == [q EXCEPT !.searching = FALSE, !.cursor = i]
           r == CheckLines(p)
<1>2. q \in QueueRecords /\ QueueSound(q)
  BY DEF QueueSafe, QueueSound
<1>3. i \in -1..QueueBound
  BY <1>2, QueueAssumption DEF QueueRecords
<1>4. queuePage' = SaveQueueSelection(r)
  BY <1>1
<1>5. p \in QueueRecords /\ SameQueue(p, q) /\ p.length = q.length
  BY <1>2, <1>3 DEF QueueRecords, SameQueue
<1> HIDE DEF p
<1>6. r \in QueueRecords /\ LinesValid(r) /\ SameQueue(r, p) /\ r.length = p.length
  BY <1>5, CheckedFacts
<1> HIDE DEF r, q
<1>7. SameQueue(r, q)
  BY <1>5, <1>6 DEF SameQueue
<1>8. QueueSound(r)
  BY <1>2, <1>5, <1>6, <1>7, SoundKept
<1> QED
  BY <1>4, <1>8, SavedSafe

LEMMA DeleteSafely == ASSUME QueueSafe(queuePage), Delete PROVE QueueSafe(queuePage')
<1> DEFINE first == RangeFirst(queuePage)
           end == RangeEnd(queuePage)
<1>1. UserActs
  BY DEF Delete
<1>2. PICK q \in LeaveIdle(Begun) :
         queuePage' = [SetLine(RunDeleteSongs(q, first, end), first) EXCEPT !.unsaved = TRUE]
  BY DEF Delete
<1>3. queuePage \in QueueRecords /\ LinesValid(queuePage) /\ QueueSafe(Begun) /\ Begun.dirty
  BY <1>1, UserFacts
<1>4. first \in 0..QueueBound /\ first \in Nat /\ end \in Nat
  BY <1>3, RangeFacts
<1>5. first \in -1..QueueBound
  BY <1>4, QueueAssumption
<1> HIDE DEF first, end
<1>6. QueueSound(q) /\ q.dirty
  BY <1>2, <1>3, LeaveFacts DEF QueueSafe
<1>7. QueueSound(RunDeleteSongs(q, first, end))
  BY <1>4, <1>6, DeleteSongsFacts
<1> QED
  BY <1>2, <1>5, <1>7, LineSafe

\* The lines go with the songs that have been moved.
LEMMA LinesMovedSafe ==
    ASSUME NEW q, QueueSound(q), q.open, q.dirty, NEW c \in -1..QueueBound, NEW b \in NoRange..QueueBound,
           NEW r, r = [q EXCEPT !.cursor = c, !.base = b]
    PROVE  QueueSafe(SaveQueueSelection(r))
<1>1. q \in QueueRecords
  BY DEF QueueSound
<1>2. r \in QueueRecords /\ SameQueue(r, q) /\ r.length = q.length
  BY <1>1 DEF QueueRecords, SameQueue
<1>3. QueueSound(r)
  BY <1>2 DEF QueueSound, SameQueue
<1> QED
  BY <1>3, SavedSafe

LEMMA MoveUpSafe == ASSUME QueueSafe(queuePage), MoveUp PROVE QueueSafe(queuePage')
<1> DEFINE first == RangeFirst(queuePage)
           end == RangeEnd(queuePage)
<1>1. UserActs /\ first > 0 /\ queuePage.length > 0
  BY DEF MoveUp
<1>2. PICK q \in LeaveIdle(Begun) :
         LET moved == RunMoveSong(q, end - 1, first - 1)
         IN  queuePage' = IF end > Len(q.queue) THEN moved
                          ELSE SaveQueueSelection(
                             [moved EXCEPT !.cursor = @ - 1, !.base = IF @ = NoRange THEN @ ELSE @ - 1])
  BY DEF MoveUp
<1>3. queuePage \in QueueRecords /\ LinesValid(queuePage) /\ QueueSafe(Begun) /\ LinesValid(Begun)
      /\ Begun.dirty /\ Begun.open
  BY <1>1, UserFacts
<1>4. first \in Nat /\ end \in Nat /\ first < end /\ queuePage.length \in 0..QueueBound
  BY <1>1, <1>3, RangeFacts, QueueAssumption DEF QueueRecords
<1>5. end - 1 \in Nat /\ first - 1 \in Nat
  BY <1>1, <1>4
<1> DEFINE moved == RunMoveSong(q, end - 1, first - 1)
           c == moved.cursor - 1
           b == IF moved.base = NoRange THEN NoRange ELSE moved.base - 1
<1>6. \/ queuePage' = moved
      \/ queuePage' = SaveQueueSelection([moved EXCEPT !.cursor = c, !.base = b])
  BY <1>2
<1> HIDE DEF first, end
<1>7. QueueSafe(q) /\ LinesValid(q) /\ q.dirty /\ q.open
  BY <1>2, <1>3, LeaveFacts DEF QueueSafe
<1>8. QueueSafe(moved) /\ SameQueueLines(moved, q)
  BY <1>5, <1>7, MoveSongFacts
<1> HIDE DEF moved
<1>9. c \in -1..QueueBound /\ b \in NoRange..QueueBound
  <2>1. q \in QueueRecords /\ q.length \in 0..QueueBound
    BY <1>7 DEF QueueSafe, QueueSound, QueueRecords
  <2>2. q.cursor \in Int /\ q.base \in Int
    BY <2>1, QueueAssumption DEF QueueRecords, NoRange
  <2>3. q.cursor \in 0..QueueBound /\ (q.base # NoRange => q.base \in 0..QueueBound)
    BY <1>7, <2>1, <2>2, LineFacts DEF LinesValid
  <2> QED
    BY <1>8, <2>2, <2>3, QueueAssumption DEF SameQueueLines, NoRange
<1> HIDE DEF c, b
<1>10. CASE queuePage' = moved
  BY <1>8, <1>10
<1>11. CASE queuePage' = SaveQueueSelection([moved EXCEPT !.cursor = c, !.base = b])
  <2> DEFINE r == [moved EXCEPT !.cursor = c, !.base = b]
  <2>1. QueueSound(moved) /\ moved.open /\ moved.dirty /\ queuePage' = SaveQueueSelection(r)
    BY <1>7, <1>8, <1>11 DEF SameQueueLines, QueueSafe
  <2>2. r = [moved EXCEPT !.cursor = c, !.base = b]
    OBVIOUS
  <2> HIDE DEF r
  <2> QED
    BY <1>9, <2>1, <2>2, LinesMovedSafe
<1> QED
  BY <1>6, <1>10, <1>11

LEMMA MoveDownSafe == ASSUME QueueSafe(queuePage), MoveDown PROVE QueueSafe(queuePage')
<1> DEFINE first == RangeFirst(queuePage)
           end == RangeEnd(queuePage)
<1>1. UserActs /\ queuePage.length > 0
  BY DEF MoveDown
<1>2. PICK q \in LeaveIdle(Begun) :
         LET moved == RunMoveSong(q, first, end)
         IN  queuePage' = IF end >= Len(q.queue) THEN moved
                          ELSE SaveQueueSelection(
                             [moved EXCEPT !.cursor = @ + 1, !.base = IF @ = NoRange THEN @ ELSE @ + 1])
  BY DEF MoveDown
<1>3. queuePage \in QueueRecords /\ LinesValid(queuePage) /\ QueueSafe(Begun) /\ LinesValid(Begun)
      /\ Begun.dirty /\ Begun.open
  BY <1>1, UserFacts
<1>4. first \in Nat /\ end \in Nat /\ queuePage.length \in 1..QueueBound
  BY <1>1, <1>3, RangeFacts, QueueAssumption DEF QueueRecords
<1> DEFINE moved == RunMoveSong(q, first, end)
           c == moved.cursor + 1
           b == IF moved.base = NoRange THEN NoRange ELSE moved.base + 1
<1>6. \/ queuePage' = moved
      \/ queuePage' = SaveQueueSelection([moved EXCEPT !.cursor = c, !.base = b])
  BY <1>2
<1> HIDE DEF first, end
<1>7. QueueSafe(q) /\ LinesValid(q) /\ q.dirty /\ q.open
  BY <1>2, <1>3, LeaveFacts DEF QueueSafe
<1>8. QueueSafe(moved) /\ SameQueueLines(moved, q)
  BY <1>4, <1>7, MoveSongFacts
<1> HIDE DEF moved
<1>9. c \in -1..QueueBound /\ b \in NoRange..QueueBound
  <2>1. q \in QueueRecords /\ q.length \in 0..QueueBound
    BY <1>7 DEF QueueSafe, QueueSound, QueueRecords
  <2>2. q.cursor \in Int /\ q.base \in Int
    BY <2>1, QueueAssumption DEF QueueRecords, NoRange
  <2>3. q.cursor \in 0..(QueueBound - 1) /\ (q.base # NoRange => q.base \in 0..(QueueBound - 1))
    BY <1>4, <1>7, <2>1, <2>2, QueueAssumption DEF LinesValid, ValidLine
  <2> QED
    BY <1>8, <2>2, <2>3, QueueAssumption DEF SameQueueLines, NoRange
<1> HIDE DEF c, b
<1>10. CASE queuePage' = moved
  BY <1>8, <1>10
<1>11. CASE queuePage' = SaveQueueSelection([moved EXCEPT !.cursor = c, !.base = b])
  <2> DEFINE r == [moved EXCEPT !.cursor = c, !.base = b]
  <2>1. QueueSound(moved) /\ moved.open /\ moved.dirty /\ queuePage' = SaveQueueSelection(r)
    BY <1>7, <1>8, <1>11 DEF SameQueueLines, QueueSafe
  <2>2. r = [moved EXCEPT !.cursor = c, !.base = b]
    OBVIOUS
  <2> HIDE DEF r
  <2> QED
    BY <1>9, <2>1, <2>2, LinesMovedSafe
<1> QED
  BY <1>6, <1>10, <1>11

\* MPD's queue has changed, and MPD has news of it.
LEMMA TurnedSafe ==
    ASSUME NEW q, QueueSafe(q), NEW new \in SongLists, NEW playing \in QueueSongs \cup {NoSongId},
           NEW e \in SUBSET PageEvents, "queue" \in e \/ new = q.queue, NEW news, news = q.news \cup e
    PROVE  QueueSafe([q EXCEPT !.queue = new, !.playing = playing, !.news = news])
<1> DEFINE r == [q EXCEPT !.queue = new, !.playing = playing, !.news = news]
<1>1. q \in QueueRecords /\ news \in SUBSET PageEvents /\ ("queue" \notin news => "queue" \notin q.news /\ new = q.queue)
  BY DEF QueueSafe, QueueSound, QueueRecords
<1>2. /\ r \in QueueRecords /\ r.queue = new /\ r.news = news /\ SameQueueLines(r, q) /\ r.list = q.list
      /\ r.events = q.events /\ r.selected = q.selected /\ r.unsaved = q.unsaved
  BY <1>1 DEF QueueRecords, SameQueueLines
<1> HIDE DEF r
<1>3. (LinesValid(q) => LinesValid(r)) /\ GetSelectedSong(r) = GetSelectedSong(q)
  BY <1>2 DEF LinesValid, ValidLine, GetSelectedSong, SameQueueLines
<1>4. QueueSound(r)
  BY <1>1, <1>2, <1>3 DEF QueueSafe, QueueSound, SameQueueLines
<1>5. ChoiceTold(r)
  BY <1>1, <1>2, <1>3 DEF QueueSafe, ChoiceTold, ChoiceRight, SameQueueLines
<1> QED
  BY <1>4, <1>5 DEF QueueSafe, r

LEMMA ShuffleSafe == ASSUME QueueSafe(queuePage), ShuffleRange PROVE QueueSafe(queuePage')
<1> DEFINE first == RangeFirst(queuePage)
           end == RangeEnd(queuePage)
<1>1. UserActs
  BY DEF ShuffleRange
<1>2. PICK q \in LeaveIdle(Begun) :
         /\ end <= Len(q.queue)
         /\ \E i \in first..(end - 2) :
               queuePage' = [q EXCEPT !.queue = [@ EXCEPT ![i + 1] = q.queue[i + 2], ![i + 2] = q.queue[i + 1]],
                                      !.news = @ \cup {"queue"}]
  BY DEF ShuffleRange
<1>3. PICK i \in first..(end - 2) :
         queuePage' = [q EXCEPT !.queue = [@ EXCEPT ![i + 1] = q.queue[i + 2], ![i + 2] = q.queue[i + 1]],
                                !.news = @ \cup {"queue"}]
  BY <1>2
<1>4. queuePage \in QueueRecords /\ LinesValid(queuePage) /\ QueueSafe(Begun)
  BY <1>1, UserFacts
<1>5. first \in Nat /\ end \in Nat
  BY <1>4, RangeFacts
<1> HIDE DEF first, end
<1>6. QueueSafe(q) /\ q \in QueueRecords /\ q.queue \in SongLists /\ q.playing \in QueueSongs \cup {NoSongId}
  BY <1>2, <1>4, LeaveFacts DEF QueueSafe, QueueSound, QueueRecords
<1>7. Len(q.queue) \in Nat
  BY <1>6, SongOf
<1> DEFINE a == i + 1
           d == i + 2
<1>8. a \in 1..Len(q.queue) /\ d \in 1..Len(q.queue)
  BY <1>2, <1>5, <1>7
<1> HIDE DEF a, d
<1> DEFINE new == [q.queue EXCEPT ![a] = q.queue[d], ![d] = q.queue[a]]
           playing == q.playing
           e == {"queue"}
           news == q.news \cup e
           r == [q EXCEPT !.queue = new, !.playing = playing, !.news = news]
<1>9. new \in SongLists
  BY <1>6, <1>8, SongsSwapped
<1>10. queuePage' = [q EXCEPT !.queue = new, !.news = news]
  BY <1>3 DEF a, d
<1> HIDE DEF new
<1>11. [q EXCEPT !.queue = new, !.news = news] = r
  <2> HIDE DEF news
  <2> QED
    BY <1>6 DEF QueueRecords
<1>12. playing \in QueueSongs \cup {NoSongId} /\ e \in SUBSET PageEvents /\ "queue" \in e /\ news = q.news \cup e
  BY <1>6 DEF PageEvents
<1> HIDE DEF e, news, playing
<1>13. QueueSafe(r)
  BY <1>6, <1>9, <1>12, TurnedSafe
<1> QED
  BY <1>10, <1>11, <1>13

LEMMA PlaySelectedSafe == ASSUME QueueSafe(queuePage), PlaySelected PROVE QueueSafe(queuePage')
<1> DEFINE song == GetSelectedSong(queuePage)
<1>1. UserActs
  BY DEF PlaySelected
<1>2. PICK q \in LeaveIdle(Begun) :
         queuePage' = IF Contains(q.queue, song)
                      THEN [q EXCEPT !.playing = song, !.news = @ \cup {"player"}]
                      ELSE q
  BY DEF PlaySelected
<1>3. queuePage \in QueueRecords /\ QueueSafe(Begun)
  BY <1>1, UserFacts
<1>4. song \in QueueSongs \cup {NoSongId}
  BY <1>3, ChosenFacts
<1> HIDE DEF song
<1>5. QueueSafe(q) /\ q \in QueueRecords /\ q.queue \in SongLists
  BY <1>2, <1>3, LeaveFacts DEF QueueSafe, QueueSound, QueueRecords
<1> DEFINE new == q.queue
           e == {"player"}
           news == q.news \cup e
           r == [q EXCEPT !.queue = new, !.playing = song, !.news = news]
<1>6. e \in SUBSET PageEvents /\ news = q.news \cup e /\ new = q.queue /\ new \in SongLists
  BY <1>5 DEF PageEvents
<1>7. queuePage' = q \/ queuePage' = [q EXCEPT !.playing = song, !.news = news]
  BY <1>2
<1> HIDE DEF e, news, new
<1>8. [q EXCEPT !.playing = song, !.news = news] = r
  BY <1>5, <1>6 DEF QueueRecords
<1>9. QueueSafe(r)
  BY <1>4, <1>5, <1>6, TurnedSafe
<1> QED
  BY <1>5, <1>7, <1>8, <1>9

LEMMA DeleteByMouseSafe == ASSUME QueueSafe(queuePage), DeleteByMouse PROVE QueueSafe(queuePage')
<1> DEFINE woken == [queuePage EXCEPT !.dirty = TRUE]
<1>1. UserActs
  BY DEF DeleteByMouse
<1>2. PICK i \in 0..(queuePage.length - 1) : \E q \in LeaveIdle(SetLine(woken, i)) :
         queuePage' = SaveQueueSelection(SetQueueLength(RunDeleteSongs(q, q.cursor, q.cursor + 1)))
  BY DEF DeleteByMouse
<1> DEFINE clicked == SetLine(woken, i)
<1>3. PICK q \in LeaveIdle(clicked) :
         queuePage' = SaveQueueSelection(SetQueueLength(RunDeleteSongs(q, q.cursor, q.cursor + 1)))
  BY <1>2
<1>4. queuePage \in QueueRecords /\ LinesValid(queuePage)
  BY <1>1, UserFacts
<1>5. i \in -1..QueueBound
  BY <1>4, QueueAssumption DEF QueueRecords
<1>6. /\ woken \in QueueRecords /\ woken.dirty /\ woken.open /\ woken.news = queuePage.news
      /\ woken.list = queuePage.list /\ woken.queue = queuePage.queue /\ woken.events = queuePage.events
      /\ woken.length = queuePage.length /\ woken.cursor = queuePage.cursor /\ woken.base = queuePage.base
      /\ woken.selected = queuePage.selected /\ woken.unsaved = queuePage.unsaved
  BY <1>1, <1>4 DEF QueueRecords, UserActs
<1> HIDE DEF woken
<1>7. QueueSound(woken)
  BY <1>6 DEF QueueSafe, QueueSound
<1>8. /\ clicked \in QueueRecords /\ LinesValid(clicked) /\ SameQueue(clicked, woken)
      /\ clicked.length = woken.length /\ clicked.selected = woken.selected /\ clicked.unsaved = woken.unsaved
  BY <1>5, <1>6, LineSetFacts
<1> HIDE DEF clicked
<1>9. QueueSound(clicked) /\ clicked.dirty /\ clicked.open
  BY <1>6, <1>7, <1>8, SoundKept DEF SameQueue
<1>10. QueueSound(q) /\ q.dirty /\ q.open /\ LinesValid(q)
  BY <1>3, <1>8, <1>9, LeaveFacts
<1> DEFINE cut == RunDeleteSongs(q, q.cursor, q.cursor + 1)
           sized == SetQueueLength(cut)
<1>11. q.cursor \in Nat
  <2>1. q.length \in 0..QueueBound /\ q.cursor \in -1..QueueBound
    BY <1>10 DEF QueueSound, QueueRecords
  <2>2. q.cursor \in Int
    BY <2>1, QueueAssumption
  <2>3. q.cursor \in 0..QueueBound
    BY <1>10, <2>1, <2>2, LineFacts DEF LinesValid
  <2> QED
    BY <2>3, QueueAssumption
<1>12. q.cursor + 1 \in Nat
  BY <1>11
<1>13. QueueSound(cut) /\ cut.dirty /\ cut.open
  BY <1>10, <1>11, <1>12, DeleteSongsFacts DEF SameQueueLines
<1>14. queuePage' = SaveQueueSelection(sized)
  BY <1>3
<1> HIDE DEF cut
<1>15. sized \in QueueRecords /\ LinesValid(sized) /\ SameQueue(sized, cut) /\ sized.length = Len(sized.list)
  BY <1>13, SizedFacts DEF QueueSound
<1> HIDE DEF sized
<1>16. QueueSound(sized)
  BY <1>13, <1>15 DEF QueueSound, SameQueue
<1> QED
  BY <1>14, <1>16, SavedSafe

LEMMA OpenSafe == ASSUME QueueSafe(queuePage), OpenQueuePage PROVE QueueSafe(queuePage')
<1> DEFINE q == queuePage
           entered == [q EXCEPT !.open = TRUE]
           restored == RestoreQueueSelection(entered)
<1>1. PICK opened \in OnSongChange(restored) :
         queuePage' \in UpdateQueuePage([opened EXCEPT !.pending = {}], q.pending)
  BY DEF OpenQueuePage
<1>2. QueueSound(q) /\ q \in QueueRecords
  BY DEF QueueSafe, QueueSound
<1>3. /\ entered \in QueueRecords /\ entered.open /\ entered.list = q.list /\ entered.queue = q.queue
      /\ entered.news = q.news /\ entered.events = q.events /\ entered.dirty = q.dirty
  BY <1>2 DEF QueueRecords
<1> HIDE DEF entered
<1>4. /\ restored \in QueueRecords /\ SameQueue(restored, entered)
      /\ restored.selected # NoSongId => GetSelectedSong(restored) = restored.selected
  BY <1>3, RestoredFacts
<1> HIDE DEF restored
<1>5. ViewMoved(opened, restored)
  BY <1>1, <1>4, SongChangeFacts
<1> DEFINE ready == [opened EXCEPT !.pending = {}]
<1>6. /\ ready \in QueueRecords /\ SameQueue(ready, opened) /\ ready.length = opened.length
      /\ ready.cursor = opened.cursor /\ ready.base = opened.base /\ ready.selected = opened.selected
      /\ ready.unsaved = opened.unsaved
  BY <1>5 DEF QueueRecords, ViewMoved, SameQueue
<1>7. queuePage' \in UpdateQueuePage(ready, q.pending)
  BY <1>1
<1> HIDE DEF ready, q
<1>8. ChoiceRight(ready)
  <2>1. ChoiceRight(opened)
    BY <1>4, <1>5 DEF ChoiceRight, ViewMoved
  <2>2. GetSelectedSong(ready) = GetSelectedSong(opened)
    BY <1>6 DEF GetSelectedSong, SameQueue
  <2> QED
    BY <1>6, <2>1, <2>2 DEF ChoiceRight
<1>9. /\ queuePage' \in QueueRecords /\ LinesValid(queuePage') /\ SameQueue(queuePage', ready)
      /\ queuePage'.length = Len(queuePage'.list) /\ ChoiceRight(queuePage')
  <2> DEFINE r == queuePage'
  <2>1. r \in UpdateQueuePage(ready, q.pending)
    BY <1>7
  <2> HIDE DEF r
  <2>2. /\ r \in QueueRecords /\ LinesValid(r) /\ SameQueue(r, ready) /\ r.length = Len(r.list)
        /\ ChoiceRight(r)
    BY <1>6, <1>8, <2>1, UpdatedFacts
  <2> QED
    BY <2>2 DEF r
<1>10. /\ queuePage'.list = q.list /\ queuePage'.queue = q.queue /\ queuePage'.news = q.news
       /\ queuePage'.events = q.events /\ queuePage'.dirty = q.dirty
  BY <1>3, <1>4, <1>5, <1>6, <1>9 DEF SameQueue, ViewMoved
<1>11. QueueSound(queuePage')
  BY <1>2, <1>9, <1>10 DEF QueueSound
<1>12. ChoiceTold(queuePage')
  BY <1>9 DEF ChoiceTold
<1> QED
  BY <1>11, <1>12 DEF QueueSafe

LEMMA CloseSafe == ASSUME QueueSafe(queuePage), CloseQueuePage PROVE QueueSafe(queuePage')
<1> DEFINE q == queuePage
           r == [q EXCEPT !.open = FALSE, !.searching = FALSE]
<1>1. UserActs /\ queuePage' = r
  BY DEF CloseQueuePage
<1>2. q \in QueueRecords /\ QueueSound(q) /\ LinesValid(q)
  BY <1>1, UserFacts DEF QueueSafe
<1>3. /\ r \in QueueRecords /\ ~r.open /\ r.list = q.list /\ r.queue = q.queue /\ r.news = q.news
      /\ r.events = q.events /\ r.dirty = q.dirty /\ r.length = q.length /\ r.cursor = q.cursor /\ r.base = q.base
  BY <1>2 DEF QueueRecords
<1> HIDE DEF q, r
<1>4. LinesValid(r)
  BY <1>2, <1>3 DEF LinesValid, ValidLine
<1>5. QueueSound(r) /\ ChoiceTold(r)
  BY <1>2, <1>3, <1>4 DEF QueueSound, ChoiceTold
<1> QED
  BY <1>1, <1>5 DEF QueueSafe

LEMMA AddSongSafe == ASSUME QueueSafe(queuePage), AddSong PROVE QueueSafe(queuePage')
<1> DEFINE woken == [queuePage EXCEPT !.dirty = TRUE]
<1>1. ~queuePage.open /\ \E q \in LeaveIdle(woken), x \in QueueSongs \ ToSet(queuePage.queue) :
         Len(q.queue) < QueueBound /\ queuePage' = SendEdit(q, Append(q.queue, x))
  BY DEF AddSong
<1>2. QueueSound(queuePage) /\ queuePage \in QueueRecords
  BY DEF QueueSafe, QueueSound
<1>3. /\ woken \in QueueRecords /\ woken.dirty /\ woken.open = queuePage.open /\ woken.news = queuePage.news
      /\ woken.list = queuePage.list /\ woken.queue = queuePage.queue /\ woken.events = queuePage.events
      /\ woken.length = queuePage.length /\ woken.cursor = queuePage.cursor /\ woken.base = queuePage.base
  BY <1>2 DEF QueueRecords
<1> HIDE DEF woken
<1>4. PICK q \in LeaveIdle(woken) : \E x \in QueueSongs \ ToSet(queuePage.queue) :
         Len(q.queue) < QueueBound /\ queuePage' = SendEdit(q, Append(q.queue, x))
  BY <1>1
<1>5. PICK x \in QueueSongs \ ToSet(queuePage.queue) :
         Len(q.queue) < QueueBound /\ queuePage' = SendEdit(q, Append(q.queue, x))
  BY <1>4
<1>6. LinesValid(woken) <=> LinesValid(queuePage)
  BY <1>3 DEF LinesValid, ValidLine
<1>7. QueueSound(woken)
  BY <1>1, <1>2, <1>3, <1>6 DEF QueueSound
<1>8. QueueSound(q) /\ q.dirty /\ q.queue = queuePage.queue
  BY <1>3, <1>7, LeaveFacts
<1>9. q.queue \in SongLists
  BY <1>8 DEF QueueSound, QueueRecords
<1> DEFINE l == q.queue
           new == Append(l, x)
           n == Len(l)
<1>10. l \in Seq(QueueSongs) /\ n \in 0..QueueBound /\ \A i, j \in 1..n : l[i] = l[j] => i = j
  BY <1>9, SongListFacts
<1>11. x \in QueueSongs /\ \A i \in 1..n : l[i] # x
  <2>1. DOMAIN l = 1..n
    BY <1>10, LenProperties
  <2> QED
    BY <1>5, <1>8, <2>1 DEF ToSet
<1>12. n < QueueBound
  BY <1>5
<1> HIDE DEF l, n
<1>13. /\ new \in Seq(QueueSongs) /\ Len(new) = n + 1
       /\ \A i \in 1..n : new[i] = l[i]
       /\ new[n + 1] = x
  BY <1>10, <1>11, AppendProperties DEF n
<1>14. n + 1 \in 0..QueueBound /\ \A i \in 1..(n + 1) : i \in 1..n \/ i = n + 1
  BY <1>10, <1>12, QueueAssumption
<1> HIDE DEF new
<1>15. \A i, j \in 1..(n + 1) : new[i] = new[j] => i = j
  BY <1>10, <1>11, <1>13, <1>14
<1>16. new \in SongLists
  BY <1>13, <1>14, <1>15, SongListFacts
<1>17. queuePage' = SendEdit(q, new)
  BY <1>5 DEF new, l
<1> QED
  BY <1>8, <1>16, <1>17, EditFacts

-----------------------------------------------------------------------------

\* What happens without the user keeps his choice, while the song is there.
Keeps(r, q) == r.selected = q.selected \/ ~Contains(r.list, q.selected)

LEMMA UpdateScreenSafe ==
    ASSUME QueueSafe(queuePage), DoUpdateScreen PROVE QueueSafe(queuePage') /\ Keeps(queuePage', queuePage)
<1> DEFINE q == queuePage
           r == queuePage'
           p == [q EXCEPT !.dirty = FALSE]
<1>1. r \in PaintQueue(p)
  BY DEF DoUpdateScreen
<1>2. q \in QueueRecords /\ QueueSound(q) /\ ChoiceTold(q)
  BY DEF QueueSafe, QueueSound
<1>3. /\ p \in QueueRecords /\ p.open = q.open /\ p.list = q.list /\ p.queue = q.queue /\ p.news = q.news
      /\ p.events = q.events /\ p.length = q.length /\ p.cursor = q.cursor /\ p.base = q.base
      /\ p.selected = q.selected /\ p.unsaved = q.unsaved
  BY <1>2 DEF QueueRecords
<1> SUFFICES QueueSafe(r) /\ Keeps(r, q)
  OBVIOUS
<1> HIDE DEF p, q, r
<1>4. (LinesValid(p) <=> LinesValid(q)) /\ GetSelectedSong(p) = GetSelectedSong(q)
  BY <1>3 DEF LinesValid, ValidLine, GetSelectedSong
<1>5. ChoiceTold(p)
  BY <1>2, <1>3, <1>4 DEF ChoiceTold, ChoiceRight
<1>6. ("queue" \notin p.news => p.list = p.queue) /\ (~p.open => LinesValid(p))
  BY <1>2, <1>3, <1>4 DEF QueueSound
<1>7. QueueSound(r) /\ Painted(r, p) /\ (ChoiceTold(p) => ChoiceTold(r))
  BY <1>1, <1>3, <1>6, PaintFacts
<1> QED
  BY <1>3, <1>5, <1>7 DEF QueueSafe, Painted, Keeps

LEMMA UpdateQueueSafe ==
    ASSUME QueueSafe(queuePage), UpdateQueue PROVE QueueSafe(queuePage') /\ Keeps(queuePage', queuePage)
<1> DEFINE old == queuePage
           r == queuePage'
<1>1. PICK q \in LeaveIdle(old) : r \in PaintQueue(UpdateReplica(q))
  BY DEF UpdateQueue
<1> DEFINE p == UpdateReplica(q)
<1>2. QueueSound(old) /\ ChoiceTold(old)
  BY DEF QueueSafe
<1> SUFFICES QueueSafe(r) /\ Keeps(r, old)
  OBVIOUS
<1> HIDE DEF old, r
<1>3. QueueSound(q) /\ ChoiceTold(q) /\ (q.selected = old.selected \/ (q.list = q.queue /\ ~Contains(q.list, old.selected)))
  BY <1>1, <1>2, LeaveFacts
<1>4. /\ p \in QueueRecords /\ p.list = q.queue /\ p.queue = q.queue /\ p.news = q.news /\ p.events = q.events
      /\ p.open = q.open /\ p.length = q.length /\ p.cursor = q.cursor /\ p.base = q.base
      /\ p.selected = q.selected /\ p.unsaved = q.unsaved
  BY <1>3, ReplicaFacts DEF QueueSound
<1> HIDE DEF p
<1>5. LinesValid(p) <=> LinesValid(q)
  BY <1>4 DEF LinesValid, ValidLine
<1>6. ChoiceTold(p)
  <2> SUFFICES ASSUME p.open, "queue" \notin p.news \cup p.events PROVE ChoiceRight(p)
    BY DEF ChoiceTold
  <2>1. q.list = q.queue /\ ChoiceRight(q)
    BY <1>3, <1>4 DEF QueueSound, ChoiceTold
  <2>2. GetSelectedSong(p) = GetSelectedSong(q)
    BY <1>4, <2>1 DEF GetSelectedSong
  <2> QED
    BY <1>4, <2>1, <2>2 DEF ChoiceRight
<1>7. ~p.open => LinesValid(p)
  BY <1>3, <1>4, <1>5 DEF QueueSound
<1>8. QueueSound(r) /\ Painted(r, p) /\ ChoiceTold(r)
  BY <1>1, <1>4, <1>6, <1>7, PaintFacts DEF p
<1>9. Keeps(r, old)
  <2>1. CASE q.selected = old.selected
    BY <1>4, <1>8, <2>1 DEF Keeps, Painted
  <2>2. CASE q.selected # old.selected
    <3>1. r.list = q.queue
      BY <1>4, <1>8 DEF Painted
    <3> QED
      BY <1>3, <2>2, <3>1 DEF Keeps
  <2> QED
    BY <2>1, <2>2
<1> QED
  BY <1>8, <1>9 DEF QueueSafe

LEMMA EnterIdleSafe ==
    ASSUME QueueSafe(queuePage), EnterIdle PROVE QueueSafe(queuePage') /\ Keeps(queuePage', queuePage)
<1> DEFINE q == queuePage
           r == [q EXCEPT !.idle = TRUE]
<1>1. queuePage' = r /\ q \in QueueRecords /\ QueueSound(q) /\ ChoiceTold(q)
  BY DEF EnterIdle, QueueSafe, QueueSound
<1>2. /\ r \in QueueRecords /\ r.open = q.open /\ r.list = q.list /\ r.queue = q.queue /\ r.news = q.news /\ r.dirty = q.dirty
      /\ r.events = q.events /\ r.length = q.length /\ r.cursor = q.cursor /\ r.base = q.base
      /\ r.selected = q.selected /\ r.unsaved = q.unsaved
  BY <1>1 DEF QueueRecords
<1> HIDE DEF q, r
<1>3. (LinesValid(r) <=> LinesValid(q)) /\ GetSelectedSong(r) = GetSelectedSong(q)
  BY <1>2 DEF LinesValid, ValidLine, GetSelectedSong
<1>4. QueueSound(r)
  BY <1>1, <1>2, <1>3 DEF QueueSound
<1>5. ChoiceTold(r)
  BY <1>1, <1>2, <1>3 DEF ChoiceTold, ChoiceRight
<1> QED
  BY <1>1, <1>2, <1>4, <1>5 DEF QueueSafe, Keeps, q

LEMMA DoOnIdleSafe ==
    ASSUME QueueSafe(queuePage), DoOnIdle PROVE QueueSafe(queuePage') /\ Keeps(queuePage', queuePage)
BY IdleFacts DEF DoOnIdle, QueueSafe, Keeps

LEMMA QueueLostSafe ==
    ASSUME QueueSafe(queuePage), QueueLost PROVE QueueSafe(queuePage') /\ Keeps(queuePage', queuePage)
<1> DEFINE q == queuePage
           r == queuePage'
           none == <<>>
           e == PageEvents
           n == {}
           p == [q EXCEPT !.conn = FALSE, !.idle = FALSE, !.list = none, !.status = NotPlaying, !.events = e,
                          !.queue = none, !.playing = NoSongId, !.news = n]
<1>1. r \in PaintQueue(p)
  BY DEF QueueLost
<1>2. q \in QueueRecords /\ QueueSound(q)
  BY DEF QueueSafe, QueueSound
<1>3. none \in SongLists /\ e \in SUBSET PageEvents /\ n \in SUBSET PageEvents /\ "queue" \in e
  <2>1. none \in Seq(QueueSongs) /\ Len(none) = 0 /\ 0 \in 0..QueueBound
    BY QueueAssumption
  <2>2. \A i, j \in 1..Len(none) : none[i] = none[j] => i = j
    BY <2>1
  <2>3. none \in SongLists
    BY <2>1, <2>2, SongListFacts
  <2> QED
    BY <2>3 DEF PageEvents
<1> HIDE DEF none, e, n
<1>4. /\ p \in QueueRecords /\ p.open = q.open /\ p.list = none /\ p.queue = none /\ p.events = e
      /\ p.length = q.length /\ p.cursor = q.cursor /\ p.base = q.base /\ p.selected = q.selected
      /\ p.dirty = q.dirty
  BY <1>2, <1>3 DEF QueueRecords
<1> SUFFICES QueueSafe(r) /\ Keeps(r, q)
  OBVIOUS
<1> HIDE DEF p, q, r
<1>5. LinesValid(p) <=> LinesValid(q)
  BY <1>4 DEF LinesValid, ValidLine
<1>6. ChoiceTold(p) /\ (~p.open => LinesValid(p))
  BY <1>2, <1>3, <1>4, <1>5 DEF ChoiceTold, QueueSound
<1>7. QueueSound(r) /\ Painted(r, p) /\ (ChoiceTold(p) => ChoiceTold(r))
  BY <1>1, <1>4, <1>6, PaintFacts
<1> QED
  BY <1>4, <1>6, <1>7 DEF QueueSafe, Painted, Keeps

LEMMA QueueConnectedSafe ==
    ASSUME QueueSafe(queuePage), QueueConnected PROVE QueueSafe(queuePage') /\ Keeps(queuePage', queuePage)
<1> DEFINE q == queuePage
           r == queuePage'
           e == PageEvents
<1>1. PICK queue \in BoundedSeq(QueueSongs, QueueBound) :
         /\ IsInjective(queue)
         /\ \E playing \in ToSet(queue) \cup {NoSongId} :
               r \in PaintQueue(UpdateReplica(
                  [q EXCEPT !.conn = TRUE, !.events = e, !.queue = queue, !.playing = playing]))
  BY DEF QueueConnected
<1>2. PICK playing \in ToSet(queue) \cup {NoSongId} :
         r \in PaintQueue(UpdateReplica([q EXCEPT !.conn = TRUE, !.events = e, !.queue = queue, !.playing = playing]))
  BY <1>1
<1> DEFINE new == [q EXCEPT !.conn = TRUE, !.events = e, !.queue = queue, !.playing = playing]
           p == UpdateReplica(new)
<1>3. q \in QueueRecords /\ QueueSound(q)
  BY DEF QueueSafe, QueueSound
<1>4. e \in SUBSET PageEvents /\ "queue" \in e
  BY DEF PageEvents
<1>5. queue \in SongLists
  <2>1. PICK m \in 0..QueueBound : queue \in [1..m -> QueueSongs]
    BY <1>1 DEF BoundedSeq, SeqOf
  <2>2. m \in Nat /\ m <= QueueBound
    BY <2>1, QueueAssumption
  <2>3. queue \in Seq(QueueSongs)
    BY <2>1, <2>2 DEF Seq
  <2>4. Len(queue) = m
    BY <2>1, <2>2, <2>3, LenProperties
  <2> QED
    BY <1>1, <2>2, <2>3, <2>4 DEF SongLists
<1>6. playing \in QueueSongs \cup {NoSongId}
  <2>1. queue \in Seq(QueueSongs) /\ DOMAIN queue = 1..Len(queue)
    BY <1>5, LenProperties DEF SongLists
  <2>2. \A i \in DOMAIN queue : queue[i] \in QueueSongs
    BY <1>5, <2>1, SongOf
  <2> QED
    BY <1>2, <2>2 DEF ToSet
<1>7. r \in PaintQueue(p)
  BY <1>2
<1> HIDE DEF e
<1>8. /\ new \in QueueRecords /\ new.open = q.open /\ new.queue = queue /\ new.events = e
      /\ new.length = q.length /\ new.cursor = q.cursor /\ new.base = q.base /\ new.selected = q.selected
      /\ new.dirty = q.dirty
  BY <1>3, <1>4, <1>5, <1>6 DEF QueueRecords
<1> SUFFICES QueueSafe(r) /\ Keeps(r, q)
  OBVIOUS
<1> HIDE DEF new, q, r
<1>9. /\ p \in QueueRecords /\ p.open = q.open /\ p.queue = queue /\ p.list = queue /\ p.events = e
      /\ p.length = q.length /\ p.cursor = q.cursor /\ p.base = q.base /\ p.selected = q.selected
      /\ p.dirty = q.dirty
  BY <1>8, ReplicaFacts
<1> HIDE DEF p
<1>10. LinesValid(p) <=> LinesValid(q)
  BY <1>9 DEF LinesValid, ValidLine
<1>11. ChoiceTold(p) /\ (~p.open => LinesValid(p))
  BY <1>3, <1>4, <1>9, <1>10 DEF ChoiceTold, QueueSound
<1>12. QueueSound(r) /\ Painted(r, p) /\ (ChoiceTold(p) => ChoiceTold(r))
  BY <1>7, <1>9, <1>11, PaintFacts
<1> QED
  BY <1>9, <1>11, <1>12 DEF QueueSafe, Painted, Keeps

LEMMA OthersEditSafe ==
    ASSUME QueueSafe(queuePage), OtherClientEdits PROVE QueueSafe(queuePage') /\ Keeps(queuePage', queuePage)
<1> DEFINE q == queuePage
           l == q.queue
           Edits == {RemoveAt(l, i) : i \in DOMAIN l} \cup {InsertAt(l, 1, x) : x \in QueueSongs \ ToSet(l)} \cup
                    {[l EXCEPT ![1] = l[i], ![i] = l[1]] : i \in DOMAIN l}
           e == {"queue"}
           news == q.news \cup e
<1>1. PICK new \in Edits : Len(new) <= QueueBound /\
         queuePage' = [q EXCEPT !.queue = new, !.playing = IF Contains(new, @) THEN @ ELSE NoSongId, !.news = news]
  BY DEF OtherClientEdits
<1>2. q \in QueueRecords /\ l \in SongLists
  BY DEF QueueSafe, QueueSound, QueueRecords
<1>3. /\ l \in Seq(QueueSongs) /\ DOMAIN l = 1..Len(l) /\ Len(l) \in Nat /\ Len(l) \in 0..QueueBound
  BY <1>2, SongListFacts, LenProperties
<1>4. new \in SongLists
  <2>1. CASE new \in {RemoveAt(l, i) : i \in DOMAIN l}
    <3>1. PICK i \in DOMAIN l : new = RemoveAt(l, i)
      BY <2>1
    <3> QED
      BY <1>2, <1>3, <3>1, SongRemoved
  <2>2. CASE new \in {InsertAt(l, 1, x) : x \in QueueSongs \ ToSet(l)}
    <3>1. PICK x \in QueueSongs \ ToSet(l) : new = InsertAt(l, 1, x)
      BY <2>2
    <3>2. ~Contains(l, x)
      BY <1>3, <3>1 DEF Contains, ToSet
    <3>3. 1 \in 1..(Len(l) + 1)
      BY <1>3
    <3>4. Len(new) = Len(l) + 1
      BY <1>3, <3>1, <3>3, ItemInserted
    <3>5. Len(l) + 1 <= QueueBound
      BY <1>1, <3>4
    <3> QED
      BY <1>2, <3>1, <3>2, <3>3, <3>5, SongInserted
  <2>3. CASE new \in {[l EXCEPT ![1] = l[i], ![i] = l[1]] : i \in DOMAIN l}
    <3>1. PICK i \in DOMAIN l : new = [l EXCEPT ![1] = l[i], ![i] = l[1]]
      BY <2>3
    <3>2. 1 \in 1..Len(l) /\ i \in 1..Len(l)
      BY <1>3, <3>1
    <3> DEFINE one == 1
    <3>3. one \in 1..Len(l) /\ new = [l EXCEPT ![one] = l[i], ![i] = l[one]]
      BY <3>1, <3>2
    <3> HIDE DEF one, l
    <3> QED
      BY <1>2, <3>2, <3>3, SongsSwapped
  <2> HIDE DEF l
  <2> QED
    BY <1>1, <2>1, <2>2, <2>3
<1> DEFINE playing == IF Contains(new, q.playing) THEN q.playing ELSE NoSongId
           r == [q EXCEPT !.queue = new, !.playing = playing, !.news = news]
<1>5. queuePage' = r
  BY <1>1
<1>6. playing \in QueueSongs \cup {NoSongId} /\ e \in SUBSET PageEvents /\ "queue" \in e /\ news = q.news \cup e
  BY <1>2 DEF QueueRecords, PageEvents
<1>7. q = queuePage
  OBVIOUS
<1> HIDE DEF playing, e, news, Edits, l, q
<1>8. QueueSafe(r)
  BY <1>4, <1>6, <1>7, TurnedSafe
<1>9. r.selected = q.selected
  BY <1>2 DEF QueueRecords
<1> QED
  BY <1>5, <1>7, <1>8, <1>9 DEF Keeps

LEMMA SongStartsSafe ==
    ASSUME QueueSafe(queuePage), SongStarts PROVE QueueSafe(queuePage') /\ Keeps(queuePage', queuePage)
<1> DEFINE q == queuePage
           new == q.queue
           e == {"player"}
           news == q.news \cup e
<1>1. PICK x \in ToSet(new) \ {q.playing} : queuePage' = [q EXCEPT !.playing = x, !.news = news]
  BY DEF SongStarts
<1> DEFINE r == [q EXCEPT !.queue = new, !.playing = x, !.news = news]
<1>2. q \in QueueRecords /\ new \in SongLists /\ q = queuePage /\ new = q.queue
  BY DEF QueueSafe, QueueSound, QueueRecords
<1>3. x \in QueueSongs
  <2>1. DOMAIN new = 1..Len(new)
    BY <1>2, SongListFacts, LenProperties
  <2> QED
    BY <1>1, <1>2, <2>1, SongOf DEF ToSet
<1>4. e \in SUBSET PageEvents /\ news = q.news \cup e /\ x \in QueueSongs \cup {NoSongId}
  BY <1>3 DEF PageEvents
<1> HIDE DEF e, news, new, q
<1>5. queuePage' = r
  BY <1>1, <1>2 DEF QueueRecords
<1>6. QueueSafe(r)
  BY <1>2, <1>4, TurnedSafe
<1>7. r.selected = q.selected
  BY <1>2 DEF QueueRecords
<1> QED
  BY <1>2, <1>5, <1>6, <1>7 DEF Keeps

LEMMA QueueInitSafe == QueuePageInit => QueueSafe(queuePage)
<1> SUFFICES ASSUME QueuePageInit PROVE QueueSafe(queuePage)
  OBVIOUS
<1> DEFINE none == <<>>
           q == queuePage
<1>1. none \in SongLists /\ Len(none) = 0
  <2>1. none \in Seq(QueueSongs) /\ Len(none) = 0 /\ 0 \in 0..QueueBound
    BY QueueAssumption
  <2>2. \A i, j \in 1..Len(none) : none[i] = none[j] => i = j
    BY <2>1
  <2> QED
    BY <2>1, <2>2, SongListFacts
<1> HIDE DEF none
<1>2. q = [queue |-> none, playing |-> NoSongId, news |-> {}, conn |-> FALSE, idle |-> FALSE, events |-> {},
           list |-> none, status |-> NotPlaying, dirty |-> FALSE, open |-> FALSE, pending |-> {}, length |-> 0,
           cursor |-> 0, base |-> NoRange, selected |-> NoSongId, current |-> NoSongId, searching |-> FALSE,
           unsaved |-> FALSE]
  BY DEF QueuePageInit, none
<1> HIDE DEF q
<1>3. 0 \in 0..QueueBound /\ 0 \in -1..QueueBound /\ NoRange \in NoRange..QueueBound
  BY QueueAssumption DEF NoRange
<1>4. q \in QueueRecords
  BY <1>1, <1>2, <1>3 DEF QueueRecords
<1>5. LinesValid(q)
  BY <1>2 DEF LinesValid, ValidLine
<1> QED
  BY <1>2, <1>4, <1>5 DEF QueueSafe, QueueSound, ChoiceTold, q

\* Every step keeps the page right; a step that is not the user's keeps his choice.
LEMMA QueueStep ==
    QueueSafe(queuePage) /\ [QueuePageNext]_queuePage
       => /\ QueueSafe(queuePage')
          /\ QueueUserNext \/ Keeps(queuePage', queuePage)
<1> SUFFICES ASSUME QueueSafe(queuePage), [QueuePageNext]_queuePage
             PROVE  QueueSafe(queuePage') /\ (QueueUserNext \/ Keeps(queuePage', queuePage))
  OBVIOUS
<1>1. CASE UNCHANGED queuePage
  BY <1>1 DEF Keeps
<1>2. CASE QueueUserNext
  <2>1. CASE MoveLine \/ RangeSelectLines \/ ScreenUpdate \/ SelectPlaying \/ StartSearching
    BY <1>2, <2>1, MoveLineSafe, RangeSelectSafe, ScreenUpdateSafe, SelectPlayingSafe, StartSearchingSafe
  <2>2. CASE FoundWhileTyping \/ FinishSearching \/ Delete \/ MoveUp \/ MoveDown
    BY <1>2, <2>2, FoundSafe, FinishSearchingSafe, DeleteSafely, MoveUpSafe, MoveDownSafe
  <2>3. CASE ShuffleRange \/ PlaySelected \/ DeleteByMouse \/ OpenQueuePage \/ CloseQueuePage \/ AddSong
    BY <1>2, <2>3, ShuffleSafe, PlaySelectedSafe, DeleteByMouseSafe, OpenSafe, CloseSafe, AddSongSafe
  <2> QED
    BY <1>2, <2>1, <2>2, <2>3 DEF QueueUserNext
<1>3. CASE DoUpdateScreen \/ UpdateQueue \/ EnterIdle \/ DoOnIdle
  BY <1>3, UpdateScreenSafe, UpdateQueueSafe, EnterIdleSafe, DoOnIdleSafe
<1>4. CASE QueueLost \/ QueueConnected \/ OtherClientEdits \/ SongStarts
  BY <1>4, QueueLostSafe, QueueConnectedSafe, OthersEditSafe, SongStartsSafe
<1> QED
  BY <1>1, <1>2, <1>3, <1>4 DEF QueuePageNext

LEMMA QueueSafeIsRight == QueueSafe(queuePage) => QueuePageTypeOK /\ LengthOfQueue /\ CursorOnSelection
<1> SUFFICES ASSUME QueueSafe(queuePage) PROVE QueuePageTypeOK /\ LengthOfQueue /\ CursorOnSelection
  OBVIOUS
<1> DEFINE q == queuePage
<1>1. q \in QueueRecords /\ QueueSound(q) /\ ChoiceTold(q)
  BY DEF QueueSafe, QueueSound
<1>2. \A l \in SongLists : Len(l) <= QueueBound /\ IsInjective(l) /\ ToSet(l) \subseteq QueueSongs
  <2> SUFFICES ASSUME NEW l \in SongLists PROVE Len(l) <= QueueBound /\ IsInjective(l) /\ ToSet(l) \subseteq QueueSongs
    OBVIOUS
  <2>1. DOMAIN l = 1..Len(l)
    BY SongListFacts, LenProperties
  <2> QED
    BY <2>1, SongOf DEF SongLists, ToSet
<1>3. q.cursor \in -2..QueueBound /\ q.base \in -2..QueueBound /\ q.cursor >= -1
  BY <1>1, QueueAssumption DEF QueueRecords, NoRange
<1>4. QueuePageTypeOK
  BY <1>1, <1>2, <1>3 DEF QueuePageTypeOK, QueueRecords
<1>5. LengthOfQueue
  BY <1>1 DEF LengthOfQueue, UserActs, QueueSound
<1>6. CursorOnSelection
  BY <1>1 DEF CursorOnSelection, UserActs, QueueSound, ChoiceTold, ChoiceRight
<1> QED
  BY <1>4, <1>5, <1>6

\* With nobody else at work, a command starts from what is on the screen.
LEMMA InStepFacts ==
    ASSUME QueueSafe(queuePage), UserActs, InStep(queuePage), NEW q \in LeaveIdle(Begun)
    PROVE  /\ q.queue = queuePage.queue /\ q.list = queuePage.list /\ QueueSafe(q) /\ q.dirty /\ q.open
           /\ q.cursor = queuePage.cursor /\ q.base = queuePage.base /\ q.length = queuePage.length
<1>1. /\ QueueSafe(Begun) /\ Begun.dirty /\ Begun.open
      /\ Begun.queue = queuePage.queue /\ Begun.list = queuePage.list /\ Begun.news = {}
      /\ Begun.length = queuePage.length /\ Begun.cursor = queuePage.cursor /\ Begun.base = queuePage.base
  BY UserFacts DEF InStep
<1> QED
  BY <1>1, LeaveFacts DEF QueueSafe

LEMMA UpMovesSong ==
    ASSUME QueueSafe(queuePage), InStep(queuePage), queuePage.base = NoRange, MoveUp
    PROVE  GetSelectedSong(queuePage') = GetSelectedSong(queuePage)
<1> DEFINE old == queuePage
           l == old.list
           n == old.length
           x == old.cursor
           first == RangeFirst(old)
           end == RangeEnd(old)
<1>1. UserActs /\ first > 0 /\ n > 0
  BY DEF MoveUp
<1>2. PICK q \in LeaveIdle(Begun) :
         LET moved == RunMoveSong(q, end - 1, first - 1)
         IN  queuePage' = IF end > Len(q.queue) THEN moved
                          ELSE SaveQueueSelection(
                             [moved EXCEPT !.cursor = @ - 1, !.base = IF @ = NoRange THEN @ ELSE @ - 1])
  BY DEF MoveUp
<1>3. old \in QueueRecords /\ LinesValid(old) /\ n = Len(l) /\ n \in 0..QueueBound /\ l = old.queue
  BY <1>1, UserFacts DEF QueueRecords, InStep
<1>4. x \in 0..(n - 1) /\ first = x /\ end = x + 1
  BY <1>1, <1>3, RangeFacts
<1>5. q.queue = l /\ q.list = l /\ QueueSafe(q) /\ q.dirty /\ q.open /\ q.cursor = x /\ q.base = NoRange /\ q.length = n
  BY <1>1, <1>2, <1>3, InStepFacts
<1> DEFINE d == end - 1
           m == first - 1
           moved == RunMoveSong(q, d, m)
           c == moved.cursor - 1
           r == [moved EXCEPT !.cursor = c, !.base = NoRange]
<1>6. d = x /\ m = x - 1 /\ d \in Nat /\ m \in Nat /\ d < n /\ m < n /\ d = m + 1 /\ ~(end > n)
  BY <1>1, <1>3, <1>4, QueueAssumption
<1>7. queuePage' = SaveQueueSelection([moved EXCEPT !.cursor = c, !.base = IF moved.base = NoRange THEN NoRange ELSE moved.base - 1])
  BY <1>2, <1>3, <1>5, <1>6
<1> HIDE DEF d, m, first, end
<1>8. /\ QueueSafe(moved) /\ SameQueueLines(moved, q) /\ moved.list \in SongLists /\ Len(moved.list) = n
      /\ moved.list[m + 1] = l[d + 1]
  <2>1. /\ QueueSafe(moved) /\ SameQueueLines(moved, q)
        /\ d < Len(q.queue) /\ m < Len(q.queue) /\ q.list = q.queue =>
              /\ moved.list \in SongLists /\ Len(moved.list) = Len(q.list)
              /\ d = m + 1 => moved.list[m + 1] = q.list[d + 1]
    BY <1>5, <1>6, MoveSongFacts
  <2> HIDE DEF moved
  <2> QED
    BY <1>3, <1>5, <1>6, <2>1
<1> HIDE DEF moved
<1>9. moved.base = NoRange /\ c = x - 1 /\ moved.length = n /\ moved.open /\ moved.dirty
  BY <1>5, <1>8 DEF SameQueueLines
<1>10. queuePage' = SaveQueueSelection(r)
  BY <1>7, <1>9
<1>11. c \in 0..(n - 1) /\ c \in -1..QueueBound /\ NoRange \in NoRange..QueueBound /\ c = m
  BY <1>3, <1>4, <1>6, <1>9, QueueAssumption DEF NoRange
<1>12. /\ GetSelectedSong(SaveQueueSelection(r)) = GetSelectedSong(r)
       /\ r.list = moved.list /\ r.length = moved.length /\ r.cursor = c /\ r.base = NoRange
  <2> DEFINE b == NoRange
  <2>1. QueueSound(moved) /\ moved.open /\ moved.dirty /\ c \in -1..QueueBound /\ b \in NoRange..QueueBound
    BY <1>8, <1>9, <1>11 DEF QueueSafe
  <2>2. r = [moved EXCEPT !.cursor = c, !.base = b]
    OBVIOUS
  <2> HIDE DEF b, c, r
  <2>3. /\ r \in QueueRecords /\ SameQueue(r, moved) /\ r.length = moved.length /\ r.list = moved.list
        /\ r.cursor = c /\ r.base = b
    BY <2>1, <2>2 DEF QueueSound, QueueRecords, SameQueue
  <2>4. QueueSound(r)
    BY <2>1, <2>3 DEF QueueSound, SameQueue
  <2> QED
    BY <2>3, <2>4, SavedSafe DEF b
<1> HIDE DEF r, c
<1>13. GetSelectedSong(r) = moved.list[c + 1]
  BY <1>8, <1>9, <1>11, <1>12 DEF GetSelectedSong, SongAt
<1>14. GetSelectedSong(old) = l[x + 1]
  BY <1>3, <1>4 DEF GetSelectedSong, SongAt
<1> HIDE DEF l, n, x
<1>15. moved.list[c + 1] = l[x + 1]
  BY <1>6, <1>8, <1>11
<1> QED
  BY <1>10, <1>12, <1>13, <1>14, <1>15

LEMMA DownMovesSong ==
    ASSUME QueueSafe(queuePage), InStep(queuePage), queuePage.base = NoRange, MoveDown
    PROVE  GetSelectedSong(queuePage') = GetSelectedSong(queuePage)
<1> DEFINE old == queuePage
           l == old.list
           n == old.length
           x == old.cursor
           first == RangeFirst(old)
           end == RangeEnd(old)
<1>1. UserActs /\ end < Len(l) /\ n > 0
  BY DEF MoveDown
<1>2. PICK q \in LeaveIdle(Begun) :
         LET moved == RunMoveSong(q, first, end)
         IN  queuePage' = IF end >= Len(q.queue) THEN moved
                          ELSE SaveQueueSelection(
                             [moved EXCEPT !.cursor = @ + 1, !.base = IF @ = NoRange THEN @ ELSE @ + 1])
  BY DEF MoveDown
<1>3. old \in QueueRecords /\ LinesValid(old) /\ n = Len(l) /\ n \in 0..QueueBound /\ l = old.queue
  BY <1>1, UserFacts DEF QueueRecords, InStep
<1>4. x \in 0..(n - 1) /\ first = x /\ end = x + 1
  BY <1>1, <1>3, RangeFacts
<1>5. q.queue = l /\ q.list = l /\ QueueSafe(q) /\ q.dirty /\ q.open /\ q.cursor = x /\ q.base = NoRange /\ q.length = n
  BY <1>1, <1>2, <1>3, InStepFacts
<1> DEFINE d == first
           m == end
           moved == RunMoveSong(q, d, m)
           c == moved.cursor + 1
           r == [moved EXCEPT !.cursor = c, !.base = NoRange]
<1>6. d = x /\ m = x + 1 /\ d \in Nat /\ m \in Nat /\ d < n /\ m < n /\ m = d + 1 /\ ~(end >= n)
  BY <1>1, <1>3, <1>4, QueueAssumption
<1>7. queuePage' = SaveQueueSelection([moved EXCEPT !.cursor = c, !.base = IF moved.base = NoRange THEN NoRange ELSE moved.base + 1])
  BY <1>2, <1>3, <1>5, <1>6
<1> HIDE DEF d, m, first, end
<1>8. /\ QueueSafe(moved) /\ SameQueueLines(moved, q) /\ moved.list \in SongLists /\ Len(moved.list) = n
      /\ moved.list[m + 1] = l[d + 1]
  <2>1. /\ QueueSafe(moved) /\ SameQueueLines(moved, q)
        /\ d < Len(q.queue) /\ m < Len(q.queue) /\ q.list = q.queue =>
              /\ moved.list \in SongLists /\ Len(moved.list) = Len(q.list)
              /\ m = d + 1 => moved.list[m + 1] = q.list[d + 1]
    BY <1>5, <1>6, MoveSongFacts
  <2> HIDE DEF moved
  <2> QED
    BY <1>3, <1>5, <1>6, <2>1
<1> HIDE DEF moved
<1>9. moved.base = NoRange /\ c = x + 1 /\ moved.length = n /\ moved.open /\ moved.dirty
  BY <1>5, <1>8 DEF SameQueueLines
<1>10. queuePage' = SaveQueueSelection(r)
  BY <1>7, <1>9
<1>11. c \in 0..(n - 1) /\ c \in -1..QueueBound /\ NoRange \in NoRange..QueueBound /\ c = m
  BY <1>3, <1>4, <1>6, <1>9, QueueAssumption DEF NoRange
<1>12. /\ GetSelectedSong(SaveQueueSelection(r)) = GetSelectedSong(r)
       /\ r.list = moved.list /\ r.length = moved.length /\ r.cursor = c /\ r.base = NoRange
  <2> DEFINE b == NoRange
  <2>1. QueueSound(moved) /\ moved.open /\ moved.dirty /\ c \in -1..QueueBound /\ b \in NoRange..QueueBound
    BY <1>8, <1>9, <1>11 DEF QueueSafe
  <2>2. r = [moved EXCEPT !.cursor = c, !.base = b]
    OBVIOUS
  <2> HIDE DEF b, c, r
  <2>3. /\ r \in QueueRecords /\ SameQueue(r, moved) /\ r.length = moved.length /\ r.list = moved.list
        /\ r.cursor = c /\ r.base = b
    BY <2>1, <2>2 DEF QueueSound, QueueRecords, SameQueue
  <2>4. QueueSound(r)
    BY <2>1, <2>3 DEF QueueSound, SameQueue
  <2> QED
    BY <2>3, <2>4, SavedSafe DEF b
<1> HIDE DEF r, c
<1>13. GetSelectedSong(r) = moved.list[c + 1]
  BY <1>8, <1>9, <1>11, <1>12 DEF GetSelectedSong, SongAt
<1>14. GetSelectedSong(old) = l[x + 1]
  BY <1>3, <1>4 DEF GetSelectedSong, SongAt
<1> HIDE DEF l, n, x
<1>15. moved.list[c + 1] = l[x + 1]
  BY <1>6, <1>8, <1>11
<1> QED
  BY <1>10, <1>12, <1>13, <1>14, <1>15

LEMMA DeletesChosen ==
    ASSUME QueueSafe(queuePage), InStep(queuePage), Delete
    PROVE  queuePage'.queue = WithoutSongs(queuePage.queue, RangeFirst(queuePage), RangeEnd(queuePage))
<1> DEFINE old == queuePage
           l == old.queue
           first == RangeFirst(old)
           end == RangeEnd(old)
<1>1. UserActs
  BY DEF Delete
<1>2. PICK q \in LeaveIdle(Begun) :
         queuePage' = [SetLine(RunDeleteSongs(q, first, end), first) EXCEPT !.unsaved = TRUE]
  BY DEF Delete
<1>3. old \in QueueRecords /\ LinesValid(old) /\ old.length = Len(l) /\ old.list = l /\ l \in SongLists
  BY <1>1, UserFacts DEF QueueRecords, InStep
<1>4. first \in 0..QueueBound /\ first \in Nat /\ end \in Nat
      /\ (Len(l) = 0 => first = 0 /\ end = 0)
      /\ (Len(l) # 0 => first \in 0..(Len(l) - 1) /\ end \in 1..Len(l) /\ first < end)
  BY <1>3, RangeFacts
<1>5. q.queue = l /\ q.list = l /\ QueueSafe(q) /\ q.dirty
  BY <1>1, <1>2, <1>3, InStepFacts
<1>6. Len(l) \in Nat /\ l \in Seq(QueueSongs)
  BY <1>3, SongListFacts, LenProperties
<1> DEFINE cut == RunDeleteSongs(q, first, end)
           gone == SetLine(cut, first)
<1> HIDE DEF l, first, end
<1>7. cut.queue = WithoutSongs(l, first, end)
  <2> DEFINE song == SongAt(l, first)
             pos == FindById(l, song)
  <2>1. cut = IF end = first + 1 /\ song = NoSongId THEN q
              ELSE IF end = first + 1 /\ Contains(l, song) THEN SendEdit(q, RemoveAt(l, pos + 1))
              ELSE IF end > first + 1 /\ end <= Len(l) THEN SendEdit(q, WithoutSongs(l, first, end))
              ELSE Refused(q)
    BY <1>5 DEF RunDeleteSongs
  <2>2. CASE Len(l) = 0
    <3>1. first = 0 /\ end = 0 /\ cut = Refused(q)
      BY <1>4, <2>1, <2>2
    <3>2. cut.queue = l
      BY <1>5, <3>1, RefusedFacts DEF QueueSafe
    <3>3. l = <<>>
      BY <1>6, <2>2, EmptySeq
    <3> DEFINE w == WithoutSongs(l, first, end)
    <3>4. w = SubSeq(l, 1, 0) \o SubSeq(l, 1, Len(l))
      BY <3>1 DEF WithoutSongs
    <3>5. w = <<>>
      BY <2>2, <3>3, <3>4
    <3> QED
      BY <3>2, <3>3, <3>5
  <2>3. CASE Len(l) # 0 /\ end = first + 1
    <3>1. first \in 0..(Len(l) - 1) /\ first + 1 \in 1..Len(l)
      BY <1>4, <1>6, <2>3
    <3>2. song = l[first + 1] /\ song # NoSongId /\ Contains(l, song)
      BY <1>3, <3>1, SongOf
    <3>3. pos \in 0..(Len(l) - 1) /\ l[pos + 1] = song
      BY <1>3, <3>2, SongFound
    <3> HIDE DEF pos
    <3>4. pos + 1 \in 1..Len(l)
      BY <1>6, <3>3
    <3>5. pos + 1 = first + 1
      BY <1>3, <3>1, <3>2, <3>3, <3>4, SongListFacts
    <3>6. cut = SendEdit(q, RemoveAt(l, pos + 1)) /\ RemoveAt(l, pos + 1) \in SongLists
      BY <1>3, <2>1, <2>3, <3>2, <3>4, SongRemoved
    <3>7. cut.queue = RemoveAt(l, first + 1)
      BY <1>5, <3>5, <3>6, EditFacts DEF QueueSafe
    <3>8. RemoveAt(l, first + 1) = WithoutSongs(l, first, end)
      <4> DEFINE k == first + 1
      <4>1. k - 1 = first /\ k + 1 = end + 1
        BY <1>4, <2>3
      <4> HIDE DEF k
      <4>2. RemoveAt(l, k) = SubSeq(l, 1, k - 1) \o SubSeq(l, k + 1, Len(l))
        BY DEF RemoveAt
      <4>3. RemoveAt(l, k) = SubSeq(l, 1, first) \o SubSeq(l, end + 1, Len(l))
        BY <4>1, <4>2
      <4> QED
        BY <4>3 DEF WithoutSongs, k
    <3> QED
      BY <3>7, <3>8
  <2>4. CASE Len(l) # 0 /\ end # first + 1
    <3>1. end > first + 1 /\ end <= Len(l) /\ first \in Int /\ end \in Int /\ 0 <= first /\ first <= end
      BY <1>4, <1>6, <2>4
    <3>2. cut = SendEdit(q, WithoutSongs(l, first, end))
      BY <2>1, <2>4, <3>1
    <3>3. WithoutSongs(l, first, end) \in SongLists
      BY <1>3, <3>1, SongsLeft
    <3> QED
      BY <1>5, <3>2, <3>3, EditFacts DEF QueueSafe
  <2> QED
    BY <2>2, <2>3, <2>4
<1>8. cut \in QueueRecords
  BY <1>4, <1>5, DeleteSongsFacts DEF QueueSafe, QueueSound
<1>9. queuePage' = [gone EXCEPT !.unsaved = TRUE]
  BY <1>2
<1> HIDE DEF cut
<1>10. gone \in QueueRecords /\ SameQueue(gone, cut)
  <2>1. first \in -1..QueueBound
    BY <1>4, QueueAssumption
  <2> QED
    BY <1>8, <2>1, LineSetFacts
<1> HIDE DEF gone
<1>11. queuePage'.queue = gone.queue
  BY <1>9, <1>10 DEF QueueRecords
<1> QED
  BY <1>7, <1>10, <1>11 DEF SameQueue, l, first, end

\* Whatever other clients, nested updates and lost connections do to the queue, the page is as long
\* as the queue it shows, and the cursor is on the chosen song unless an event is to come or the
\* cursor movement is one the page does not save; nobody else changes the choice.  That moving and
\* deleting hit the chosen songs is stated of commands during which nobody else edits, with a
\* replica in step with MPD: otherwise they may hit others (QueuePage).
THEOREM SelectionIsKept == QueuePageSpec => SelectionFollowsSongs
<1> DEFINE Good == QueueSafe(queuePage)
<1>1. QueuePageInit => Good
  BY QueueInitSafe
<1>2. Good /\ [QueuePageNext]_queuePage => Good'
  BY QueueStep
<1>3. Good => QueuePageTypeOK /\ LengthOfQueue /\ CursorOnSelection
  BY QueueSafeIsRight
<1>4. Good /\ [QueuePageNext]_queuePage =>
         [queuePage'.selected = queuePage.selected \/ ~Contains(queuePage'.list, queuePage.selected)
             \/ QueueUserNext]_queuePage
  BY QueueStep DEF Keeps
<1>5. Good /\ [QueuePageNext]_queuePage =>
         [InStep(queuePage) /\ queuePage.base = NoRange /\ (MoveUp \/ MoveDown)
             => GetSelectedSong(queuePage') = GetSelectedSong(queuePage)]_queuePage
  BY UpMovesSong, DownMovesSong
<1>6. Good /\ [QueuePageNext]_queuePage =>
         [InStep(queuePage) /\ Delete
             => queuePage'.queue = WithoutSongs(queuePage.queue, RangeFirst(queuePage), RangeEnd(queuePage))]_queuePage
  BY DeletesChosen
<1> HIDE DEF Good
<1> QED
  BY <1>1, <1>2, <1>3, <1>4, <1>5, <1>6, PTL
     DEF QueuePageSpec, SelectionFollowsSongs, ChoiceKept, MovesWithSong, DeletesTheChosen
=============================================================================
