------------------------------ MODULE QueuePage ------------------------------
(***************************************************************************)
(* The queue page (QueuePage.cxx): the cursor follows its song while other *)
(* clients, the user's own commands and updates nested in them change the  *)
(* queue under it.                                                         *)
(*                                                                         *)
(* How the replica is kept in step is QueueSync's subject: here an update  *)
(* is one step, and a command takes its cheap route when the replica was   *)
(* up to date.  How the view scrolls is ListWindow's: here the cursor may  *)
(* be fetched to any line between its own and the one that is centered.    *)
(***************************************************************************)
EXTENDS Integers, SequencesExt, FiniteSetsExt

CONSTANTS
    QueueSongs,   \* the ids of songs
    NoSongId,     \* -1
    QueueBound    \* bound: songs in the queue

\* MPD's ids of songs are not negative.
ASSUME QueueAssumption == QueueBound \in Nat /\ NoSongId \notin QueueSongs

VARIABLE queuePage   \* the page, the client and MPD

PageEvents == {"queue", "player"}
NotPlaying == [id |-> NoSongId, pos |-> -1]
NoRange == -2

\* Positions count from 0.
SongAt(list, i) == IF i \in 0..(Len(list) - 1) THEN list[i + 1] ELSE NoSongId
FindById(list, id) == CHOOSE i \in -1..(Len(list) - 1) : IF i = -1 THEN ~Contains(list, id) ELSE list[i + 1] = id
PlayingIn(list, id) == IF Contains(list, id) THEN [id |-> id, pos |-> FindById(list, id)] ELSE NotPlaying
WithoutSongs(list, first, end) == SubSeq(list, 1, first) \o SubSeq(list, end + 1, Len(list))

\* Without a connection, what MPD does is of no interest.
QueuePageInit ==
    queuePage = [queue |-> <<>>, playing |-> NoSongId, news |-> {},       \* MPD
                 conn |-> FALSE, idle |-> FALSE, events |-> {}, list |-> <<>>, status |-> NotPlaying,
                 dirty |-> FALSE,                                         \* update_screen_event
                 open |-> FALSE, pending |-> {}, length |-> 0, cursor |-> 0, base |-> NoRange,
                 selected |-> NoSongId, current |-> NoSongId, searching |-> FALSE,
                 unsaved |-> FALSE]       \* the cursor has been moved without SaveSelection()

-----------------------------------------------------------------------------
(* The list window *)

\* A line is `unsigned': -1 stands for UINT_MAX.
ValidLine(q, i) == IF q.length = 0 THEN 0 ELSE IF i \in 0..(q.length - 1) THEN i ELSE q.length - 1
CheckLines(q) ==
    [q EXCEPT !.cursor = ValidLine(q, @), !.base = IF @ = NoRange THEN @ ELSE ValidLine(q, @)]
SetQueueLength(q) == CheckLines([q EXCEPT !.length = Len(q.list)])
SetLine(q, i) == CheckLines([q EXCEPT !.base = NoRange, !.cursor = i])
RangeFirst(q) == IF q.length = 0 THEN 0 ELSE IF q.base = NoRange THEN q.cursor ELSE Min({q.base, q.cursor})
RangeEnd(q) == IF q.length = 0 THEN 0 ELSE Max({q.base, q.cursor}) + 1

-----------------------------------------------------------------------------
(* The page *)

GetSelectedSong(q) ==
    IF q.base = NoRange /\ q.cursor \in 0..(q.length - 1) THEN SongAt(q.list, q.cursor) ELSE NoSongId

SaveQueueSelection(q) == [q EXCEPT !.selected = GetSelectedSong(q), !.unsaved = FALSE]

RestoreQueueSelection(q) ==
    LET sized == SetQueueLength(q)
        pos == FindById(q.list, q.selected)
    IN  IF q.selected = NoSongId THEN sized
        ELSE IF GetSelectedSong(sized) = q.selected THEN [sized EXCEPT !.unsaved = FALSE]
        ELSE SaveQueueSelection(IF pos >= 0 THEN SetLine(sized, pos) ELSE sized)

\* A range keeps its base when the cursor is fetched; ListWindow::SetCursor() ends it.
CenterPlaying(q, center_cursor) ==
    IF q.status = NotPlaying THEN {q}
    ELSE IF center_cursor THEN {[SetLine(q, q.status.pos) EXCEPT !.unsaved = TRUE]}
    ELSE {[CheckLines([q EXCEPT !.cursor = i]) EXCEPT !.unsaved = TRUE] :
            i \in Min({ValidLine(q, q.cursor), q.status.pos})..Max({ValidLine(q, q.cursor), q.status.pos})}

\* auto_center may be off.
OnSongChange(q) ==
    LET new == [q EXCEPT !.current = q.status.id]
    IN  IF q.current = q.status.id THEN {q}
        ELSE {new} \cup IF q.base = NoRange THEN CenterPlaying(new, FALSE) ELSE {}

\* QueuePage::Update()
UpdateQueuePage(q, events) ==
    LET followed == IF "queue" \in events THEN RestoreQueueSelection(q) ELSE SetQueueLength(q)
    IN  IF "player" \in events THEN OnSongChange(followed) ELSE {followed}

\* ScreenManager::Update(): a page that is not shown keeps the events.
PaintQueue(q) ==
    {[r EXCEPT !.events = {}] :
        r \in IF q.open THEN UpdateQueuePage(q, q.events)
              ELSE {[q EXCEPT !.pending = @ \cup q.events]}}

-----------------------------------------------------------------------------
(* The client *)

\* mpdclient::Update()
UpdateReplica(q) == [q EXCEPT !.list = q.queue, !.status = PlayingIn(q.queue, q.playing)]

\* mpdclient::OnIdle()
OnIdleEvents(q) ==
    PaintQueue(UpdateReplica([q EXCEPT !.events = @ \cup q.news, !.news = {}, !.idle = FALSE]))

\* GetConnection(): leaving idle mode may yield events.
LeaveIdle(q) ==
    IF q.idle /\ q.news # {} THEN OnIdleEvents(q) ELSE {[q EXCEPT !.idle = FALSE]}

\* A command which edits the queue, and its cheap route.
SendEdit(q, new) ==
    [q EXCEPT !.queue = new, !.list = IF @ = q.queue THEN new ELSE @,
              !.playing = IF Contains(new, @) THEN @ ELSE NoSongId,
              !.events = @ \cup {"queue"}, !.news = @ \cup {"queue"}]

\* MPD refuses the command; the event has been noted before its answer.
Refused(q) == [q EXCEPT !.events = @ \cup {"queue"}]

RunMoveSong(q, dest, src) ==
    IF dest < Len(q.queue) /\ src < Len(q.queue)
    THEN SendEdit(q, InsertAt(RemoveAt(q.queue, src + 1), dest + 1, q.queue[src + 1]))
    ELSE Refused(q)

RunDeleteSongs(q, first, end) ==
    LET song == SongAt(q.list, first)
    IN  IF end = first + 1 /\ song = NoSongId THEN q
        ELSE IF end = first + 1 /\ Contains(q.queue, song) THEN SendEdit(q, RemoveAt(q.queue, FindById(q.queue, song) + 1))
        ELSE IF end > first + 1 /\ end <= Len(q.queue)
        THEN SendEdit(q, WithoutSongs(q.queue, first, end))
        ELSE Refused(q)

-----------------------------------------------------------------------------
(* Commands of the user *)

\* Input comes after a poll, before which deferred events run.  OnCommand() first cancels
\* the coroutine; a command schedules an update of the screen.
Begun == [queuePage EXCEPT !.searching = FALSE, !.dirty = TRUE]
UserActs == queuePage.open /\ ~queuePage.dirty

MoveLine ==
    /\ UserActs
    /\ \E i \in 0..(queuePage.length - 1) :
          queuePage' = SaveQueueSelection(CheckLines([Begun EXCEPT !.cursor = i]))

RangeSelectLines ==
    /\ UserActs
    /\ queuePage' = SaveQueueSelection(
          IF queuePage.base = NoRange THEN [Begun EXCEPT !.base = queuePage.cursor]
          ELSE SetLine(Begun, queuePage.cursor))

\* SCREEN_UPDATE; given twice, the cursor goes to the song.
ScreenUpdate ==
    /\ UserActs
    /\ \E twice \in BOOLEAN : queuePage' \in CenterPlaying(Begun, twice)

SelectPlaying ==
    /\ UserActs
    /\ queuePage.status # NotPlaying
    /\ queuePage' = SaveQueueSelection(SetLine(Begun, queuePage.status.pos))

\* LIST_FIND and LIST_JUMP: the latter moves the cursor while the user types.
StartSearching ==
    /\ UserActs
    /\ queuePage' = [Begun EXCEPT !.searching = TRUE]

FoundWhileTyping ==
    /\ queuePage.searching
    /\ \E i \in 0..(queuePage.length - 1) :
          queuePage' = CheckLines([queuePage EXCEPT !.cursor = i, !.unsaved = TRUE])

\* QueuePage::OnCoComplete()
FinishSearching ==
    /\ queuePage.searching
    /\ \E i \in {queuePage.cursor} \cup 0..(queuePage.length - 1) :
          queuePage' = SaveQueueSelection(
             CheckLines([queuePage EXCEPT !.searching = FALSE, !.cursor = i]))

\* Mutant: the range ends at the cursor.
DeleteToCursor ==
    /\ UserActs /\ queuePage.conn
    /\ \E q \in LeaveIdle(Begun) :
          queuePage' = [SetLine(RunDeleteSongs(q, RangeFirst(queuePage), queuePage.cursor + 1),
                                RangeFirst(queuePage)) EXCEPT !.unsaved = TRUE]

\* DELETE: the lines are read before GetConnection() and its nested update.
Delete ==
    /\ UserActs /\ queuePage.conn
    /\ \E q \in LeaveIdle(Begun) :
          queuePage' = [SetLine(RunDeleteSongs(q, RangeFirst(queuePage), RangeEnd(queuePage)),
                                RangeFirst(queuePage)) EXCEPT !.unsaved = TRUE]

\* LIST_MOVE_UP moves the song above the range below it, LIST_MOVE_DOWN the one below.
MoveUp ==
    /\ UserActs /\ queuePage.conn
    /\ RangeFirst(queuePage) > 0 /\ queuePage.length > 0
    /\ \E q \in LeaveIdle(Begun) :
          LET end == RangeEnd(queuePage)
              moved == RunMoveSong(q, end - 1, RangeFirst(queuePage) - 1)
          IN  queuePage' = IF end > Len(q.queue) THEN moved
                           ELSE SaveQueueSelection(
                              [moved EXCEPT !.cursor = @ - 1,
                                            !.base = IF @ = NoRange THEN @ ELSE @ - 1])

MoveDown ==
    /\ UserActs /\ queuePage.conn
    /\ queuePage.length > 0 /\ RangeEnd(queuePage) < Len(queuePage.list)
    /\ \E q \in LeaveIdle(Begun) :
          LET end == RangeEnd(queuePage)
              moved == RunMoveSong(q, RangeFirst(queuePage), end)
          IN  queuePage' = IF end >= Len(q.queue) THEN moved
                           ELSE SaveQueueSelection(
                              [moved EXCEPT !.cursor = @ + 1,
                                            !.base = IF @ = NoRange THEN @ ELSE @ + 1])

\* SHUFFLE with a range; MPD shuffles, the replica is not touched.
ShuffleRange ==
    /\ UserActs /\ queuePage.conn
    /\ RangeEnd(queuePage) > RangeFirst(queuePage) + 1
    /\ \E q \in LeaveIdle(Begun) :
          /\ RangeEnd(queuePage) <= Len(q.queue)
          /\ \E i \in RangeFirst(queuePage)..(RangeEnd(queuePage) - 2) :
                queuePage' = [q EXCEPT !.queue = [@ EXCEPT ![i + 1] = q.queue[i + 2], ![i + 2] = q.queue[i + 1]],
                                       !.news = @ \cup {"queue"}]

PlaySelected ==
    /\ UserActs /\ queuePage.conn
    /\ GetSelectedSong(queuePage) # NoSongId
    /\ \E q \in LeaveIdle(Begun) :
          queuePage' = IF Contains(q.queue, GetSelectedSong(queuePage))
                       THEN [q EXCEPT !.playing = GetSelectedSong(queuePage), !.news = @ \cup {"player"}]
                       ELSE q

\* QueuePage::OnMouse(): the third button.
DeleteByMouse ==
    /\ UserActs /\ queuePage.conn
    /\ \E i \in 0..(queuePage.length - 1) :
          LET clicked == SetLine([queuePage EXCEPT !.dirty = TRUE], i)
          IN  \E q \in LeaveIdle(clicked) :
                 queuePage' = SaveQueueSelection(SetQueueLength(RunDeleteSongs(q, q.cursor, q.cursor + 1)))

\* ScreenManager::Switch()
OpenQueuePage ==
    /\ ~queuePage.open
    /\ \E opened \in OnSongChange(RestoreQueueSelection([queuePage EXCEPT !.open = TRUE])) :
          queuePage' \in UpdateQueuePage([opened EXCEPT !.pending = {}], queuePage.pending)

CloseQueuePage ==
    /\ UserActs
    /\ queuePage' = [queuePage EXCEPT !.open = FALSE, !.searching = FALSE]

\* Another page adds a song.
AddSong ==
    /\ ~queuePage.open /\ queuePage.conn /\ ~queuePage.dirty
    /\ \E q \in LeaveIdle([queuePage EXCEPT !.dirty = TRUE]), s \in QueueSongs \ ToSet(queuePage.queue) :
          /\ Len(q.queue) < QueueBound
          /\ queuePage' = SendEdit(q, Append(q.queue, s))

-----------------------------------------------------------------------------
(* Callbacks of the event loop *)

\* Instance::OnUpdateScreen()
DoUpdateScreen ==
    /\ queuePage.dirty
    /\ queuePage' \in PaintQueue([queuePage EXCEPT !.dirty = FALSE])

\* Instance::UpdateClient(), while MPD plays
UpdateQueue ==
    /\ queuePage.conn /\ queuePage.status # NotPlaying
    /\ \E q \in LeaveIdle(queuePage) : queuePage' \in PaintQueue(UpdateReplica(q))

EnterIdle == queuePage.conn /\ ~queuePage.idle /\ queuePage' = [queuePage EXCEPT !.idle = TRUE]

DoOnIdle ==
    /\ queuePage.idle /\ queuePage.news # {}
    /\ queuePage' \in OnIdleEvents(queuePage)

QueueLost ==
    /\ queuePage.conn
    /\ queuePage' \in PaintQueue([queuePage EXCEPT !.conn = FALSE, !.idle = FALSE, !.list = <<>>,
                                                     !.status = NotPlaying, !.events = PageEvents,
                                                     !.queue = <<>>, !.playing = NoSongId, !.news = {}])

QueueConnected ==
    /\ ~queuePage.conn
    /\ \E queue \in BoundedSeq(QueueSongs, QueueBound) :
          /\ IsInjective(queue)
          /\ \E playing \in ToSet(queue) \cup {NoSongId} :
                queuePage' \in PaintQueue(UpdateReplica(
                   [queuePage EXCEPT !.conn = TRUE, !.events = PageEvents, !.queue = queue, !.playing = playing]))

-----------------------------------------------------------------------------
(* MPD *)

OtherClientEdits ==
    queuePage.conn /\ \E new \in {RemoveAt(queuePage.queue, i) : i \in DOMAIN queuePage.queue} \cup
               {InsertAt(queuePage.queue, 1, s) : s \in QueueSongs \ ToSet(queuePage.queue)} \cup
               {[queuePage.queue EXCEPT ![1] = queuePage.queue[i], ![i] = queuePage.queue[1]] :
                   i \in DOMAIN queuePage.queue} :
        /\ Len(new) <= QueueBound
        /\ queuePage' = [queuePage EXCEPT !.queue = new, !.playing = IF Contains(new, @) THEN @ ELSE NoSongId,
                                         !.news = @ \cup {"queue"}]

SongStarts ==
    \E s \in ToSet(queuePage.queue) \ {queuePage.playing} :
        queuePage' = [queuePage EXCEPT !.playing = s, !.news = @ \cup {"player"}]

QueueUserNext ==
    \/ MoveLine \/ RangeSelectLines \/ ScreenUpdate \/ SelectPlaying \/ StartSearching \/ FoundWhileTyping
    \/ FinishSearching \/ Delete \/ MoveUp \/ MoveDown \/ ShuffleRange \/ PlaySelected \/ DeleteByMouse
    \/ OpenQueuePage \/ CloseQueuePage \/ AddSong

QueuePageNext ==
    \/ QueueUserNext
    \/ DoUpdateScreen \/ UpdateQueue \/ EnterIdle \/ DoOnIdle \/ QueueLost \/ QueueConnected
    \/ OtherClientEdits \/ SongStarts

QueuePageSpec == QueuePageInit /\ [][QueuePageNext]_queuePage

-----------------------------------------------------------------------------
(* Properties *)

\* Types; songs are in the list once.
QueuePageTypeOK ==
    /\ \A list \in {queuePage.queue, queuePage.list} :
          Len(list) <= QueueBound /\ IsInjective(list) /\ ToSet(list) \subseteq QueueSongs
    /\ queuePage.events \subseteq PageEvents /\ queuePage.pending \subseteq PageEvents /\ queuePage.news \subseteq PageEvents
    /\ queuePage.length \in 0..QueueBound
    /\ {queuePage.cursor, queuePage.base} \subseteq -2..QueueBound /\ queuePage.cursor >= -1
    /\ {queuePage.selected, queuePage.current, queuePage.playing} \subseteq QueueSongs \cup {NoSongId}

\* "The index of the first selected item" (ui/ListCursor.hxx:13) is that of an item.
CursorInQueue == queuePage.cursor = 0 \/ queuePage.cursor \in 0..(queuePage.length - 1)

\* Whenever the user can give a command, the list window is as long as the queue it shows:
\* the cursor is used as an index of the queue without a check (QueuePage.cxx:128).
LengthOfQueue == UserActs => queuePage.length = Len(queuePage.list)

\* The song under the cursor is the one the user chose, as long as the queue has it: "selection
\* is still valid" (QueuePage.cxx:151).  There may be an event to come, and cursor movements
\* which the page does not save.
CursorOnSelection ==
    UserActs /\ "queue" \notin queuePage.news /\ ~queuePage.searching /\ ~queuePage.unsaved /\ queuePage.selected # NoSongId
        => GetSelectedSong(queuePage) = queuePage.selected

\* Nothing but the user changes that choice while the song is in the queue.
ChoiceKept ==
    [][queuePage'.selected = queuePage.selected \/ ~Contains(queuePage'.list, queuePage.selected)
          \/ QueueUserNext]_queuePage

InStep(q) == q.list = q.queue /\ q.news = {}

\* LIST_MOVE_UP and LIST_MOVE_DOWN: the cursor goes with its song, when nobody else edits.
MovesWithSong ==
    [][InStep(queuePage) /\ queuePage.base = NoRange /\ (MoveUp \/ MoveDown)
          => GetSelectedSong(queuePage') = GetSelectedSong(queuePage)]_queuePage

\* DELETE deletes the songs that are selected on the screen and no others, when nobody else edits.
DeletesTheChosen ==
    [][InStep(queuePage) /\ Delete
          => queuePage'.queue = WithoutSongs(queuePage.queue, RangeFirst(queuePage), RangeEnd(queuePage))]_queuePage

\* Through reloads of the queue, edits of others and the updates that come within its own
\* commands, the window is as long as the list, and cursor and choice are about songs, not lines;
\* so are moves and deletions, when nobody edits between the command and its request.
SelectionFollowsSongs ==
    /\ [](QueuePageTypeOK /\ LengthOfQueue /\ CursorOnSelection)
    /\ ChoiceKept /\ MovesWithSong /\ DeletesTheChosen
=============================================================================
