---------------------------- MODULE PlaylistEditor ----------------------------
(***************************************************************************)
(* The playlist editor (EditPlaylistPage.cxx): its copy of a stored        *)
(* playlist, the selection that follows a song through the reloads, and    *)
(* the edits, which are sent to MPD and come back as an event.             *)
(***************************************************************************)
EXTENDS Integers, Sequences, SequencesExt

CONSTANTS
    EditSongs,
    Playlists,
    EditContents,    \* what other clients may store: [Playlists -> sets of sequences of songs]
    NoPlaylist, NoEditSong

ASSUME EditorAssumption ==
    /\ \A p \in Playlists : EditContents[p] \subseteq Seq(EditSongs)
    /\ NoPlaylist \notin Playlists /\ NoEditSong \notin EditSongs

VARIABLE editor

Editors ==
    [name : Playlists \cup {NoPlaylist},
     next : Playlists \cup {NoPlaylist},      \* next_playlist_name
     list : Seq(EditSongs),                   \* filelist
     length : Nat,                            \* the length lw knows
     cursor : Int,                            \* counted from 1; no item's number is possible
     base : Int,                              \* range_base, 1 without a range
     range : BOOLEAN,                         \* range_selection
     selected : EditSongs \cup {NoEditSong},  \* selected_song
     open : BOOLEAN,
     pending : BOOLEAN,                       \* Page::pending_events
     conn : BOOLEAN,
     idle : BOOLEAN,
     events : BOOLEAN,                        \* mpdclient::events
     news : BOOLEAN,                          \* what MPD has not reported yet
     stored : [Playlists -> Seq(EditSongs)],  \* MPD's playlists
     strayed : BOOLEAN]                       \* the cursor has been moved, the selection not saved

-----------------------------------------------------------------------------
(* The list window *)

\* GetRange(): the first and the last selected item.  Below zero the indices wrap: nothing
\* is selected.
Nothing(e) == e.length = 0 \/ e.cursor < 1
RangeStart(e) == IF Nothing(e) THEN 1 ELSE IF e.range /\ e.base < e.cursor THEN e.base ELSE e.cursor
RangeEnd(e) == IF Nothing(e) THEN 0 ELSE IF e.range /\ e.base >= e.cursor THEN e.base ELSE e.cursor

\* ListCursor::ValidateIndex(): an index below zero is a large number.
Valid(i, n) == IF n = 0 THEN 1 ELSE IF i \in 1..n THEN i ELSE n

EditSetCursor(e, i) == [e EXCEPT !.range = FALSE, !.base = 1, !.cursor = Valid(i, e.length)]

\* SetLength(): nothing happens if the length is the same.
EditSetLength(e, n) ==
    IF n = e.length THEN e
    ELSE [e EXCEPT !.length = n, !.cursor = Valid(@, n), !.base = IF e.range THEN Valid(@, n) ELSE @]

-----------------------------------------------------------------------------
(* The selection *)

\* SaveSelection(), GetSelectedSong(): only a single item is a selection.
SaveSelection(e) ==
    [e EXCEPT !.selected = IF RangeStart(e) = RangeEnd(e) /\ RangeStart(e) \in DOMAIN e.list
                           THEN e.list[RangeStart(e)] ELSE NoEditSong,
              !.strayed = FALSE]

\* RestoreSelection(): the cursor goes to the first item with the same URI.
RestoreSelection(e) ==
    LET i == SelectInSeq(e.list, LAMBDA s : s = e.selected)
    IN  IF e.selected = NoEditSong THEN e
        ELSE SaveSelection(IF i > 0 THEN EditSetCursor(e, i) ELSE e)

-----------------------------------------------------------------------------
(* Loading *)

Loads(e, l) == EditSetLength([e EXCEPT !.list = l], Len(l))

\* The start of Update(): another playlist starts without a selection.
TakeNext(e) ==
    IF e.next \in {NoPlaylist, e.name} THEN [e EXCEPT !.next = NoPlaylist]
    ELSE [EditSetCursor(e, 1) EXCEPT !.selected = NoEditSong, !.strayed = FALSE,
                                     !.name = e.next, !.next = NoPlaylist, !.pending = TRUE]

\* Update() and Reload(): `Fetched' is the set of pages with their lists, once the
\* connection has been used.
EditUpdate(e, Fetched(_)) ==
    LET f == TakeNext(e)
    IN  IF ~e.open THEN {e}
        ELSE IF ~f.pending THEN {f}
        ELSE {RestoreSelection(g) : g \in Fetched([f EXCEPT !.pending = FALSE])}

\* Without a connection, or without a name, the list is empty.
NothingFetched(e) == {Loads(e, <<>>)}

EditDisconnect(e) ==
    LET lost == [e EXCEPT !.conn = FALSE, !.idle = FALSE, !.news = FALSE, !.events = TRUE,
                          !.pending = TRUE]
    IN  CHOOSE f \in EditUpdate(lost, NothingFetched) : TRUE

\* LoadPlaylist() while the connection is not idle; what has been received before it
\* breaks is kept, or the playlist is gone.
Fetch(e) ==
    IF ~e.conn \/ e.name = NoPlaylist THEN {Loads(e, <<>>)}
    ELSE {Loads(e, e.stored[e.name])}
         \cup {Loads(EditDisconnect(e), SubSeq(e.stored[e.name], 1, n)) : n \in 0..1 \cap 0..Len(e.stored[e.name])}

\* GetConnection(), leaving idle mode
EditConnection(e) ==
    LET left == [e EXCEPT !.idle = FALSE, !.news = FALSE]
        told == [left EXCEPT !.pending = TRUE]
    IN  IF ~e.conn \/ ~e.idle THEN {e}
        ELSE {EditDisconnect(e)}
             \cup IF ~e.news THEN {left}
                  ELSE {[f EXCEPT !.events = FALSE] : f \in EditUpdate(told, Fetch)}

Reloaded(e) ==
    IF e.name = NoPlaylist THEN Fetch(e) ELSE UNION {Fetch(f) : f \in EditConnection(e)}

-----------------------------------------------------------------------------
(* Edits.  The selection is looked up before the connection is used. *)

\* A change MPD makes for us comes back as an event.
Stores(e, l) == [e EXCEPT !.stored[e.name] = l, !.news = TRUE]

\* From the last to the first
RemoveRange(l, first, last) == SubSeq(l, 1, first - 1) \o SubSeq(l, last + 1, Len(l))

\* MPD refuses positions that do not exist.
Removes(e, first, last) ==
    IF first < 1 \/ last > Len(e.stored[e.name]) THEN e
    ELSE Stores(e, RemoveRange(e.stored[e.name], first, last))

\* HandleDelete()
EditDelete(e) ==
    IF RangeStart(e) > RangeEnd(e) THEN {e}
    ELSE UNION {IF ~f.conn THEN {f}
                ELSE {[EditSetCursor(g, RangeStart(e)) EXCEPT !.strayed = TRUE] :
                        g \in {EditDisconnect(f),
                               Removes(f, RangeStart(e), RangeEnd(e))}} :
                  f \in EditConnection(e)}

\* "playlistmove"
Moved(l, from, to) ==
    IF from \notin DOMAIN l \/ to \notin DOMAIN l THEN l
    ELSE InsertAt(RemoveAt(l, from), to, l[from])

\* Mutant: the other end of the range stays.
StepsCursor(e, d) == [e EXCEPT !.cursor = @ + d]

\* SelectionMovedUp(), SelectionMovedDown()
Steps(e, d) == [e EXCEPT !.cursor = @ + d, !.base = IF e.range THEN @ + d ELSE @]

\* HandleMoveUp(): the item above the range goes below it.
EditMoveUp(e) ==
    IF RangeStart(e) = 1 \/ RangeStart(e) > RangeEnd(e) THEN {e}
    ELSE UNION {LET s == SaveSelection(f)
                    m == Moved(s.stored[s.name], RangeStart(e) - 1, RangeEnd(e))
                IN  IF ~f.conn THEN {f}
                    ELSE {s, EditDisconnect(s)}
                         \cup IF RangeEnd(e) <= Len(s.stored[s.name])
                              THEN {Steps(Stores(s, m), -1)} ELSE {} :
                  f \in EditConnection(e)}

\* HandleMoveDown(): the item below the range goes above it.
EditMoveDown(e) ==
    IF RangeEnd(e) >= e.length THEN {e}
    ELSE UNION {LET s == SaveSelection(f)
                    m == Moved(s.stored[s.name], RangeEnd(e) + 1, RangeStart(e))
                IN  IF ~f.conn THEN {f}
                    ELSE {s, EditDisconnect(s)}
                         \cup IF RangeStart(e) <= RangeEnd(e) /\ RangeEnd(e) + 1 <= Len(s.stored[s.name])
                              THEN {Steps(Stores(s, m), 1)} ELSE {} :
                  f \in EditConnection(e)}

-----------------------------------------------------------------------------
EditorInit ==
    \E stored \in {f \in [Playlists -> UNION {EditContents[p] : p \in Playlists}] :
                     \A p \in Playlists : f[p] \in EditContents[p]} :
      editor = [name |-> NoPlaylist, next |-> NoPlaylist, list |-> <<>>, length |-> 0,
                cursor |-> 1, base |-> 1, range |-> FALSE, selected |-> NoEditSong,
                open |-> FALSE, pending |-> TRUE, conn |-> FALSE, idle |-> FALSE,
                events |-> FALSE, news |-> FALSE, stored |-> stored, strayed |-> FALSE]

EditServerChange ==
    /\ editor.conn
    /\ \E p \in Playlists, l \in UNION {EditContents[q] : q \in Playlists} :
         /\ l \in EditContents[p]
         /\ editor' = [editor EXCEPT !.stored[p] = l, !.news = TRUE]

\* mpdclient::events reach the page with the next update of the screen.
EditScreen(e) ==
    {[f EXCEPT !.events = FALSE] :
       f \in EditUpdate([e EXCEPT !.pending = @ \/ e.events], Reloaded)}

EditConnected ==
    /\ ~editor.conn
    /\ editor' \in EditScreen([editor EXCEPT !.conn = TRUE, !.events = TRUE, !.news = FALSE])

EditIdle == editor.conn /\ editor.idle /\ editor' \in EditConnection(editor)
EditEnterIdle == editor.conn /\ ~editor.idle /\ editor' = [editor EXCEPT !.idle = TRUE]
EditUpdateTimer == editor' \in UNION {EditScreen(e) : e \in EditConnection(editor)}
EditUpdateScreen == editor' \in EditScreen(editor)

\* EditPlaylist(): another page names a playlist, and this page is shown.
EditPlaylist ==
    /\ ~editor.open
    /\ \E p \in Playlists :
         editor' \in EditUpdate([editor EXCEPT !.next = p, !.open = TRUE], Reloaded)

ShowEditor == ~editor.open /\ editor' \in EditUpdate([editor EXCEPT !.open = TRUE], Reloaded)
HideEditor == editor.open /\ editor' = [editor EXCEPT !.open = FALSE]

\* A command of the list, or a click
EditMove ==
    /\ editor.open /\ editor.length > 0
    /\ \E i \in 1..editor.length :
         editor' \in {SaveSelection(EditSetCursor(editor, i)),
                      SaveSelection([editor EXCEPT !.cursor = i, !.base = IF editor.range THEN Valid(@, editor.length) ELSE @])}

\* RANGE_SELECT
EditRange ==
    /\ editor.open
    /\ editor' = SaveSelection(IF editor.range THEN EditSetCursor(editor, editor.cursor)
                               ELSE [editor EXCEPT !.range = TRUE, !.base = editor.cursor])

\* The coroutines of LIST_FIND and LIST_JUMP move the cursor behind the page's back.
EditFind ==
    /\ editor.open
    /\ \E i \in 1..editor.length :
         editor' = [EditSetCursor(editor, i) EXCEPT !.strayed = TRUE]

\* A click with the third button, at the row of the cursor, deletes it.
EditClick ==
    /\ editor.open /\ editor.conn /\ editor.length > 0
    /\ LET e == EditSetCursor(editor, editor.cursor)
       IN  editor' \in UNION {IF ~f.conn THEN {SaveSelection(f)}
                              ELSE {SaveSelection(EditDisconnect(f)),
                                    SaveSelection(Removes(f, f.cursor, f.cursor))} :
                                f \in EditConnection(e)}

EditItems ==
    /\ editor.open /\ editor.conn
    /\ editor' \in EditDelete(editor) \cup EditMoveUp(editor) \cup EditMoveDown(editor)

EditorNext ==
    \/ EditServerChange \/ EditConnected \/ EditIdle \/ EditEnterIdle \/ EditUpdateTimer
    \/ EditUpdateScreen \/ EditPlaylist \/ ShowEditor \/ HideEditor \/ EditMove \/ EditRange
    \/ EditFind \/ EditClick \/ EditItems

EditorSpec == EditorInit /\ [][EditorNext]_editor

-----------------------------------------------------------------------------
(* Properties *)

\* Types; the list window is as long as the playlist that is shown.
EditorTypeOK ==
    /\ editor \in Editors
    /\ editor.length = Len(editor.list)

\* Nothing is on its way to the page.
UpToDate == editor.conn /\ ~(editor.pending \/ editor.events \/ editor.news)

\* The playlist is shown as MPD has stored it, unless a change is on its way.
EditorFaithful ==
    UpToDate => editor.list = IF editor.name = NoPlaylist THEN <<>> ELSE editor.stored[editor.name]

\* The cursor is on the song that was selected, wherever the changes have moved it.
SelectionFollows ==
    UpToDate /\ ~editor.strayed /\ editor.selected # NoEditSong =>
      /\ editor.cursor \in DOMAIN editor.list
      /\ editor.list[editor.cursor] = editor.selected

Stored == IF editor.name = NoPlaylist THEN <<>> ELSE editor.stored[editor.name]

\* Deleting from an up to date playlist leaves alone what was not selected.  With a change on its
\* way, the positions may be of another list when they are sent.
DeletesSelected ==
    [][UpToDate /\ Len(Stored') < Len(Stored) /\ editor'.name = editor.name /\ EditItems =>
         /\ SubSeq(Stored', 1, RangeStart(editor) - 1) = SubSeq(Stored, 1, RangeStart(editor) - 1)
         /\ SubSeq(Stored', RangeStart(editor), Len(Stored')) = SubSeq(Stored, RangeEnd(editor) + 1, Len(Stored))]_editor

\* After a move in an up to date playlist the selection is on the songs that were selected.
CursorFollowsMove ==
    [][UpToDate /\ Stored' # Stored /\ Len(Stored') = Len(Stored) /\ editor'.name = editor.name /\ EditItems =>
         SubSeq(Stored', RangeStart(editor'), RangeEnd(editor')) =
         SubSeq(Stored, RangeStart(editor), RangeEnd(editor))]_editor

\* Whoever else changes the playlist, what is shown is what is stored once nothing is on its way,
\* with the cursor on the selected song; a command given then is done to the songs selected.
EditsAsShown ==
    /\ [](EditorTypeOK /\ EditorFaithful /\ SelectionFollows)
    /\ DeletesSelected /\ CursorFollowsMove
=============================================================================
