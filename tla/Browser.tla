------------------------------- MODULE Browser -------------------------------
(***************************************************************************)
(* The file browser (FileBrowserPage.cxx, FileListPage.cxx, filelist.cxx): *)
(* the list of a directory, entering and leaving directories, adding its   *)
(* items to the queue and deleting playlists.                              *)
(*                                                                         *)
(* The first use of the connection in a command leaves idle mode: MPD then *)
(* says what has changed, and the page is updated, its list reloaded, in   *)
(* the middle of the command.                                              *)
(***************************************************************************)
EXTENDS Naturals, Sequences, SequencesExt

CONSTANTS
    Root,
    DirSeq, SongSeq, PlaylistSeq,   \* what the database may hold, sorted by name
    ParentOf,                       \* the directory of each
    Fixed,                          \* those no other client removes
    UpEntry                         \* the dummy entry for ".."

DirSet == ToSet(DirSeq)
SongSet == ToSet(SongSeq)
PlaylistSet == ToSet(PlaylistSeq)
Items == DirSet \cup SongSet \cup PlaylistSet

ASSUME BrowserAssumption ==
    /\ ParentOf \in [Items -> DirSet \cup {Root}]
    /\ {Root, UpEntry} \cap Items = {}
    /\ Fixed \subseteq Items

VARIABLE browser

Entries == [item : Items \cup {UpEntry}, lit : BOOLEAN]
Entry(i) == [item |-> i, lit |-> FALSE]

\* "database" stands for stored playlists, too
Events == {"database", "queue"}

Browsers ==
    [path : DirSet \cup {Root},
     list : Seq(Entries),
     cursor : Nat,             \* counted from 1; 1 if the list is empty
     open : BOOLEAN,           \* is this the current page?
     pending : SUBSET Events,  \* Page::pending_events
     conn : BOOLEAN,
     idle : BOOLEAN,           \* mpdclient::idle
     events : SUBSET Events,   \* mpdclient::events
     known : SUBSET SongSet,   \* mpdclient::playlist
     db : SUBSET Items,        \* MPD's database
     queue : SUBSET SongSet,   \* MPD's queue
     news : SUBSET Events,     \* what MPD has not reported yet
     doomed : Seq(PlaylistSet),\* what HandleDelete() has still to ask for
     freed : BOOLEAN,          \* has the list been cleared since the flag was reset?
     stale : BOOLEAN,          \* an entry has been used after that
     unadded : SUBSET SongSet, \* MPD refused to add them since flags were synced
     chosen : SUBSET PlaylistSet] \* the selection when DELETE was pressed

-----------------------------------------------------------------------------
(* FileList *)

Rank == [i \in Items \cup {UpEntry} |->
           IF i = UpEntry THEN 1
           ELSE IF i \in DirSet THEN 1 + SelectInSeq(DirSeq, LAMBDA d : d = i)
           ELSE IF i \in SongSet THEN 2 + Len(DirSeq)
           ELSE 2 + Len(DirSeq) + SelectInSeq(PlaylistSeq, LAMBDA p : p = i)]

\* A stable sort: directories, songs in the order MPD sent them, playlists.
Sorted(l) ==
    FlattenSeq([r \in 1..2 + Len(DirSeq) + Len(PlaylistSeq) |->
                  SelectSeq(l, LAMBDA e : Rank[e.item] = r)])

\* FindDirectory(), FindSong(): 0 if there is none
Find(l, i) == SelectInSeq(l, LAMBDA e : e.item = i)

Databases ==
    {d \in SUBSET Items : Fixed \subseteq d /\ \A i \in d : ParentOf[i] \in d \cup {Root}}

\* What MPD answers to "lsinfo".
Content(db, d) == {i \in db : ParentOf[i] = d}
Receive(db, d) ==
    LET all == SelectSeq(DirSeq \o PlaylistSeq \o SongSeq, LAMBDA i : i \in Content(db, d))
    IN  [n \in 1..Len(all) |-> Entry(all[n])]

SyncHighlights(b) ==
    LET synced(e) == IF e.item \in SongSet THEN [e EXCEPT !.lit = e.item \in b.known] ELSE e
    IN  [b EXCEPT !.list = [n \in DOMAIN b.list |-> synced(b.list[n])], !.unadded = {}]

\* ListWindow::SetLength(): the cursor stays on an item.
SetLength(b) == [b EXCEPT !.cursor = IF @ > Len(b.list) THEN IF b.list = <<>> THEN 1 ELSE Len(b.list) ELSE @]

-----------------------------------------------------------------------------
(* Loading the list *)

ClearList(b) ==
    [b EXCEPT !.list = IF b.path = Root THEN <<>> ELSE <<Entry(UpEntry)>>, !.freed = TRUE]

\* Disconnect(): the page, if it is shown, is updated without a connection.
Disconnect(b) ==
    LET lost == [b EXCEPT !.conn = FALSE, !.idle = FALSE, !.known = {}, !.news = {},
                          !.events = Events, !.pending = Events]
    IN  IF ~b.open THEN lost
        ELSE SyncHighlights(SetLength(ClearList([lost EXCEPT !.pending = {}])))

\* screen_file_load_list() and the rest of Reload(), with the connection in `b'.
Loaded(b) ==
    LET got == [b EXCEPT !.list = @ \o Receive(b.db, b.path)]
        bad(c) == [b |-> SetLength(c), ok |-> FALSE]
    IN  IF ~b.conn THEN {bad(b)}
        ELSE {bad(Disconnect(b)), bad(Disconnect(got))}
             \cup IF b.path \in b.db \cup {Root}
                  THEN {[b |-> SetLength([got EXCEPT !.list = Sorted(@)]), ok |-> TRUE]}
                  ELSE {bad(b)}

\* Update(), given how the page is reloaded
UpdateWith(b, Reloaded(_)) ==
    LET c == [b EXCEPT !.pending = {}]
    IN  IF ~b.open \/ b.pending = {} THEN {b}
        ELSE IF "database" \in b.pending THEN {SyncHighlights(r.b) : r \in Reloaded(c)}
        ELSE {SyncHighlights(c)}

\* screen_manager.Update() while the connection is not idle
UpdateNested(b) == UpdateWith(b, LAMBDA c : Loaded(ClearList(c)))

\* MpdIdleSource::Leave() and mpdclient::OnIdle()
Leave(b) ==
    LET left == [b EXCEPT !.idle = FALSE, !.news = {}, !.events = @ \cup b.news]
        updated == [left EXCEPT !.known = b.queue, !.pending = @ \cup left.events]
    IN  IF b.news = {} THEN {left}
        ELSE {[c EXCEPT !.events = {}] : c \in UpdateNested(updated)}

GetConnection(b) ==
    IF b.conn /\ b.idle THEN {Disconnect(b)} \cup Leave(b) ELSE {b}

Reload(b) == UNION {Loaded(c) : c \in GetConnection(ClearList(b))}

\* mpdclient::Update(): with a new status, the copy of the queue is brought up to date
UpdateQueue(b) ==
    UNION {IF c.conn THEN {Disconnect(c), [c EXCEPT !.known = c.queue]} ELSE {c} : c \in GetConnection(b)}

\* Page::Update() from the event loop
UpdateScreen(b) ==
    {[c EXCEPT !.events = {}] :
       c \in UpdateWith([b EXCEPT !.pending = @ \cup b.events], Reload)}

-----------------------------------------------------------------------------
(* Moving between directories *)

ChangeDirectory(b, d) ==
    {[r EXCEPT !.b = [SyncHighlights(r.b) EXCEPT !.cursor = 1]] : r \in Reload([b EXCEPT !.path = d])}

\* The parent of the root is the root.  The cursor goes to where it came from.
ChangeToParent(b) ==
    LET up == IF b.path = Root THEN Root ELSE ParentOf[b.path]
    IN  {IF r.ok /\ Find(r.b.list, b.path) > 0
         THEN [r.b EXCEPT !.cursor = Find(r.b.list, b.path)] ELSE r.b :
           r \in ChangeDirectory(b, up)}

\* screen_file_goto_song(): the page may be hidden, and is shown if all went well.
GotoSong(b, s) ==
    UNION {IF r.ok
           THEN LET c == [r.b EXCEPT !.cursor = IF Find(r.b.list, s) > 0 THEN Find(r.b.list, s) ELSE 1,
                                     !.open = TRUE]
                IN  UpdateWith(c, Reload)
           ELSE {r.b} : r \in ChangeDirectory(b, ParentOf[s])}

-----------------------------------------------------------------------------
(* Using an entry: the pointer to it is kept across GetConnection() *)

\* Borrowed(b): after GetConnection(); is the entry gone?
Borrowed(b) ==
    {IF c.conn /\ c.freed THEN [c EXCEPT !.stale = TRUE] ELSE c :
       c \in GetConnection([b EXCEPT !.freed = FALSE])}

\* A command which adds `songs'; MPD will report the change.
Added(b, songs) == [b EXCEPT !.queue = @ \cup songs, !.news = @ \cup {"queue"}]

LoadPlaylist(b) ==
    UNION {IF ~c.conn THEN {c}
           ELSE {c, Disconnect(c)}
                \cup {[Added(c, x) EXCEPT !.events = @ \cup {"queue"}] : x \in {{}, SongSet}} :
             c \in Borrowed(b)}

AddPath(b, d) ==
    UNION {IF ~c.conn THEN {c} ELSE {c, Disconnect(c), Added(c, Content(c.db, d) \cap SongSet)} :
             c \in Borrowed(b)}

\* RunAdd(): marked, then added.  The copy of the queue may be updated at once.
AddSong(b, n) ==
    LET s == b.list[n].item
    IN  UNION {IF ~c.conn THEN {c}
               ELSE {Disconnect(c), [c EXCEPT !.unadded = @ \cup {s}]}
                    \cup {[Added(c, {s}) EXCEPT !.events = @ \cup {"queue"}, !.known = k] :
                            k \in {c.known, c.known \cup {s}}} :
                 c \in Borrowed([b EXCEPT !.list[n].lit = TRUE])}

\* RunDeleteUri(), with a copy of the URI
RemoveSong(b, n) ==
    LET s == b.list[n].item
    IN  UNION {IF ~c.conn \/ s \notin c.known THEN {c}
               ELSE {Disconnect(c)}
                    \cup {[c EXCEPT !.queue = @ \ {s}, !.news = @ \cup {"queue"},
                                    !.events = @ \cup {"queue"}, !.known = k] :
                            k \in {c.known, c.known \ {s}}} :
                 c \in GetConnection([b EXCEPT !.list[n].lit = FALSE])}

HandleSelectEntry(b, n, toggle) ==
    IF n > Len(b.list) \/ b.list[n].item = UpEntry THEN {b}
    ELSE LET i == b.list[n].item
         IN  IF i \in PlaylistSet THEN LoadPlaylist(b)
             ELSE IF i \in DirSet THEN AddPath(b, i)
             ELSE IF toggle /\ b.list[n].lit THEN RemoveSong(b, n)
             ELSE AddSong(b, n)

\* HandleSelect(), HandleAdd() and HandleSelectAll().  When a single item has been added,
\* the cursor may move to the next one.
SelectRange(b, first, last, toggle) ==
    LET done == FoldLeft(LAMBDA bs, n : UNION {HandleSelectEntry(c, n, toggle) : c \in bs},
                         {b}, [k \in 1..last + 1 - first |-> first + k - 1])
    IN  IF first # last THEN done
        ELSE done \cup {[c EXCEPT !.cursor = @ + 1] : c \in {d \in done : d.cursor < Len(d.list)}}

\* A song that is marked, and whose id is known, is played; any other is added first.
EnqueueAndPlay(b, n) ==
    LET s == b.list[n].item
    IN  UNION {IF ~c.conn THEN {c}
               ELSE {c, Disconnect(c)}
                    \cup IF c.stale \/ (b.list[n].lit /\ s \in c.known) THEN {}
                         ELSE {Disconnect(Added(c, {s})), [Added(c, {s}) EXCEPT !.list[n].lit = TRUE]} :
                 c \in Borrowed(b)}

FileListEnter(b) ==
    IF b.cursor > Len(b.list) THEN {b}
    ELSE LET i == b.list[b.cursor].item
         IN  IF i \in PlaylistSet THEN LoadPlaylist(b)
             ELSE IF i \in SongSet THEN EnqueueAndPlay(b, b.cursor)
             ELSE {b}

\* ChangeToEntry(), then FileListPage::HandleEnter() if that failed
HandleEnter(b) ==
    IF b.cursor > Len(b.list) THEN {b}
    ELSE LET i == b.list[b.cursor].item
         IN  IF i = UpEntry THEN ChangeToParent(b)
             ELSE IF i \in DirSet
             THEN UNION {IF r.ok THEN {r.b} ELSE FileListEnter(r.b) : r \in ChangeDirectory(b, i)}
             ELSE FileListEnter(b)

-----------------------------------------------------------------------------
BrowserInit ==
    \E db \in Databases :
      browser = [path |-> Root, list |-> <<>>, cursor |-> 1, open |-> FALSE,
                 pending |-> Events, conn |-> FALSE, idle |-> FALSE, events |-> {},
                 known |-> {}, db |-> db, queue |-> {}, news |-> {}, doomed |-> <<>>,
                 freed |-> FALSE, stale |-> FALSE, unadded |-> {}, chosen |-> {}]

\* A command first cancels the coroutine of the page; nothing is borrowed between commands.
Begin(b) == [b EXCEPT !.doomed = <<>>, !.chosen = {}]
Becomes(bs) == ~browser.stale /\ browser' \in {[c EXCEPT !.freed = FALSE] : c \in bs}

\* MPD
ServerChange ==
    /\ browser.conn
    /\ \/ \E db \in Databases :
            Becomes({[browser EXCEPT !.db = db, !.news = @ \cup {"database"}]})
       \/ \E q \in SUBSET SongSet :
            Becomes({[browser EXCEPT !.queue = q, !.news = @ \cup {"queue"}]})

OnConnected ==
    /\ ~browser.conn
    /\ Becomes(UNION {UpdateScreen(c) :
                 c \in UpdateQueue([browser EXCEPT !.conn = TRUE, !.events = Events, !.news = {}])})

OnIdle ==
    /\ browser.conn /\ browser.idle
    /\ Becomes(GetConnection(browser))

EnterIdle ==
    /\ browser.conn /\ ~browser.idle
    /\ Becomes({[browser EXCEPT !.idle = TRUE]})

\* The update timer and OnUpdateScreen()
OnUpdateTimer == Becomes(UNION {UpdateScreen(c) : c \in UpdateQueue(browser)})
OnUpdateScreen == Becomes(UpdateScreen(browser))

\* Showing and hiding the page; a page that is closed cancels its coroutine.
ShowPage == ~browser.open /\ Becomes(UpdateWith([browser EXCEPT !.open = TRUE], Reload))
HidePage == browser.open /\ Becomes({[Begin(browser) EXCEPT !.open = FALSE]})

\* FileListPage::OnMouse() and the list's own commands
MoveCursor ==
    /\ browser.open
    /\ \E n \in DOMAIN browser.list : Becomes({[Begin(browser) EXCEPT !.cursor = n]})

GoTo == ~browser.open /\ \E s \in SongSet : Becomes(GotoSong(Begin(browser), s))

GoUp == browser.open /\ Becomes(ChangeToParent(Begin(browser)))
GoToRoot == browser.open /\ Becomes({r.b : r \in ChangeDirectory(Begin(browser), Root)})

ScreenUpdate == browser.open /\ Becomes({SyncHighlights(r.b) : r \in Reload(Begin(browser))})

Play == browser.open /\ browser.conn /\ Becomes(HandleEnter(Begin(browser)))

\* SELECT and ADD with the items from the cursor to the anchor, SELECT_ALL with all
Select ==
    /\ browser.open /\ browser.conn
    /\ \E first, last \in DOMAIN browser.list, toggle \in BOOLEAN :
         /\ first <= last
         /\ browser.cursor \in first..last
         /\ Becomes(SelectRange(Begin(browser), first, last, toggle))

DeleteRange(first, last) ==
    SelectSeq([k \in 1..last + 1 - first |-> browser.list[first + k - 1].item],
              LAMBDA i : i \in PlaylistSet)

\* HandleDelete(): the names are copied, then the user is asked for each.
Delete ==
    /\ browser.open /\ browser.conn
    /\ \E first, last \in DOMAIN browser.list :
         /\ first <= last
         /\ browser.cursor \in first..last
         /\ Becomes({[browser EXCEPT !.doomed = DeleteRange(first, last),
                                     !.chosen = ToSet(DeleteRange(first, last))]})

\* Mutant: the playlist is looked up again when the question has been answered.
AnswerForLookedUp(b) ==
    LET now == {b.list[b.cursor].item : n \in 1..Len(b.list)} \cap PlaylistSet
    IN  IF now = {} THEN b.doomed[1] ELSE CHOOSE p \in now : TRUE

AnswerFor(b) == b.doomed[1]

\* The answer to YesNoDialog: yes, or anything else.
Answer ==
    /\ browser.doomed # <<>>
    /\ \/ Becomes({Begin(browser)})
       \/ LET p == AnswerFor(browser)
              next(c) == IF Len(c.doomed) > 1 THEN [c EXCEPT !.doomed = Tail(@)] ELSE Begin(c)
          IN  Becomes(UNION {IF ~c.conn THEN {Begin(c)}
                             ELSE {Begin(c), Begin(Disconnect(c)),
                                   next([c EXCEPT !.db = @ \ {p}, !.news = @ \cup {"database"},
                                                  !.events = @ \cup {"database"}])} :
                               c \in GetConnection(browser)})

\* The program may do anything once it has used memory that was freed.
Undefined == browser.stale /\ UNCHANGED browser

BrowserNext ==
    \/ ServerChange \/ OnConnected \/ OnIdle \/ EnterIdle \/ OnUpdateTimer \/ OnUpdateScreen
    \/ ShowPage \/ HidePage \/ MoveCursor \/ GoTo \/ GoUp \/ GoToRoot \/ ScreenUpdate \/ Play
    \/ Select \/ Delete \/ Answer \/ Undefined

BrowserSpec == BrowserInit /\ [][BrowserNext]_browser

-----------------------------------------------------------------------------
(* Properties *)

\* Types; the cursor is on an entry, if there is one.
BrowserTypeOK ==
    /\ browser \in Browsers
    /\ browser.cursor \in 1..Len(browser.list) \/ browser.cursor = 1

\* What the list shows.
Listed == {browser.list[n].item : n \in DOMAIN browser.list} \ {UpEntry}

\* What is still to be delivered to the page.
Awaited == browser.news \cup browser.events \cup browser.pending

\* The list shows the directory, unless a change of the database is on its way to it.
ListFaithful ==
    "database" \notin Awaited =>
      Listed = IF browser.conn THEN Content(browser.db, browser.path) ELSE {}

\* A song is marked if it is in the queue, unless a change of the queue is on its way, or
\* MPD has refused to add it.
HighlightsTrue ==
    Awaited = {} => \A n \in DOMAIN browser.list :
      LET e == browser.list[n]
      IN  e.item \in SongSet \ browser.unadded => (e.lit <=> e.item \in browser.known)

\* There is a way out of every directory, even if it could not be loaded: the first entry.
WayUp ==
    browser.pending = {} =>
      \A n \in 1..Len(browser.list) + 1 :
        (n <= Len(browser.list) /\ browser.list[n].item = UpEntry) <=> (n = 1 /\ browser.path # Root)

\* Only playlists which were selected when the command was given are deleted.
DeletesChosen == [][~(browser.db \ browser'.db \subseteq browser.chosen) => ~Answer]_browser

\* Whoever goes up finds the cursor on the directory left behind.
ComesBack ==
    [][browser'.path # browser.path /\ browser.path \in Listed'
       /\ browser'.list[browser'.cursor].item # browser.path => ~GoUp]_browser

\* No entry is used after the list it is from has been cleared.
NoStaleEntity == ~browser.stale

\* Through changes of the database and the queue, lost connections and updates within commands,
\* the browser shows the directory it is in, deletes what was chosen, and knows the way up and back.
DirectoryShown ==
    /\ [](BrowserTypeOK /\ ListFaithful /\ HighlightsTrue /\ WayUp)
    /\ DeletesChosen /\ ComesBack
=============================================================================
