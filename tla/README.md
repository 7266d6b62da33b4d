# Verification of ncmpc

TLA+ models of ncmpc, the curses client of the Music Player Daemon, model-checked
with TLC and proved with TLAPS.  Paths are relative to the root of the repository;
the code is in `src/`.

## 1. The system

ncmpc is one process with one thread.  `EventLoop` (`src/event/Loop.cxx`) runs
timers, idle events, deferred events and ready sockets; everything else is a
callback.  Requests to MPD are synchronous (libmpdclient), so a callback blocks
while MPD serves others, and callbacks *nest*: sending a request leaves MPD's idle
mode, which may yield idle events, which update the replica and the pages, which may
lose the connection, which updates the screen, which may destroy a coroutine.  Most
modules below are about a part whose state is read before such a **nested update** and
used after it.

| component | state | operations | talks to | hard because |
|---|---|---|---|---|
| queue replica: `struct mpdclient`, `MpdQueue` (`client/mpdclient.cxx`, `Queue.cxx`) | `playlist.items`, `playlist.version`, `status`, `current_song` | `Update`, `UpdateQueue`, `UpdateQueueChanges`, `RunAdd`, `RunDelete`, `RunDeleteRange`, `RunDeleteUri`, `RunMove`, `RunClearQueue`, crop, play | MPD (status, plchanges, command lists); pages read it | other clients edit the queue between two requests; "cheap routes" patch the replica from a status; nested updates shift positions |
| connection: `struct mpdclient`, `MpdIdleSource`, `AsyncMpdConnect` | `connection`, `source`, `idle`, `enter_idle_timer`, `authenticating`, `async_connect`, `current_settings`, `events` | connect, fallback, lose, enter and leave idle mode, authenticate | `Instance` by callbacks, the event loop | every step may lose the connection; five callbacks and a coroutine compete for it |
| `Instance` (`Main.cxx`, `callbacks.cxx`) | `reconnect_timer`, `update_timer`, `update_screen_event` | the `OnMpd*` callbacks, `UpdateClient`, `OnCommand` | client, screen | which timers are pending after which nesting |
| event loop, `TimerWheel`, `TimerList`, sockets, signals (`event/`) | timers in buckets and in order, idle/defer/next lists, poll set, ready sockets, signal flags, cached clock | `Run`, insert, cancel, schedule, poll | everything | buckets wrap around, lists change while they are traversed, a ready socket is closed before its turn, a signal comes between any two steps |
| containers (`util/`) | the pointers of red-black tree and linked lists | insert, erase, splice, swap, move | event loop | pointer arithmetic; items unlink themselves |
| `ScreenManager`, pages, modal dialogs, coroutines (`screen.cxx`, `page/`, `co/`) | pages, `pending_events`, dialog, tasks | `Switch`, `Update`, `OnCommand`, `ShowModalDialog`, `CoStart`, `CoCancel` | pages, client | events for hidden pages, updates within updates, coroutines destroyed through their own calls |
| `ListCursor`, `ListWindow` (`ui/`) | cursor, origin, range | move, scroll, select, set length | list pages | the list changes under the cursor |
| queue page (`QueuePage.cxx`) | window, saved selection, hide-cursor timer | commands, `Update` | replica | positions are stale after a nested update |
| browser, library, search, playlist editor | listing, path or filter, cursor, highlights | load, enter, leave, add, remove, move | client, replica | listings are re-read while a command uses them |
| `DelayedSeek`, player commands | song id, time, commit timer | seek, commit, cancel, toggles, volume | client, status bar | timer against song change; status read before a nested update |
| lyrics (`plugin.cxx`, `LyricsLoader.cxx`, `LyricsPage.cxx`) | chain of plugin processes, pipes, timer, files | start, read, cancel, save, delete | child processes, event loop | both pipes, the exit and the timeout race |
| `TextInputDialog`, history, completion | text, cursor, start, history position | edit, complete, recall, finish, cancel | coroutines of the pages | wide characters, a history that is edited while it is shown |
| saving a playlist (`save_playlist.cxx`) | the coroutine's frame | ask, save, ask again, remove, save | client, dialogs | other clients act while the user thinks; several requests |
| connections page, Zeroconf (`lib/avahi/`) | list of servers, resolvers, browser, timer | found, removed, daemon lost, choose | client, Avahi daemon | answers for services that are gone, a daemon that restarts |
| outputs page, chat page | listing with cursor; subscription | toggle, partitions; subscribe, read, send | client | reloads within commands; what is cached about a connection |
| status bar, scrolling text, progress bar | texts, two timers, message | update, message, resize, suspend | screen, dialogs | two timers paint over each other and over dialogs |
| song page, `strfsong` | lines, two songs; the formatter's position | update, wrap; format | client, formats of the user | updates within updates; a one-pass scan of a nested language |
| key bindings and their page | table, its copy, files | add, overwrite, delete, apply, save | dialogs, configuration files | conflicts, what is saved must be read again |
| configuration (`ConfigParser.cxx`, `Options.cxx`, `Styles.cxx`) | options, styles, columns | parse, resolve, calculate | files, command line | order of precedence, errors in the middle of a line |

What makes the parts correct, and what is stated about it here, is in sections 2 and 3;
the hazards behind it are listed in `PROJECT.json` with the line where each bites.

## 2. Modules

| module | contents | checked by |
|---|---|---|
| `QueueSync` | the replica of MPD's queue, the commands that edit it, MPD and its other clients | `MCProgress` |
| `MpdClient` | the life of the connection: connecting, idle mode, authentication, timers, event loop, the user | `MpdClient` itself, `MCPanes`, `MCServices` |
| `IdleSource` | the dialogue of idle mode, line by line | `MCServices` |
| `AsyncConnect` | the objects, sockets and timers of attempts to connect | `MCServices` |
| `TimerSet` | abstract: what a loop promises about its timers | |
| `EventLoop` | the loop with timer wheel, timer list and deferred events; implements `TimerSet` | `MCLoop`, `EventLoop` itself |
| `Sockets`, `Signals` | socket events with their poll set and ready list; signals and the pipe that wakes the loop | `MCServices` |
| `SortedItems`, `ItemLists` | abstract: a sorted list with equal keys in order of insertion; sequences | |
| `TreeSet`, `IntrusiveList` | the red-black tree and the linked rings, pointer by pointer; implement the two | `MCInterface` |
| `ListWindow` | the list of a page: cursor, range, origin, scroll offset | `MCInterface` |
| `ScreenManager` | pages, sub-pages, dialogs, coroutines, pending events | `MCInterface` |
| `TextInput`, `Keys`, `Config` | text input with history and completion; key bindings; configuration | `MCInterface` |
| `QueuePage`, `Playback` | queue page; player commands and delayed seek | `MCPanes` |
| `Outputs`, `Chat`, `StatusBar` | the pages and bars of those names | `MCPanes`, `StatusBar` itself |
| `Connections` | the connections page and Zeroconf | `MCLoop` |
| `Browser`, `PlaylistEditor`, `Library`, `Search` | the pages that list the database and stored playlists | `MCPages` |
| `SongPage`, `SongFormat`, `SavePlaylist` | song page, format language, saving the queue | `MCPages` |
| `Lyrics` | lyrics page, loader and plugin chain | `MCProgress` |
| `QueueSync_proofs`, `MpdClient_proofs`, `EventLoop_proofs`, `ListWindow_proofs` | the proofs about the module of that name | |
| `Panes_proofs` | proofs about `Chat`, `StatusBar`, `Playback`, `Connections`, `Outputs`, `QueuePage` | |
| `Services_proofs` | proofs about `Sockets`, `Signals`, `AsyncConnect`, `IdleSource` | |
| `Interface_proofs` | proofs about `ScreenManager`, `TextInput`, `Keys` | |
| `Pages_proofs` | proofs about `SavePlaylist`, `Lyrics`, `PlaylistEditor` | |

The modules divide the program by what a property needs to tell apart; each has its own,
simpler picture of the parts around it.  `QueueSync` models what is in MPD's
replies, request by request, with a simple connection; `MpdClient` models whether
there is a connection and who may use it, callback by callback, with replies of which
only the permission and `playing` matter.  The page modules have the client in three
fields (`conn`, `idle` and the events it holds), which is how they meet the nested update: their first
use of the connection in a handler leaves idle mode, MPD reports its news, the page is
updated, and then the handler goes on.  Since such modules share nothing but the idea of
a client, a run checks several of them side by side: a variable (`pane`, `shown`, `moving`,
`served`, `part`, `watched`) tells which one works, and the others rest in one initial state.

### QueueSync

Variables: `squeue`, `sstamp`, `sversion`, `scur` are MPD's queue, the version at
which each position changed, the queue version and the current song; `link`,
`permitted`, `changed` the TCP connection, the permission to read, and a pending idle
event; `items`, `version`, `status`, `current` are `playlist.items`,
`playlist.version`, `status` and `current_song` (by id: the pointer dangles when the
id is not in `items`); `conn` and `idle` are the fields of that name.  `pc` names the
request that is sent next and `cmd` the command that is waiting for a nested update:
since MPD serves other clients between two requests, each request is one step.

`GiveCommand` is the key press; its argument is taken from the screen then
(positions, an id or a URI, as the code passes it) and used in a later step.
`RunStatus`, `StatusRefused`, `UpdateQueue`, `UpdateQueueChanges` are the parts of
`Update()`.  Each `Run*` command is one step because it is one command list.
`QueueCommand` is what they share: the server's edit, the new status, and the cheap
route with its comparison of length and version.  A failed command, whatever part of
its list was executed, is `CommandRefused` together with `ServerEdit`.  Errors on the
connection end in `ConnectionLost`.  `ServerRestart` numbers versions from 1 again.

MPD (external) gives each entry an id of its own, stamps changed positions with the
new version and answers `plchanges` with the positions stamped later.  MPD may
stamp more positions than the model does, which only repeats songs.

### MpdClient

One variable, a record with a field per flag, timer and pending event of
`mpdclient`, `Instance`, `ScreenManager` and the loop, plus what MPD thinks of the
client (`link`, `perm`, `changed`).  A handler is an operator from a record to the
set of records it may return in; `Leave` calls `OnIdle`, which calls `RunStatus` and
`UpdatePage`, which call `Request`, which calls `ConnectionLost`, which calls
`CancelTask`, as in the code.  The actions are the callbacks of the event loop.  A
poll collects ready sockets, which are served one after the other; a callback may
take a later one away, as `Disconnect()` does.  The server and the TCP connection
may change between any two callbacks; that they break during a request is the
`ConnectionLost` outcome of every request.

Commands are abstracted to what they do to the connection (nothing, a request that
reads, a request that controls, another page, another server), passwords to the
permission they give.  `Remote` says that LIRC is in use: only its commands come
while a dialog is open.  The build modelled is the one with asynchronous connect.

### TimerSet and EventLoop

`TimerSet` has a clock, a due time per timer and the timer that is running: a timer may
fire when it is due, and the clock may not pass the deadline of a pending timer.

`EventLoop` is `EventLoop::Run()` step by step; `pc` is where it is, `running` the
callback that has been called.  `place` says in which list each timer is: the fine
timers' ordered list, the wheel, its "ready" list, or the temporary list of
`TimerWheel::Run(List &)`; a timer in the wheel is in the bucket of its `due` time.
`queued` does the same for `DeferEvent`s.  A callback may schedule and cancel any timer
and event, also those of the list being traversed, and with `Slow` it may take time,
which the cached clock (`cache`) does not see.  `Wait` is the poll, which returns at
the timeout, later by one of `Late`, or earlier with sockets.  The refinement mapping
takes a timer as pending when it is in any list, and its deadline is its due time
(fine) or the end of its bucket (coarse).  `bucket`, `endBucket` and `timeout` are
local variables and are reset at the end of their scope, as is `due` of a timer that
is not pending, since nobody reads them then.  Sockets are one callback (`Socket`).
Sockets have a module of their own; nothing links
`EventLoop`, `Sockets` and `MpdClient` formally (section 5).

### ListWindow

`lw` is the `ListWindow` object, `options` the two options it reads and the kind of page
("list", with a cursor, or "text", without), `sized` whether `Resize()` was called.  The
methods are operators from a window to a window, in `unsigned` arithmetic modulo
`Modulus`, with `ToInt` where `ScrollTo()` goes through an `int`; `height` holds any
value of `Garbage` until it is set, because `ScreenManager::Switch()` calls `OnOpen()`
before `Resize()`.  The actions are what the pages do with the list: `Load` (a queue
update, a reload), `Select` (`RestoreSelection()`, select the playing song),
`CenterPlayingItem`, `ChangeDirectory`, `Delete`, `MovedUp` and `MovedDown`, `SetText` (the
lyrics page restores its origin), `OtherCommand` (a text page sees a command that is not the
list's), `Found` (a search or jump; which item matches is open), and the commands and
mouse events of `ListWindow` itself.  A click above the list is left out: such a row is the title
bar's, which `ScreenManager::OnMouse()` (`src/screen.cxx:350`) answers before a page sees it.  A list that has the same length is not loaded at
all for `ListCursor`, so items need no identity here.  `Delete`, and with `OthersEdit` also
the moves, let a nested update load another list between reading the range and using it.
`base` is 0 without a range, since nobody reads `range_base` then.

### Sockets and Signals

`Sockets` is the back end for `poll(2)`: `list` and `queue` are `EventLoop::sockets` and
`ready_sockets`, `poll` and `items` the array and the table of `PollBackend`, which fills a
gap with its last entry.  After a poll the queue is dispatched one by one, and each callback
may schedule, cancel, close, reopen (with the same number) or abandon any event, or
end the loop.  `asof` is history: were the flags reported for the socket the event has now?
The failure path of `Schedule()` (a descriptor epoll does not take) is left out, as are
epoll and Windows, other builds of the same interface.

`Signals` is the build without `signalfd(2)`: the handler may run between any two steps,
marks the signal and writes to the pipe unless it was marked; the loop empties the pipe and
goes through the marks.  `sent` remembers what was sent and not handled.

Opening, scheduling and cancelling belong to callbacks; one that calls `Break()` returns, and after it sockets
are only closed.

### IdleSource and AsyncConnect

`MpdClient` has one step for "leave idle mode" and three phases for an attempt to connect; these two
modules take them apart.  In `IdleSource` a command and each line of a response is on its way for a
while (`sent`, `wire`), so that "noidle" may cross MPD's report and a response may be read partly by the
event loop and partly by the command that leaves idle mode.  `idle`, `timer`, `io` and `got` are
`idle`, `enter_idle_timer`, `io_events` and `idle_events`; `pc` is the call that blocks
and whether a command waits behind it; `owed` is history, the events not yet passed to
`OnIdle()`.  `known` is the age of the library: an event may have no name in it.

`AsyncConnect` has the `AsyncMpdConnect` objects with the sockets and the timer of
their `ConnectSocket`, the pointer `async_connect`, and the open descriptors.  An operator is a
handler with all it calls, up to `delete this`; `StartFallback` within `OnAsyncError` within
`StartConnect` is the nested case.  `wrong` is history: an object was told or deleted after its
end.

### TreeSet and IntrusiveList

`TreeSet` is `RedBlackTree.hxx` and `IntrusiveTreeSet.hxx`, which keep the fine timers:
parents, children and colors as functions, insertion with recoloring and rotations, removal
with its cases, successor and predecessor.  Eight items with three pairs of equal keys
reach every case of both repairs.  `TreeIsSorted` maps it to `SortedItems` (a sequence
into which an item is inserted behind those of its key).  `IntrusiveList` has
the rings of `next` and `prev` pointers with two heads, the hooks' auto-unlink, splicing of
items and ranges, swapping and moving lists, and implements `ItemLists`.  Splicing an item
before itself would break a ring; ncmpc never does, and the model's guard says so.

### ScreenManager

One record: which pages are open and how large, the visible page and the proxy's sub-page,
pending events per page, the dialog, the coroutine frames and who holds a handle to each.
A coroutine exists only while its dialog waits.  `ShowModalDialog()` cancels the dialog
before it, whose coroutine runs to its end *within* that call; closing a page cancels its
coroutine; `Update()` tells every page and updates the visible one.  `Careful` pages begin
`OnCommand()` with `CoCancel()`; `Interrupting` says whether a command may start a coroutine
on a page that has one suspended (only a violation run assumes it).  The order of
`screen_list` (next and previous page) is a switch to some page.

### TextInput, Keys, Config

`TextInput`: lines are sequences of characters of one and two columns; the cursor,
the first visible character, the width the prompt leaves; insertion, deletion, word and line
commands, completion over a set of strings, and the history list into which the dialog puts a
temporary line that the recalled lines are compared with.  A dialog destroyed without a key
leaves that line behind, as the code does.  Bytes and encodings are left out.

`Keys`: the table of key codes per command, `KeyDefPage` with its copy of the table, the
sub-page of a command with its cursor and rows ("Add new key" is a row; `LeavePosition` and its
like are `GetLeavePosition()` and the other positions), the question for a key, Apply and Save, the
timer that warns of conflicts (`OnCheckKeyBindings`), and the file: `GetKeyName()` and
`ParseKeyName()` as functions between key codes and names, which are not quite inverse (section 3).
`RowsTrue`: the rows are the keys that work, with the conflicts there are now.
`ConflictsReported`: the timer runs as long as there is a conflict.

`Config`: command line, environment and files in the two passes of `main()`, each
option of a kind (text, number, list of pages, tags, search mode), errors in the middle of
a `color` or table column line, which keep what was set before; `Styles.cxx`'s inheritance and
`TableLayout::Calculate()`.  A file is a sequence of lines that are already words, except
that overlong lines fall to pieces as they do.

### QueuePage and Playback

`QueuePage` has MPD's queue and playing song, the client's copy (`list`), and the page:
`length` is what the window knows, `cursor` and `base` its selection, `selected` the song
saved by `SaveSelection()`.  An update is one step.  A command first leaves idle mode
(`LeaveIdle`, `Begun`), so what it has read from the window may be of an older list.
`unsaved` marks what the page does not save: a cursor moved by `CenterPlayingItem`,
`SCREEN_UPDATE`, DELETE or a jump.  `searching` is a search dialog.  `Playback` is
`player_command.cxx` and `DelayedSeek.cxx`: durations are in steps of `seek_time`; `base` is
history, the song whose position was used.  `repeat` stands for the five options toggled alike.

### Connections, Outputs, Chat, StatusBar

`Connections` is `Avahi::Client` (client, browser, reconnect timer), `ServiceExplorer`
(objects, resolver count, "all for now" pending) and the list of the page: the servers of the
configuration, one or, with a local socket, two, those found, and an error as
its last line.  The browser may announce services in any order, and their end.  `Outputs` lists outputs and partitions anew at each event and restores the
cursor by the hash of its line.  Each part of a handler is a set of states, because MPD may
answer, refuse, or be gone at every request; `status` is the partition in the client's
`mpd_status`, which only `mpdclient::Update()` refreshes.  Where the code reads an item that a
nested reload has destroyed, the model takes what was there or what is there now, and for the
cursor's hash any.  `Chat` remembers whether chat is supported by the connection
with the number it was checked for.  `StatusBar` composes message timer, layout of the three
texts, marquee, suspension by dialogs and the progress bar; widths and texts are numbers of
cells; `replaced` is history: was the dialog preceded by another that it cancelled?

### Browser, PlaylistEditor, Library, Search

`Browser` has a small database that other clients change, the directory shown, its entries
with highlights, the cursor, the dialog that asks before playlists are deleted; `chosen` and
`unadded` are history.  A load that leaves idle mode is updated in between; a reload within a
reload lists twice, and is modelled so.  `PlaylistEditor` reads a stored playlist, keeps its
selected song over reloads and sends `playlistdelete` and `playlistmove` by position.
`Library` has a filter per tag page; `EnterTag` and `GoParentFrom` skip pages of one value.  In
`Search` the parser of expressions splits a text from its end, as `SplitLast()` does, and is compared
with a reading from left to right over all texts of `TextLength` tokens, among them a
`modified:` whose duration can be read or not.

### SongPage, SongFormat, SavePlaylist

`SongPage` holds the selected and the playing song, wraps texts to the window (a width that is
an unsigned difference) and to `AppendLine()`'s buffer (`RowRoom`), and asks for statistics, which may update it within its update.
`SongFormat` is the scan of `_strfsong()` with its recursion as a stack; it is compared with
the meaning of every format of `MaxFormat` tokens.  `SavePlaylist` is the coroutine with the
name dialog, the question, removal and saving.

### Lyrics

The page (song shown, song loading, text, title), the loader's cache (new and old file name)
and the chain: at most one plugin process at a time with two pipes; its exit, the pipes' ends,
`waitpid()` (which blocks the loop until the process has gone), the deferred failure and the
timeout, which `lyrics_timeout` 0 switches off (`limit`).  Without `signalfd` a signal may interrupt
`waitpid()` (`eintr`); then the plugin is forgotten, and what becomes of it is not followed.  The
processes may run for ever, and ignore SIGTERM: `StopPluginCycle` then blocks the program for good
(`hung`).  What a plugin prints is one of lyrics, nothing or an error, "of" a song and "from" a
source.  Loading again, scrolling and the pipes' data are abstracted.

## 3. Runs

| run | components and bounds | shows |
|---|---|---|
| `queue_safety` | `QueueSync`: 2 songs of one file, versions to 4, every command but removal by URI; and `edits`: 3 songs, 2 files, versions to 3, ranges, moves, removal by URI, a connection that is not lost; `Lyrics`: 2 plugins, songs with and without tags and old files, a timeout, with and without signals that interrupt | the version of the replica tells the truth (`InSync`); no change is missed (`NoMissedUpdate`); `current_song` follows and never dangles (`CurrentSongRight`); `ReplicaInv`, the heart of the proof; the client's own commands need no reload (`CheapRouteKeepsUp`); text, title, files and processes belong to the song loaded (`LyricsOfTheSong`) |
| `progress` | `QueueSync` (2 songs, versions to 3) and `Lyrics` (2 plugins, songs with and without tags, with and without a timeout), with fairness | `Converges`: the replica catches up again and again; `LoadingEnds`: a load of lyrics ends, but for a plugin that runs for ever and is waited for in `waitpid()`, or with no timeout |
| `loop_timers` | `EventLoop`: 2 coarse and 1 fine timer, 1 deferred event, 3 buckets of 2, delays 0, 1, 3, 7, time to 10; `Connections` (2 services of one name, 1 or 2 servers in the configuration) | the loop implements `TimerSet` (`ImplementsTimerSet`); `ServersAreKnown` |
| `loop_late` | `EventLoop` likewise, delays 0, 1, 3; callbacks take time, polls are late by 5 | no timer is early (`NeverEarly`); `LoopSound`: none is left behind in the wheel, the poll sleeps over nothing the cached clock knows |
| `panes` | `MpdClient` (3 servers, every answer, LIRC), `QueuePage` (2 songs), `Playback` (2 songs, volume 0 and 1), `Outputs` (2 and 2), `Chat` (2 connections, 2 messages), `StatusBar` (widths 4, 7, 10) | idle mode is exclusive (`IdleExclusive`), the dialog owns its connection (`DialogOwnsConnection`), a dead client reconnects and the display is refreshed (`TimersPending`); `SelectionFollowsSongs`, `SentAsMeant`, `OutputsAsTold`, `ChatKept`, `BarSound` |
| `services` | `MpdClient` with a user who types the right password, `Sockets` (2 events, 2 descriptors), `Signals` (3), `IdleSource` (2 events, one of them new), `AsyncConnect` (2 objects, 2 descriptors, 2 choices), with fairness | idle mode is always re-entered (`Attentive`), every event is noticed, and what is reported is served (`ReportsServed`); `SocketsSound`, `SignalsSound`, `TalkSound` (the dialogue) and `AttemptsSound` |
| `interface` | `ListWindow` (up to 6 items, heights 1, 3, 4, offsets 0, 1, 4, modulus 64), `ScreenManager` (3 pages, 2 sub-pages, 2 frames), `TextInput` (lines of 2, histories of 3), `Keys` (2 commands, 2 keys each), `Config`, `TreeSet` (8 items), `IntrusiveList` (4 items, 2 lists) | `CursorValid`, `WindowKept`, `ScreenSound`, `LineAndHistoryKept`, `KeysKept`, `ConfigurationTaken`, `ContainersKept` |
| `pages` | `Browser` (2 nested directories, 1 song, 2 playlists), `PlaylistEditor` (playlists of 3), `Library` (2 tags, 3 songs), `Search` (texts of 6 tokens), `SongPage` (2 songs, 4 widths), `SongFormat` (formats of 5 tokens), `SavePlaylist` (2 names) | `DirectoryShown`, `EditsAsShown`, `TrailShown`, `WrittenIsShown`, `SongPageSound`, `SavedAsAgreed` |
| `client_restart` | `MpdClient` | **violated**: the reconnect timer meets an attempt made on the connections page (`RestartsOnlyWhenDead`) |
| `screen_costart` | `ScreenManager`, 2 frames, `Interrupting` | **violated**: a coroutine frame is destroyed twice (`DestroyedOnce`) |
| `lyrics_stray` | `Lyrics`, signals that interrupt | **violated**: a plugin is forgotten while it runs (`NoneRunsUnnamed`) |
| `bar_dialog` | `StatusBar`, 2 dialogs | **violated**: the scrolling text paints over the dialog that replaces another (`NotOverDialog`) |

The properties of a component are the conjunction of named parts, which are stated
and explained one by one in its module; the table names the conjunction.  What the
parts say, beyond types:

* `SelectionFollowsSongs`: the window is as long as the queue, the song under the cursor is
  the one the user chose while the queue has it, nobody else changes the choice; moving and deleting
  hit the chosen songs when nobody else edits between the command and its request.
* `SentAsMeant`: a delayed seek goes to the song its position was reckoned in, and never makes
  MPD change the song; a toggle toggles.
* `ServersAreKnown`: the list of servers has exactly the services with an address, the lookups in
  progress are counted, there is a daemon or a timer, the server in use is marked, the
  cursor keeps its server.
* `OutputsAsTold`: the listing of outputs is MPD's when nothing is to come, the cursor keeps its
  output, a toggle that no reload overtakes on its way to MPD does what the line shows.
* `ChatKept`, `BarSound`: no message is forgotten; scrolling goes on when the dialog is gone, and
  paints over none that came when there was none (`QuietUnderDialog`; run `bar_dialog` for one that replaces
  another), the text fits, a click on the progress bar seeks to the cell.
* `SocketsSound`, `SignalsSound`, `TalkSound`, `AttemptsSound`: the poll set and the queue agree with
  what is scheduled; marks are seen; every answer belongs to the request it is read for, no call blocks for an answer that is not to come, MPD gets
  nothing but "noidle" in idle mode, no event is lost between the two readers; the one attempt is the
  one the client knows, descriptors and timers have an owner.
* `ReportsServed`: an event that MPD has is noticed (`EventsNoticed`), a ready socket gets its turn, a signal is handled, an event reaches `OnIdle()`
  or the client is deaf, an attempt ends or the server is silent.
* `ScreenSound`: visible pages are open and sized, no event is missed by a hidden page, every
  suspended coroutine can be resumed and cancelled, no dialog outlives its page.
* `WindowKept`: no blank lines while items are hidden, the cursor is on the screen within its margins,
  scrolling by a line does so, top, middle and bottom do not scroll.
* `LineAndHistoryKept`: the cursor is in view, the history has the entered lines, the draft is
  kept, a completion is the longest text that all lines with the prefix begin with.
* `KeysKept`: no new conflict, no hole, what is saved returns.
* `ConfigurationTaken`: command line before environment before files before defaults;
  styles are resolved; the columns of a table fit.
* `ContainersKept`: balanced and refining a sorted list; rings that refine sequences.
* `DirectoryShown`, `EditsAsShown`, `TrailShown`: lists and highlights are MPD's when nothing
  is to come; only chosen playlists are deleted, and a deletion or a move in the playlist editor hits the
  songs selected, if the page was up to date when the command was given; going up ends on the directory left.
* `WrittenIsShown`, `SongPageSound`: an expression to search for is understood as written or
  refused (but of several `modified:` the first counts, see below), results are marked, and a format means what the manual says; both songs are shown in full.
* `SavedAsAgreed`: a playlist is replaced only if the user agreed to that name, and "Saved" is true.

Bounds.  `MaxLength` and `MaxVersion` stop the server, not the client.  Two songs
and four versions let another client edit before, between and after the two
requests of an update with a command on top; in `edits`, three songs (`EditVersions` is their last version) are needed for a range that
is not the whole queue, for a move across another song and for two entries of one
file beside another.  `Playable` limits which songs are played in runs that are not about
`current_song`.  `MpdClient` has no counter: its runs are exhaustive for the given
sets.  `EventLoop`: a span of 6 with delays to 7 and time to 10 has timers a whole turn
ahead, several turns, and a clock that starts in every bucket; three buckets are the fewest
for which "the next", "the current" and "the one before" differ.  `ListWindow`: lists shorter
than, as long as and almost twice as long as the window, a window too small for any
margin, even and odd heights, heights 0, 2 and 63 before the first resize, and an offset
that must be clamped; the modulus is large enough that no sum overflows and that a length is also an `int`
(`ConstantsAssumption`), as in the code, but a difference below zero wraps.  The pages
need two of everything: what is chosen and what it must not be confused with; the playlist
editor has a third song and a song that is in a playlist twice.  `Lyrics` needs a second
plugin for the chain and a song without tags for the errors.  Signals 1 to 3 have one
before and one after the one being handled.  Two `AsyncMpdConnect` objects exist at once at
most, the one that fails and its fallback; a connection is closed before an attempt begins.  Formats of five tokens contain every operator with an
operand on both sides and one level of brackets; texts of six tokens two tags with words.  `Chat` and `Connections`
cap counters of things that come and go; the caps are in the guards of the environment.

Fairness.  `QueueSync`: the client's own steps are weakly fair, because a callback
runs to its end without waiting for the user.  `EnterIdle` is strongly fair: its
timer is run before the loop polls for further input, however often the user
interrupts idle mode.  MPD, the other clients, the user and the network are not fair.
`MpdClient`: timers are strongly fair since the loop runs every due timer before it
polls, even when input never stops; a readable MPD socket is reported by a poll; the
dialog is left at last, since the connection may be blocked as long as it
stays.  `Lyrics`: the timeout is a timer of the loop, and `ChainStep` are a pipe that has ended, the
deferred failure, and the return of `waitpid()` once the process has exited.  That a plugin ever
closes a pipe or exits is not assumed, nor that a signal comes.  `Sockets`: the loop
goes on with its queue; `Signals`: the loop reads the pipe and the marks.  `IdleSource`: MPD answers, calls return when they
can, the timer as in `MpdClient`; `AsyncConnect`: ready sockets and the timer are served, a
peer may do nothing for ever.  `Converges`
asks for a connection that stays usable from some time on, and `LoadingEnds` excepts a
user who begins again and again, and a plugin that runs for ever when there is no timeout
(`lyrics_timeout` 0) or the loop waits for it in `waitpid()`, where no timer runs.

The findings in detail:

* `ConnectionsPage::Activate()` does not cancel `reconnect_timer`, whose callback
  asserts that the client is dead (`src/Main.cxx:98`).
* `Page::CoStart()` (`src/page/Page.cxx:57`) swaps the handle of a suspended coroutine into its
  parameter; when the new coroutine's dialog cancels the old one, `final_suspend()`
  releases the wrong handle and the old frame is destroyed twice.
* `PluginCycle::OnEof()` (`src/plugin.cxx:179`) takes a `waitpid()` that a signal has interrupted for the
  end of the process: without `signalfd` the handlers have no `SA_RESTART` (`src/event/SignalMonitor.cxx:183`).
  The plugin is never reaped, its output is thrown away and the next one runs beside it; `Stop()` (line 362) leaves
  a zombie in the same way.  `LyricsPage::Edit()` waits again after EINTR.
* `ShowModalDialog()` (`src/screen.cxx:460`) suspends the scrolling text "while a modal dialog is visible"
  (`src/hscroll.hxx:57`), then cancels the dialog before it, which resumes it (line 493).

Found while modelling.  Each of these can be seen by checking the named definition,
which no run states, or by the named change of constants:

* `RunDeleteUri()` (`src/client/mpdclient.cxx:822`) removes songs from the replica
  without the step its siblings have ("remove references to the song", lines 717 and
  766): `current_song` dangles until the next update.  (`CurrentValid` in the part `edits` of `queue_safety`,
  with songs that play.)
* `OnEnterIdleTimer()` (`src/client/mpdclient.cxx:24`) gives up while the dialog is open.  When the dialog
  is cancelled, or the password is wrong, nobody schedules it again: a client that
  was allowed to read and whose user declined to give a password for some command is
  deaf until it authenticates successfully or the connection is lost and made
  again.  (`Attentive` in `services`, with the four `Answers` of `Panes.cfg`.)
* An event libmpdclient has no name for ends idle mode without `OnIdle()` (`src/client/gidle.cxx:56`):
  `idle` stays set, nothing is scheduled, and the client is deaf until some command
  calls `GetConnection()`.  (`Deaf` in `NewsArrive` of `IdleSource`; only with a library older than MPD.)
* The timer of `ConnectSocket` ends with the handshake, and nothing watches for the welcome line
  (`src/client/aconnect.cxx:99`): a server that accepts and stays silent holds the attempt
  until the user chooses another.  (`Silent` in `AttemptEnds` of `AsyncConnect`.)
* `QueuePage::OnCommand()` (line 640, and 627 for the other direction) steps from wherever
  the nested update has left the cursor: one past the end, or from 0 to `UINT_MAX`.
  (`SelectsItems` of `ListWindow` with `OthersEdit = TRUE`; `CursorInQueue` of `QueuePage`.)
* `RunDelete()` (`src/client/mpdclient.cxx:687`) looks up the position after
  `GetConnection()`, which may have updated the replica: DELETE may remove another song
  than the one the cursor was on, although "deleteid" is chosen as the "safer" version
  (line 729).  PLAY takes the id before the connection.
* `FileListPage` (`src/FileListPage.cxx:291`) uses the entry under the cursor after a nested update
  may have cleared the list (`NoStaleEntity` of `Browser`), and `OutputsPage`
  (`src/OutputsPage.cxx:185`) its item in the same way; `ActivatePartition()` is given a
  reference to the partition, which the update within its `GetConnection()` frees.
* `OutputsPage::Clear()` (`src/OutputsPage.cxx:243`) leaves the length of the list window, so that
  a reload within a reload takes the hash of `items[cursor]` from an empty vector.  The outer
  reload restores the cursor, so `CursorKeepsOutput` holds whatever is read there.
* `SongPage::AppendLine()` (`src/SongPage.cxx:255`) moves on by the row that fits the window before
  it cuts it to what fits the buffer: on a row longer than 1024 bytes text is lost
  (`Fits` in `TextComplete`).
* A reload within a reload lists everything twice: `ListsOnce` of `Outputs`, `StatsOnce` of `SongPage`.
* `playlist_save()` removes the old playlist before it saves the new one; if that fails,
  both are gone (`ReplacedOrKept` of `SavePlaylist`).
* `ChatPage` (`src/ChatPage.cxx:65`) remembers that a connection does not support chat when
  it is checked before the password has been entered (`ChatWhenAllowed`).
* `ServiceExplorer` asserts that nothing is pending when a browser has announced all
  (`src/lib/avahi/Explorer.cxx`); after the daemon was restarted something may be (`AllForNowOnce`
  of `Connections`).  A service removed while it is looked up stays counted, and services that vanish
  while the daemon is away stay listed.
* `strfsong` should "just pass-through any unknown specifiers" (`src/strfsong.cxx:239`), but appends what
  follows one, to the end of the format, in its place, and so for `%time%` of a song without duration
  (`UnknownPassedThrough` of `SongFormat`).
* An update while a message is shown in the status bar starts the scrolling text, which then paints over
  the message.
* Of several `modified:` in a search expression (`src/SearchPage.cxx:134`) only the first is used, which is parsed
  last; other tags that are given twice are refused.
* A plugin that ignores SIGTERM (`src/plugin.cxx:361`), or has closed its pipes and goes on (line 178), blocks the
  whole program in `waitpid()`; no timeout helps then.
* `ParseKeyName()` (`src/KeyName.cxx:14`) does not take all the names `GetKeyName()` makes, the "canonical
  string, to be used in the configuration file" (`src/KeyName.hxx:20`): "Ctrl-?" for 127, a key
  many terminals send for backspace, nor "Alt-" with a character below @, for 160 to 191.
  The line with that name is skipped when the program starts again, and the command has its
  default keys.  (`SavedKeysReturn` with 127 or 170 in `Keys`.)
* `KeyDefPage` takes DELETE from LIRC while its dialog asks for a key, and then `OverwriteKey()` may write
  behind a slot without a key: that key works, but the page does not list it.  (`RowsTrue`
  with `Remote = TRUE`.)
* `color list ...` replaces the attributes it should add to ("Set the text color and
  attributes", `doc/index.rst:309`; `AttributesShown` of `Config`), and the example
  at line 279 is rejected.
* Completion without the permission to read opens the password dialog, which destroys the text input
  dialog within its own key handler (`src/db_completion.cxx:57`).
* `SetOrigin(0)` and `ScrollToBottom()` (`src/ui/ListWindow.cxx:235` and 239) do not reset
  `highlight_cursor` as the other scroll methods do; `TextPage::OnCommand()` then takes the
  match of the last search as visible and searches on from there.
* `TextPage::OnCommand()` (`src/page/TextPage.cxx:79`) and `HelpPage::OnCommand()` set the
  invisible cursor to the first line for every command that is not the list's.  With
  `scroll-offset` the page is scrolled up to keep a margin above that cursor, with every
  volume key, too.

## 4. Proofs

A theorem holds for every value of the constants that its module's ASSUME allows, and rests
on nothing else but the hypotheses that it states itself:

| module, theorems | states | hypothesis, and why |
|---|---|---|
| `QueueSync_proofs`: `TypesCorrect`, `ReplicaCovers`, `ReplicaInSync`, `NothingMissed`, `OwnCommandsKeepUp`, `SongFollowed` | types, `ReplicaInv`, `InSync`, `NoMissedUpdate`, `CheapRouteKeepsUp`, half of `CurrentSongRight` | |
| `QueueSync_proofs`: `CurrentSongIsRight` | `CurrentSongRight` | nobody deletes by URI: `RunDeleteUri()` leaves the pointer (section 3) |
| `MpdClient_proofs`: `TypesCorrect`, `IdleIsExclusive`, `DialogIsSafe`, `TimersArePending` | the invariants of the run `panes` | |
| `MpdClient_proofs`: `AttendsToMpd` | `Attentive` | the dialog is left with the right password only, and no LIRC (section 3: the client is deaf otherwise) |
| `EventLoop_proofs`: `NoTimerIsEarly`, `LoopIsSound` | `NeverEarly`, `LoopSound` | |
| `EventLoop_proofs`: `LoopRefinesTimerSet` | `ImplementsTimerSet` | callbacks are quick and polls are on time: the abstract set of timers promises deadlines |
| `ListWindow_proofs`: `CursorIsValid`, `ViewFollowsCursor` | `CursorValid`, `WindowKept` | nobody edits the list while the selection is moved (section 3, `SelectsItems`) |
| `Panes_proofs`: `ChatIsKept`, `BarIsSound`, `PlayerIsToldAsMeant`, `ServersAreAsAnnounced`, `OutputsPageIsAsTold`, `SelectionIsKept` | `ChatKept`, `BarSound`, `SentAsMeant`, `ServersAreKnown`, `OutputsAsTold`, `SelectionFollowsSongs` | |
| `Services_proofs`: `SignalsAreSound`, `AttemptsAreSound`, `TalkIsSound`, `SocketsAreSound` | `SignalsSound`, `AttemptsSound`, `TalkSound`, `SocketsSound` | |
| `Interface_proofs`: `ScreenIsSound`, `CoroutinesAreDestroyedOnce` | `ScreenSound`, `DestroyedOnce` | no command starts a coroutine on a page that has one suspended (run `screen_costart`: both are false otherwise) |
| `Interface_proofs`: `LineAndHistoryAreKept` | `LineAndHistoryKept` | |
| `Interface_proofs`: `KeysAreKept` | `KeysKept` | the names of the keys that are pressed can be read back, and LIRC deletes no key while a dialog asks for one (section 3: `SavedKeysReturn` or `RowsTrue` is false otherwise) |
| `Pages_proofs`: `SavesAsAgreed`, `LyricsAreOfTheSong`, `EditsAreAsShown` | `SavedAsAgreed`, `LyricsOfTheSong`, `EditsAsShown` | |

Five of the properties say themselves where they end, and so do their theorems.  `BarIsSound`: a dialog
that comes when there was none is not painted over (one that replaces another is, `bar_dialog`).
`LyricsAreOfTheSong`: there is one process unless a signal interrupts `waitpid()` (`lyrics_stray`).
`EditsAreAsShown`, `OutputsPageIsAsTold` and `SelectionIsKept`: the page comes to show what MPD has under
a cursor that is kept, whatever others do and whatever is nested; but that a *command* hits what was under the
cursor is said only when the page is up to date, when no reload overtakes the toggle, and when nobody edits
between the key and its request, respectively.  Without these clauses each is false, since the code uses
positions after the nested update (section 3).

The assumptions on the constants say that sets which mean different things are disjoint, that sizes
are numbers, that descriptors are (-1 is none), and what the code relies on: two `AsyncMpdConnect` objects and two descriptors may
exist at once (`RoomAssumption`), MPD has finitely many idle events (`KnownAssumption`), there are two
coroutine frames at least, a list's length fits an `int` (`ListWindow`), the list of plugins is finite, and
so are the lines a completion chooses from; a file of keys names keys.

`QueueSync_proofs`.  `InSync` is not inductive: a replica that lags behind says
nothing about a queue that it never compares.  The strengthening is `ReplicaInv`: a
replica at version v is right (`Covers`) at every position the server has not
stamped after v, its length is right when v is the server's version, and while
`Update()` waits for the queue, the same holds of the length and version in the
status it holds.  `ServerSetStep` says that an edit by anybody stamps what it changes, so a
replica that is left alone keeps covering its old version (`ReplicaKept`);
`AppliedChangesCorrect` that `plchanges` brings it to the version of the status even
when the queue has changed since; `MoveIsServerMove`, `WithoutRangeFacts` and
`QueueCommandStep` that the cheap routes apply MPD's own edit, and only to a replica
that was in sync (`CheapRouteFromSync`).  `NothingMissed` needs one
more invariant, `FreshInv`: without a pending event, the version the client holds, or
is about to hold, is the server's.
`OwnCommandsKeepUp` says, command by command, that client and server compute the same queue
and the same length, `WithoutSongs` by the positions that are kept.  `current_song` is followed
through every command by the id at its position (`FollowStep`), and each
command that takes songs away forgets the one that goes (`ValidStep`).

`MpdClient_proofs`.  A lemma per handler says that each state it returns in is `Sane`
if the state it was called in is, that it does not touch `screen` (`Keeps`) and
what it does to the display (`Continues`, `Refreshed`).  `Nearly` is the weaker
condition under which `ScreenManager::Update()` may be called: `OnUpdateScreen` has
already taken the event that promised to remove a stale dialog.  `Inv`, the state
between two callbacks, is `Sane`, no running coroutine, and `Refreshed`; a lemma per
action shows that it is preserved.  `AttendsToMpd` goes through the same
handlers once more with `AttentiveIn`: each leaves the connection idle, or with the timer
scheduled, or behind the dialog, and `PasswordSchedules` says that the last case ends in the second.

`EventLoop_proofs`.  `NeverEarly` needs one fact beyond the guards: a timer in the "ready"
list, which is run unconditionally, was due when it was put there (`ReadyIsDue`), and
the cached clock is never ahead of the clock.  `LoopInv` relates the position of every
timer to the sweep: a timer in the wheel has its due time at or after the start of the bucket
that is swept next, and what is being swept covers the gap (`SweepCoversGap`); the
lemmas `Division` to `BucketsInOrder` are the arithmetic of buckets, `WalkFindsBucket` and
`SleepIsShort` that the search for the next bucket cannot step over a timer.  For the refinement,
`StepRefines` maps each step to a step of `TimerSet` or to none; it rests on `LoopInv` and on a cached clock
that is right whenever a callback may read it (`StepCacheFresh`).

`ListWindow_proofs`.  `Inv` adds to `CursorValid` that all fields are natural numbers, which
is what makes unsigned differences harmless: `Loose` is a window in the middle of a method,
whose cursor may be anywhere; `CheckedIsValid` says that `CheckSelected()` and
`CheckOrigin()`, which end almost every method, make it `Valid`, and a lemma per method and
action follows from it.  `SelectionMoved` checks nothing: it is `Valid` only because its
callers have checked the range.  For `WindowKept`, `NewStartIs` says that the unsigned arithmetic of
`ScrollTo()` is that of the integers as long as lengths and heights are in bounds (`InSize`);
`OriginFollows` and `OriginStays` are the integer lemmas on margins, and each method either leaves the
cursor on the screen within its margin (`Follows`), or keeps what it found (`Keeps`), or
scrolls by a given number of lines; `WInv` is what holds between two commands.

`Panes_proofs`.  `ChatSafe` relates the connection the page has checked to the one it is
subscribed on; `BarSafe` what scrolls to the text it was measured from, with the integer
division of the progress bar (`MarkOfClick`); `PlayerSafe` the delayed position to the song and
duration it was reckoned from, through the nested update of every command.  `ConnSafe` relates the list to
the explorer: what is listed is what is active there (`ListedAreActive`), the list has no line twice and
ends with the message (`ServerList`), and `ServerListed`, `ServerUnlisted` and `MessageShown` follow one
change of it position by position.  `OutSafe` says what the outputs page lacks: it lists what MPD
has unless an event or news is on its way, and events are only left undrawn while the screen is
dirty.  A reload may be overtaken by an update while it takes the connection, so it is proved from a state
in which the list is already cleared; `Follows` is what each of them does with the cursor.  `QueueSafe` does for the
queue page what `ReplicaInv` does for the client: `QueueSound` says that whatever the replica lacks has been
announced, that what is announced will be shown, and that lines are valid unless the screen is dirty;
`ChoiceTold` that the song under the cursor is the chosen one unless an event or a cursor movement that is
not saved says otherwise.  Every command leaves idle mode first, with an update nested in it, which
`LeaveFacts` follows; `SongMoved`, `SongsLeft` and `SongRemoved` follow each edit of the queue position by
position, and what an edit does to the cursor's song comes from them.

`Services_proofs`.  `SignalsInv`: a mark is set behind the position of the scan only if a byte
is in the pipe, and there are never more bytes than signals.  `AttemptsSafe` has one case for each of the
states an attempt rests in (`Resting`, `Waiting`, `Failing`), and the handlers that delete the
object they run in return with what they leave behind (`OnlyOf`).  `TalkSafe` is about whose turn it is: what
the client has written and MPD has not read, what MPD has written and the client has not
read, and the command whose answer is between them (`Answer`, `Ended`, `Clean`); an event is
with MPD, on the way, or with the client (`News`).  `SocketsSafe` is about a state between two calls: the array and the table of `PollBackend`
mirror each other (`Dense`), each watches the event that owns the descriptor
(`WatchesOwn`), and an event is in one list, once, while it is scheduled (`Linked`); `GapFacts` is
the last entry that fills the gap.  What is taken out of a list is written by the positions
that stay (`Picked`, `Without`): `PickedFacts` says that they keep their order.

`Interface_proofs`.  `ScreenInv` has the screen (which pages are open, sized and up to date) and the talk (one
suspended coroutine, one dialog, and the page it belongs to); `Kept` and `SameBut` carry one
part through a step of the other.  With `Interrupting` FALSE at most one coroutine is suspended.
For the text dialog, `TextGood` says that the cursor is in the line and in view (`InSight`), that the line of
the dialog is the last of the history it reads, and that a closed dialog is as new (`Talking`); a lemma follows
each movement and edit.  `right_align_bytes()`, the words and `std::mismatch()` are least numbers
(`LeastNumber`).  For the completion, `LessTotal` and `LessTransitive` make the order of lines one, so that a
finite set has a first and a last line (`FirstLine`), and `PrefixIsConvex` says that what is between two lines
with a prefix has it: hence what the first and the last have in common, all have.
For the keys, `KeysGood` says that a command's keys are packed at the beginning of its array, that what was not
modified is the default, that the page's rows are right for the command shown last, and that the
copy on the page has no conflict if the table in use has none.  `EditFacts` carries both kinds of edit:
the new keys of a command were its own or nobody's.  `NameFacts` reads each form of name,
and `WriteFacts` follows a table through the file and back.

`Pages_proofs`.  `SaveInv` says what the user has agreed to at each `co_await`.  `PageOK` has the
types, `Shows` (text, title and file names are of one song) and `ChainOK`: the chain is `Calm`, `Failing` or
`Working`, with one process unless a signal interrupts `waitpid()`, or hung in it, and the loop is blocked in `waitpid()` if and only if both
pipes have ended.  `EditSafe` says what the playlist editor may rely on between two calls: its cursor is a
position, a list without a playlist is empty, and when nothing is on its way the list is the stored
playlist with the cursor on the selected song (`EditSettled`).  A command takes the connection
(`ConnectionTaken`), which may fetch the playlist within it, so each handler is followed through the nested
reload; `RangeRemoved` and `ItemMoved` say position by position what MPD's edit and the page's own do, and
`SelectionGoesAlong` that the selected song is where it was moved.

`TypesCorrect` states the types of `QueueSync` and `MpdClient`, which the runs leave to it.

Only model-checked, and why:

* `Converges`, `LoadingEnds`, `ReportsServed`: liveness under fairness, which is beyond the provers used.
* `ConfigurationTaken`, `WrittenIsShown`, `TrailShown`, `ContainersKept`: `Config`, `Search`, `SongFormat`,
  `Library`, `TreeSet` and `IntrusiveList` are recursive programs, and what they compute needs induction
  over texts, formats and trees.
* `SongPageSound`: lines are wrapped and concatenated by folds, again induction.
* `DirectoryShown`: a directory is shown by folding, filtering and sorting the entries of a response; what
  these return is an induction over the response.

## 5. Plan, and what is not modelled

Next, in this order:

1. `Browser` with its listing written by positions instead of folds, and a proof for `DirectoryShown`.
2. `EventLoop::Break()`, and `EventLoop` composed with `Sockets`.

Not modelled: painting and the curses windows; the title and tab bars; the help page (a constant text in
a list window); the splitting of a configuration line into words; character sets and the conversion of
strings; libmpdclient's parser, buffers and settings (a malformed reply is a lost connection); the resolver (a
blocking library call); Avahi's poll adapter (glue to libavahi); the decoding of keys by curses; which strings
completion finds in the database; the epoll and Windows back ends and `signalfd`, other builds of
interfaces that are modelled; threads, which ncmpc does not use.  These keep no state that others
depend on, or are code of a library.
