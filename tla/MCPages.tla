-------------------------------- MODULE MCPages --------------------------------
(***************************************************************************)
(* Instances of the pages that show MPD's files and songs, for TLC: the    *)
(* file browser, the playlist editor, the library, the search page and the *)
(* song page, with the format of songs and the saving of playlists.  They  *)
(* have nothing in common but the client, so one run checks them side by   *)
(* side: "shown" is the one that the user works with, the others rest.     *)
(***************************************************************************)
EXTENDS Browser, PlaylistEditor, Library, Search, SongPage, SongFormat, SavePlaylist, TLC

CONSTANTS
    dir1, dir2, track, list1, list2,     \* two directories, one in the other, a song, two playlists
    e1, e2, e3, pl1, pl2,                \* songs and playlists of the editor
    r1, r2, r3, a1, a2, b1, b2, b3,      \* songs and their artists and albums
    s1, s2, artist, title, day, week,    \* songs, tags and words to search for
    t1, t2,                              \* songs of the song page
    n1, n2                               \* names of playlists

BrowserDirs == <<dir1, dir2>>
BrowserSongs == <<track>>
BrowserLists == <<list1, list2>>
BrowserParent == (dir1 :> Root) @@ (dir2 :> dir1) @@ (track :> dir2) @@ (list1 :> Root) @@ (list2 :> Root)
BrowserFixed == {dir1, list1, list2}

EditorContents == (pl1 :> {<<e1, e2, e3>>, <<e1, e2, e1>>}) @@ (pl2 :> {<<e2>>})

LibraryTags == (r1 :> <<a1, b1>>) @@ (r2 :> <<a1, b2>>) @@ (r3 :> <<a2, b3>>)

SearchWordsOf ==
    s1 :> (artist :> {week} @@ title :> {title} @@ Modified :> {week}) @@
    s2 :> (artist :> {week} @@ title :> {} @@ Modified :> {day, week})
SearchTexts ==
    {<<Modified, Colon, day, Space, artist, Colon, week>>, <<title, Colon, title, Space, artist, Colon, week>>,
     <<week>>}

\* A song with words of one letter and of three, and one without blanks
PageTexts == t1 :> <<1, Blank, Blank, 2, 3, 4, Blank>> @@ t2 :> <<5, 6, 7>>

\* The formatter before an empty format
Rest == [format |-> <<>>, p |-> 1, text |-> <<>>, calls |-> <<Call(0)>>]

VARIABLE shown

\* A page that rests has one initial state.
PagesInit ==
    /\ shown \in {"browser", "editor", "library", "search", "song", "format", "save"}
    /\ BrowserInit /\ (shown # "browser" => browser.db = BrowserFixed)
    /\ EditorInit /\ (shown # "editor" => editor.stored[pl1] = <<e1, e2, e3>> /\ editor.stored[pl2] = <<e2>>)
    /\ LibraryInit /\ (shown # "library" => library.db = {})
    /\ SearchInit /\ (shown # "search" => search.queue = {})
    /\ SongPageInit /\ (shown # "song" => songPage.mpd = NoPageSong /\ songPage.width = 1)
    /\ SaveInit /\ (shown # "save" => \A n \in PlaylistNames : saving.stored[n] = "none")
    /\ IF shown = "format" THEN FormatterInit ELSE formatter = Rest

PagesNext ==
    /\ UNCHANGED shown
    /\ \/ shown = "browser" /\ BrowserNext
          /\ UNCHANGED <<editor, library, search, songPage, formatter, saving>>
       \/ shown = "editor" /\ EditorNext
          /\ UNCHANGED <<browser, library, search, songPage, formatter, saving>>
       \/ shown = "library" /\ LibraryNext
          /\ UNCHANGED <<browser, editor, search, songPage, formatter, saving>>
       \/ shown = "search" /\ SearchNext
          /\ UNCHANGED <<browser, editor, library, songPage, formatter, saving>>
       \/ shown = "song" /\ SongPageNext
          /\ UNCHANGED <<browser, editor, library, search, formatter, saving>>
       \/ shown = "format" /\ FormatterNext
          /\ UNCHANGED <<browser, editor, library, search, songPage, saving>>
       \/ shown = "save" /\ SaveNext
          /\ UNCHANGED <<browser, editor, library, search, songPage, formatter>>

PagesSpec ==
    PagesInit /\ [][PagesNext]_<<browser, editor, library, search, songPage, formatter, saving, shown>>

\* What the user writes, an expression to search for or a format of the rows, is understood as
\* written: its songs, or its text, are shown.
WrittenIsShown == SearchSound /\ FormatSound
=============================================================================
