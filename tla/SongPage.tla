------------------------------- MODULE SongPage -------------------------------
(***************************************************************************)
(* The song page (SongPage.cxx): what is known about a song that was       *)
(* selected on another page, about the song that plays, and MPD's          *)
(* statistics.  Asking for those leaves the idle mode, and events which    *)
(* are found then update the page while it is being updated.               *)
(*                                                                         *)
(* All tags of a song are one text: letters, which are numbers, and        *)
(* blanks.  The label column and the text share the width of the window.   *)
(***************************************************************************)
EXTENDS Naturals, Sequences, SequencesExt

CONSTANTS
    PageSongs, NoPageSong,
    SongText,       \* what there is to show of a song
    Blank,
    LabelWidth,     \* max_tag_label_width and ": "
    RowRoom,        \* BUFFER_SIZE without the label column
    PageWidths      \* of the window

VARIABLE songPage

\* `playing' is what the client knows, `mpd' what MPD plays; `news' are events that wait for
\* the client to read them; `wrapped' is the width the lines were made for.
SongPageInit ==
    \E w \in PageWidths, m \in PageSongs \cup {NoPageSong} :
        songPage = [open |-> FALSE, selected |-> NoPageSong, played |-> NoPageSong,
                    lines |-> <<>>, width |-> w, wrapped |-> w,
                    up |-> TRUE, mpd |-> m, playing |-> m, news |-> FALSE]

-----------------------------------------------------------------------------
(* Lines *)

\* `value_col', a difference of an unsigned width which becomes a size_t: below zero, there is
\* no limit.
ValueColumn(w, length) == IF w >= LabelWidth THEN w - LabelWidth ELSE length

\* AppendLine(): the rows of a text, each without blanks at its beginning, until nothing fits;
\* what the buffer has no room for is cut off when the next row's beginning has been decided.
AppendLine(value, w) ==
    LET column == ValueColumn(w, Len(value))
        Wrapped[i \in 1..(Len(value) + 1)] ==
            LET text == {j \in i..Len(value) : value[j] # Blank}
            IN  IF text = {} \/ column = 0 THEN <<>>
                ELSE LET first == CHOOSE j \in text : \A k \in text : j <= k
                         end == IF first + column > Len(value) THEN Len(value)
                                ELSE first + column - 1
                         cut == IF end >= first + RowRoom THEN first + RowRoom - 1 ELSE end
                     IN  <<SubSeq(value, first, cut)>> \o Wrapped[end + 1]
    IN  Wrapped[1]

AddSongLines(g, kind, song) ==
    [g EXCEPT !.lines = Append(@, [kind |-> kind, song |-> song,
                                   rows |-> AppendLine(SongText[song], g.width)])]

AddStats(g) == [g EXCEPT !.lines = Append(@, [kind |-> "stats", song |-> NoPageSong, rows |-> <<>>])]

\* Mutant: the lines of the update that was interrupted stay.
UpdateSongsOver(g) ==
    LET b == IF g.selected \notin {NoPageSong, g.playing} THEN AddSongLines(g, "selected", g.selected) ELSE g
    IN  IF g.playing = NoPageSong THEN b
        ELSE AddSongLines([b EXCEPT !.played = g.playing], "playing", g.playing)

\* Update(), up to the statistics
UpdateSongs(g) ==
    LET a == [g EXCEPT !.lines = <<>>, !.wrapped = g.width]
        b == IF a.selected \notin {NoPageSong, a.playing} THEN AddSongLines(a, "selected", a.selected) ELSE a
    IN  IF a.playing = NoPageSong THEN b
        ELSE AddSongLines([b EXCEPT !.played = a.playing], "playing", a.playing)

\* Disconnect(), and OnMpdConnectionLost() which updates the page that is shown
LoseSongs(g) ==
    LET lost == [g EXCEPT !.up = FALSE, !.playing = NoPageSong, !.news = FALSE]
    IN  IF g.open THEN UpdateSongs(lost) ELSE lost

\* mpd_run_stats(), with an error or without, which may be the end of the connection
Statistics(g) == IF g.up THEN {AddStats(g), g, LoseSongs(g)} ELSE {g}

\* mpdclient::OnIdle()
Refreshed(g) == [g EXCEPT !.playing = g.mpd, !.news = FALSE]

\* Update(): GetConnection() may find events, unless it was called before.
UpdateSongPage(g) ==
    LET a == UpdateSongs(g)
    IN  Statistics(a) \cup
        (IF a.up /\ a.news
         THEN UNION {Statistics(b) : b \in Statistics(UpdateSongs(Refreshed(a)))}
         ELSE {})

-----------------------------------------------------------------------------
(* Actions *)

\* screen_song_switch(), or another way to the page
OpenSongPage ==
    /\ ~songPage.open
    /\ \E s \in PageSongs \cup {NoPageSong} :
          songPage' \in UpdateSongPage([songPage EXCEPT !.open = TRUE, !.selected = s])

\* OnClose()
CloseSongPage ==
    /\ songPage.open
    /\ songPage' = [songPage EXCEPT !.open = FALSE, !.lines = <<>>,
                                    !.selected = NoPageSong, !.played = NoPageSong]

\* The page is updated, if it is shown, after GetConnection(): nothing is left to be found.
ShowRefreshed(g) == songPage' \in IF g.open THEN Statistics(UpdateSongs(g)) ELSE {g}

\* An idle event, which is read in idle mode
SongIdle == songPage.up /\ songPage.news /\ ShowRefreshed(Refreshed(songPage))

\* OnUpdateTimer(): the status may be asked for when events are left unread.
SongTimer ==
    /\ songPage.up
    /\ \E news \in {FALSE, songPage.news} : ShowRefreshed([Refreshed(songPage) EXCEPT !.news = news])

\* OnUpdateScreen(), after a command
UpdateSongScreen == songPage.open /\ songPage' \in UpdateSongPage(songPage)

SongConnectionLost == songPage.up /\ songPage' = LoseSongs(songPage)

SongConnected ==
    ~songPage.up /\ ShowRefreshed(Refreshed([songPage EXCEPT !.up = TRUE]))

\* The lines are not made again before the next update.
ResizeSongPage == \E w \in PageWidths : songPage' = [songPage EXCEPT !.width = w]

MpdPlays ==
    \E m \in PageSongs \cup {NoPageSong} :
        songPage' = [songPage EXCEPT !.mpd = m, !.news = songPage.up]

SongPageNext ==
    \/ OpenSongPage \/ CloseSongPage \/ SongIdle \/ SongTimer \/ UpdateSongScreen
    \/ SongConnectionLost \/ SongConnected \/ ResizeSongPage \/ MpdPlays

SongPageSpec == SongPageInit /\ [][SongPageNext]_songPage

-----------------------------------------------------------------------------
(* Properties *)

\* Types; a page that is not shown holds nothing.
SongPageTypeOK ==
    /\ {songPage.selected, songPage.played, songPage.mpd, songPage.playing}
           \subseteq PageSongs \cup {NoPageSong}
    /\ {songPage.width, songPage.wrapped} \subseteq PageWidths
    /\ ~songPage.open => /\ songPage.lines = <<>>
                         /\ songPage.selected = NoPageSong /\ songPage.played = NoPageSong
    /\ ~songPage.up => songPage.playing = NoPageSong

\* The page is about the selected song and the one that plays, each once and in this order,
\* whatever has happened while it was being updated.
ShowsSongs ==
    songPage.open =>
        LET songs == SelectSeq(songPage.lines, LAMBDA l : l.kind # "stats")
            playing == songPage.playing
        IN  [i \in DOMAIN songs |-> songs[i].song] =
                (IF songPage.selected \in {NoPageSong, playing} THEN <<>> ELSE <<songPage.selected>>)
                \o (IF playing = NoPageSong THEN <<>> ELSE <<playing>>)

\* While a song plays, the song that other pages are given (GetSelectedSong()) is one the user
\* can read about here.
OfferedIsShown ==
    songPage.open /\ songPage.playing # NoPageSong =>
        LET offered == IF songPage.selected # NoPageSong THEN songPage.selected ELSE songPage.played
        IN  \E i \in DOMAIN songPage.lines : songPage.lines[i].song = offered

\* Wrapping loses nothing of a text but blanks, and uses no row in vain, if there is room for
\* one letter, or no room for the labels, and no row is longer than the buffer.
TextComplete ==
    songPage.wrapped # LabelWidth =>
        \A i \in DOMAIN songPage.lines :
            LET l == songPage.lines[i]
                Letters(t) == SelectSeq(t, LAMBDA x : x # Blank)
                Fits(text) == ValueColumn(songPage.wrapped, Len(text)) <= RowRoom \/ Len(text) <= RowRoom
            IN  l.song # NoPageSong /\ Fits(SongText[l.song]) =>
                    /\ Letters(FlattenSeq(l.rows)) = Letters(SongText[l.song])
                    /\ \A r \in DOMAIN l.rows : l.rows[r][1] # Blank

\* A section of the page is there once.
StatsOnce == Len(SelectSeq(songPage.lines, LAMBDA l : l.kind = "stats")) <= 1

\* The page shows the two songs it is about, all of their texts, and offers what it shows.
SongPageSound == SongPageTypeOK /\ ShowsSongs /\ OfferedIsShown /\ TextComplete
=============================================================================
