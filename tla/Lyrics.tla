------------------------------- MODULE Lyrics -------------------------------
(***************************************************************************)
(* The lyrics page (LyricsPage.cxx), its cache of files (LyricsCache.cxx)  *)
(* and the chain of plugin processes which fetch lyrics (plugin.cxx).      *)
(*                                                                         *)
(* `lyrics' is the page with everything it owns.  A method is an operator  *)
(* from a page to a page, or to the set of pages it may leave behind.      *)
(***************************************************************************)
EXTENDS Naturals, Sequences

CONSTANTS
    Tracks,        \* songs MPD may play
    Tagged,       \* those with an artist and a title
    PluginList,   \* the executables in the plugin directory, in order
    Legacy,       \* songs with a file in ~/.lyrics when the program starts
    NoTrack

ASSUME LyricsAssumption ==
    /\ Tagged \subseteq Tracks /\ Legacy \subseteq Tagged /\ NoTrack \notin Tracks
    /\ Len(PluginList) \in Nat

VARIABLES
    lyrics,       \* the page
    playingSong   \* mpdclient::GetPlayingSong()

lyricsVars == <<lyrics, playingSong>>

Plugin == 1..Len(PluginList)

\* What the lines of the page or of a file are: lyrics for a song, and the plugin that found
\* them, or the messages of those that did not; nothing; or a file without lines.
PluginNames == {PluginList[p] : p \in Plugin}
Text(s, from) == [of |-> s, from |-> from]
NoText == Text(NoTrack, "none")
EmptyFile == Text(NoTrack, "cache")
Texts == [of : Tagged, from : {"cache", "errors"} \cup PluginNames]
Files == [of : Tagged, from : {"cache"}] \cup {NoText, EmptyFile}

Pages ==
    [song : Tagged \cup {NoTrack},        \* song, artist and title
     text : Texts \cup {NoText},         \* lines
     source : {"none", "cache"} \cup PluginNames,   \* plugin_name
     open : BOOLEAN,                     \* is it the current page?
     follow : BOOLEAN,
     timer : BOOLEAN,                    \* plugin_timeout
     loading : BOOLEAN,                  \* plugin_cycle # nullptr
     next : 0..Len(PluginList),          \* PluginCycle::next_plugin
     pid : 0..Len(PluginList),           \* the plugin it waits for, 0 for none
     out : {"closed", "open", "eof"},    \* pipe_stdout; "eof" when the writer has gone
     err : {"closed", "open", "eof"},    \* pipe_stderr
     fail : BOOLEAN,                     \* delayed_fail_timer
     blocked : BOOLEAN,                  \* waiting in waitpid()
     hung : BOOLEAN,                     \* ... for a plugin that ignores the SIGTERM of Stop()
     kid : [Plugin -> {"none", "running", "ok", "unavailable", "failed"}],   \* its last process
     limit : BOOLEAN,                    \* is options.lyrics_timeout greater than zero?
     eintr : BOOLEAN,                    \* can a signal interrupt waitpid()? Not with signalfd
     file : [Tagged -> Files],           \* the cache directory
     legacy : [Tagged -> Files]]         \* the legacy directory

NoKid == [p \in Plugin |-> "none"]

LyricsInit ==
    /\ playingSong \in Tracks \cup {NoTrack}
    /\ \E limit, eintr \in BOOLEAN :
         lyrics = [song |-> NoTrack, text |-> NoText, source |-> "none", open |-> FALSE,
                   follow |-> FALSE, timer |-> FALSE, loading |-> FALSE,
                   next |-> 0, pid |-> 0, out |-> "closed", err |-> "closed", fail |-> FALSE,
                   blocked |-> FALSE, hung |-> FALSE, kid |-> NoKid,
                   limit |-> limit, eintr |-> eintr,
                   file |-> [s \in Tagged |-> NoText],
                   legacy |-> [s \in Tagged |->
                                  IF s \in Legacy THEN Text(s, "cache") ELSE NoText]]

-----------------------------------------------------------------------------
(* The cache *)

Exists(l, s) == l.file[s] # NoText \/ l.legacy[s] # NoText

\* An empty file is as good as none: the legacy directory is looked up then.
LoadFile(l, s) == IF l.file[s] \notin {NoText, EmptyFile} THEN l.file[s] ELSE l.legacy[s]

SaveFile(l) ==
    [l EXCEPT !.file[l.song] = IF l.text = NoText THEN EmptyFile ELSE [l.text EXCEPT !.from = "cache"]]

\* Delete() stops after the first file it has removed.
DeleteFile(l, s) ==
    IF l.file[s] # NoText THEN [l EXCEPT !.file[s] = NoText] ELSE [l EXCEPT !.legacy[s] = NoText]

-----------------------------------------------------------------------------
(* The chain of plugins *)

\* LaunchPlugin(): two pipes and a process, or a system error.
LaunchPlugin(l) ==
    { [l EXCEPT !.pid = l.next, !.out = "open", !.err = "open", !.kid[l.next] = "running"],
      [l EXCEPT !.fail = TRUE] }

TryNextPlugin(l) ==
    IF l.next >= Len(PluginList) THEN {[l EXCEPT !.fail = TRUE]}
    ELSE LaunchPlugin([l EXCEPT !.next = @ + 1])

KidRunsOf(l) == l.pid > 0 /\ l.kid[l.pid] = "running"

\* The object is deleted, with its pipes and its timer.
Deleted(l) ==
    [l EXCEPT !.loading = FALSE, !.next = 0, !.pid = 0, !.out = "closed", !.err = "closed",
              !.fail = FALSE]

\* plugin_stop(): the process is killed and reaped before the object is deleted, unless a
\* signal ends the waiting early, or the process ignores SIGTERM and it never ends.
StopPluginCycle(l) ==
    {Deleted(IF l.pid > 0 THEN [l EXCEPT !.kid[l.pid] = "none"] ELSE l)}
        \cup {k \in {Deleted(l)} : KidRunsOf(l) /\ l.eintr}
        \cup {k \in {[l EXCEPT !.out = "closed", !.err = "closed", !.blocked = TRUE,
                               !.hung = TRUE]} : KidRunsOf(l)}

\* Mutant: without the timeout.
StartPluginCycleForever(l) == TryNextPlugin([l EXCEPT !.loading = TRUE])

StartPluginCycle(l) ==
    TryNextPlugin([l EXCEPT !.loading = TRUE, !.timer = l.limit])

-----------------------------------------------------------------------------
(* The page *)

\* What follows StopPluginCycle(), if that returns
Then(pages, Op(_)) == UNION {IF k.hung THEN {k} ELSE Op(k) : k \in pages}

Cancel(l) ==
    LET forgotten(k) == {[k EXCEPT !.timer = FALSE, !.source = "none", !.song = NoTrack]}
    IN  Then(IF l.loading THEN StopPluginCycle(l) ELSE {l}, forgotten)

ClearText(l) == [l EXCEPT !.text = NoText]

SetText(l, from) == [l EXCEPT !.text = Text(l.song, from)]

LoadFromCache(l) ==
    LET found == LoadFile(l, l.song)
    IN  IF found = NoText THEN l
        ELSE [l EXCEPT !.source = "cache", !.text = found]

\* Load(): a song without artist or title leaves the page without a song.
Load(l, s) ==
    LET new(k) == [ClearText(k) EXCEPT !.song = s]
        loaded(k) == IF s \notin Tagged THEN {ClearText(k)}
                     ELSE IF LoadFile(k, s) = NoText THEN StartPluginCycle(new(k))
                     ELSE {LoadFromCache(new(k))}
    IN  Then(Cancel(l), loaded)

MaybeLoad(l, s) == IF s = NoTrack \/ s = l.song THEN {l} ELSE Load(l, s)

\* The chain is done: its owner deletes it.
Finished(l) == StopPluginCycle([l EXCEPT !.timer = FALSE])

\* Mutant: saved in any case.
OnPluginSuccessSaved(l) ==
    LET name == PluginList[l.next]
        shown == SetText([l EXCEPT !.source = name], name)
    IN  Finished(shown) \cup Finished(SaveFile(shown))

\* The plugin's output is shown, and saved unless there is a file already.
OnPluginSuccess(l) ==
    LET name == PluginList[l.next]
        shown == SetText([l EXCEPT !.source = name], name)
    IN  Finished(shown) \cup (IF Exists(shown, shown.song) THEN {} ELSE Finished(SaveFile(shown)))

OnPluginError(l) == Finished(SetText([l EXCEPT !.source = "none"], "errors"))

\* OnEof() after waitpid() has returned the status: success, or on to the next plugin.
Reap(l) ==
    LET reaped == [l EXCEPT !.pid = 0, !.kid[l.pid] = "none", !.blocked = FALSE]
    IN  IF l.kid[l.pid] = "ok" THEN OnPluginSuccess(reaped) ELSE TryNextPlugin(reaped)

-----------------------------------------------------------------------------
(* Callbacks of the event loop, unless it is blocked *)

Awake == ~lyrics.blocked

\* OnRead() of a pipe whose writer has gone; what is read before leaves no trace here.
OnRead(pipe) ==
    /\ Awake
    /\ lyrics[pipe] = "eof"
    /\ LET l == [lyrics EXCEPT ![pipe] = "closed"]
       IN  lyrics' \in IF l.out # "closed" \/ l.err # "closed" THEN {l}
                       ELSE IF l.kid[l.pid] = "running" THEN {[l EXCEPT !.blocked = TRUE]}
                       ELSE Reap(l)
    /\ UNCHANGED playingSong

WaitReturns ==
    /\ lyrics.blocked /\ ~lyrics.hung
    /\ lyrics.kid[lyrics.pid] # "running"
    /\ lyrics' \in Reap(lyrics)
    /\ UNCHANGED playingSong

\* A signal: the process is forgotten, although it runs, and the next plugin is tried.
WaitInterrupted ==
    /\ lyrics.blocked /\ ~lyrics.hung
    /\ lyrics.eintr
    /\ lyrics.kid[lyrics.pid] = "running"
    /\ lyrics' \in TryNextPlugin([lyrics EXCEPT !.pid = 0, !.blocked = FALSE])
    /\ UNCHANGED playingSong

OnDelayedFail ==
    /\ Awake
    /\ lyrics.fail
    /\ lyrics' \in OnPluginError(lyrics)
    /\ UNCHANGED playingSong

OnTimeout ==
    /\ Awake
    /\ lyrics.timer
    /\ lyrics' \in Finished(lyrics)
    /\ UNCHANGED playingSong

\* Switch() opens and updates the page.  Only screen_lyrics_switch() passes a song and
\* decides whether to follow the song that plays.
OnOpen ==
    /\ Awake
    /\ ~lyrics.open
    /\ \E s \in Tracks \cup {NoTrack}, f \in BOOLEAN :
         /\ s # NoTrack \/ f = lyrics.follow
         /\ LET opened == MaybeLoad([lyrics EXCEPT !.open = TRUE, !.follow = f],
                                    IF s # NoTrack THEN s ELSE playingSong)
                updated(l) == IF f THEN MaybeLoad(l, playingSong) ELSE {l}
            IN  lyrics' \in Then(opened, updated)
    /\ UNCHANGED playingSong

OnClose ==
    /\ Awake
    /\ lyrics.open
    /\ lyrics' = [lyrics EXCEPT !.open = FALSE]
    /\ UNCHANGED playingSong

\* ScreenManager::Update()
UpdateLyrics ==
    /\ Awake
    /\ lyrics.open
    /\ lyrics.follow
    /\ lyrics' \in MaybeLoad(lyrics, playingSong)
    /\ UNCHANGED playingSong

-----------------------------------------------------------------------------
(* Commands of the user *)

UserCommand == Awake /\ lyrics.open /\ UNCHANGED playingSong

\* A key acts on lyrics only while none are being loaded ...
Settled == ~lyrics.loading /\ lyrics.song # NoTrack

Interrupt ==
    /\ UserCommand
    /\ lyrics.loading
    /\ LET cleared(l) == {ClearText(l)} IN lyrics' \in Then(Cancel(lyrics), cleared)

SaveLyrics ==
    /\ UserCommand
    /\ Settled
    /\ lyrics' = SaveFile(lyrics)

DeleteLyrics ==
    /\ UserCommand
    /\ Settled
    /\ lyrics' = DeleteFile(lyrics, lyrics.song)

LyricsUpdate ==
    /\ UserCommand
    /\ playingSong # NoTrack
    /\ lyrics' \in Load(lyrics, playingSong)

Reload ==
    /\ UserCommand
    /\ Settled
    /\ lyrics' \in StartPluginCycle(lyrics)

\* ... except Edit(): the text is saved, and loaded again when the editor has succeeded.
Edit ==
    /\ UserCommand
    /\ lyrics.song # NoTrack
    /\ LET saved == SaveFile(lyrics)
           own == Text(lyrics.song, "cache")
           edited == {[saved EXCEPT !.file[lyrics.song] = f] :
                        f \in {own, EmptyFile, saved.file[lyrics.song]}}
       IN  lyrics' \in edited \cup {LoadFromCache(l) : l \in edited}

-----------------------------------------------------------------------------
(* The processes, and MPD.  What becomes of one that is forgotten is not followed. *)

KidRuns == KidRunsOf(lyrics)

\* A process closes a pipe, and may go on.
KidCloses(pipe) ==
    /\ KidRuns
    /\ lyrics[pipe] = "open"
    /\ lyrics' = [lyrics EXCEPT ![pipe] = "eof"]
    /\ UNCHANGED playingSong

KidExits ==
    /\ KidRuns /\ ~lyrics.hung
    /\ \E status \in {"ok", "unavailable", "failed"} :
         lyrics' = [lyrics EXCEPT !.kid[lyrics.pid] = status,
                                  !.out = IF @ = "open" THEN "eof" ELSE @,
                                  !.err = IF @ = "open" THEN "eof" ELSE @]
    /\ UNCHANGED playingSong

SongChanges ==
    /\ Awake
    /\ playingSong' \in Tracks \cup {NoTrack}
    /\ UNCHANGED lyrics

LyricsCommand ==
    \/ Interrupt \/ SaveLyrics \/ DeleteLyrics \/ LyricsUpdate \/ Reload \/ Edit

LyricsNext ==
    \/ \E pipe \in {"out", "err"} : OnRead(pipe) \/ KidCloses(pipe)
    \/ WaitReturns \/ WaitInterrupted \/ OnDelayedFail \/ OnTimeout
    \/ OnOpen \/ OnClose \/ UpdateLyrics
    \/ LyricsCommand
    \/ KidExits \/ SongChanges

\* What the chain waits for: a pipe, the deferred failure, or the exit of a process.  The
\* processes themselves may do nothing for ever.
ChainStep == (\E pipe \in {"out", "err"} : OnRead(pipe)) \/ OnDelayedFail \/ WaitReturns

LyricsFairness == WF_lyricsVars(OnTimeout) /\ WF_lyricsVars(ChainStep)

LyricsSpec == LyricsInit /\ [][LyricsNext]_lyricsVars /\ LyricsFairness

-----------------------------------------------------------------------------
(* Properties *)

\* Every field has its type.
LyricsTypeOK == lyrics \in Pages /\ playingSong \in Tracks \cup {NoTrack}

\* The lines on the page are about the song whose artist and title are used to save them,
\* whatever was loading when the song changed.
TextIsOfSong == lyrics.text # NoText => lyrics.text.of = lyrics.song

\* The title names the plugin, or the cache, that the lines are from.
TitleNamesSource ==
    lyrics.source # "none" => lyrics.text # NoText /\ lyrics.text.from = lyrics.source

\* artist and title are arguments of the plugins: they stay as long as the chain runs, and
\* the timeout never fires without one.
ChainHasSong ==
    /\ lyrics.loading => lyrics.song # NoTrack
    /\ lyrics.timer => lyrics.loading

\* At most one plugin runs, for the chain of the page; every other process has been reaped.
\* That is so where no signal interrupts waitpid().
NoStrayProcess ==
    ~lyrics.eintr => \A p \in Plugin : lyrics.kid[p] # "none" => lyrics.loading /\ lyrics.pid = p

\* "the pid of the plugin process, or -1 if none is currently running" (plugin.cxx:93-94): false
\* where a signal interrupts waitpid(), after which OnEof() and Stop() forget the process.
NoneRunsUnnamed == lyrics.pid = 0 => \A p \in Plugin : lyrics.kid[p] # "running"

\* A chain that is not done waits for something that will happen: a pipe or a timer.
ChainWaits ==
    lyrics.loading =>
        \/ lyrics.fail /\ lyrics.pid = 0 /\ lyrics.out = "closed" /\ lyrics.err = "closed"
        \/ ~lyrics.fail /\ lyrics.pid > 0
             /\ (lyrics.blocked \/ lyrics.out # "closed" \/ lyrics.err # "closed")

\* A file holds lyrics of its own song.
FilesAreOwn ==
    \A s \in Tagged :
        /\ lyrics.file[s] \notin {NoText, EmptyFile} => lyrics.file[s].of = s
        /\ lyrics.legacy[s] # NoText => lyrics.legacy[s].of = s

\* Lyrics that are there already are not overwritten without a command of the user.
KeepsFiles ==
    [][\A s \in Tagged : lyrics'.file[s] # lyrics.file[s] /\ Exists(lyrics, s)
            => SaveLyrics \/ DeleteLyrics \/ Edit]_lyricsVars

\* Loading ends, with lyrics, an error or the timeout, unless it is begun again and again, or
\* waits for ever for a plugin that runs for ever: in waitpid(), or without a timeout.
LoadingEnds ==
    \/ []<>~lyrics.loading
    \/ []<><<OnOpen \/ UpdateLyrics \/ LyricsUpdate \/ Reload>>_lyricsVars
    \/ <>[](KidRuns /\ (lyrics.blocked \/ ~lyrics.limit))

\* The chain of plugins has one process, one timeout and one song, the one it shows.
LyricsSound ==
    /\ LyricsTypeOK /\ TextIsOfSong /\ TitleNamesSource /\ FilesAreOwn
    /\ ChainHasSong /\ ChainWaits /\ NoStrayProcess

\* Whatever the page loads, shows and stores are lyrics of the song it is about, and the chain
\* of plugins that finds them does not wait for nothing, nor lose a process unless a signal
\* interrupts its waiting.
LyricsOfTheSong == []LyricsSound /\ KeepsFiles
=============================================================================
