------------------------------ MODULE Playback ------------------------------
(***************************************************************************)
(* The player commands (player_command.cxx) and the delayed seek           *)
(* (DelayedSeek.cxx): what MPD is told may be meant for a song that is not *)
(* played any more, or for an option somebody else has set.                *)
(*                                                                         *)
(* "repeat" stands for the five options which are toggled alike.           *)
(***************************************************************************)
EXTENDS Integers, FiniteSetsExt

CONSTANTS
    SongIds,        \* natural numbers
    Duration,       \* of a song, in steps of the option "seek_time"
    MaxVolume       \* bound: 100 %

ASSUME PlaybackAssumption ==
    SongIds \subseteq Nat /\ Duration \in [SongIds -> Nat] /\ MaxVolume \in Nat

VARIABLE player

None == -1
Stopped == [song |-> None, elapsed |-> 0]
Played == {Stopped} \cup UNION {[song : {s}, elapsed : 0..Duration[s]] : s \in SongIds}
NoStatus == [song |-> None, elapsed |-> 0, repeat |-> FALSE, volume |-> None, known |-> FALSE]

PlaybackInit ==
    player = [now |-> Stopped, repeat |-> FALSE, volume |-> 0, news |-> FALSE,  \* MPD
              conn |-> FALSE, idle |-> FALSE,
              status |-> NoStatus,          \* mpdclient::status
              shown |-> None,               \* mpdclient::volume
              id |-> None, time |-> 0, timer |-> FALSE,   \* DelayedSeek
              base |-> None]                \* the song whose position `time' was reckoned from

-----------------------------------------------------------------------------
(* The client *)

\* mpdclient::Update()
UpdateStatus(p) ==
    [p EXCEPT !.status = [song |-> p.now.song, elapsed |-> p.now.elapsed, repeat |-> p.repeat,
                          volume |-> p.volume, known |-> TRUE],
              !.shown = p.volume]

Disconnected(p) ==
    [p EXCEPT !.conn = FALSE, !.idle = FALSE, !.status = NoStatus, !.shown = None,
              !.news = FALSE, !.now = Stopped, !.repeat = FALSE, !.volume = 0]

\* The update within OnIdle() may find that the connection is lost.
OnIdleUpdate(p) == {UpdateStatus([p EXCEPT !.idle = FALSE, !.news = FALSE]), Disconnected(p)}

\* GetConnection(): leaving idle mode may yield events.
PlayerConnection(p) == IF p.idle /\ p.news THEN OnIdleUpdate(p) ELSE {[p EXCEPT !.idle = FALSE]}

-----------------------------------------------------------------------------
(* Delayed seek *)

Dropped(p) == [p EXCEPT !.id = None, !.time = 0, !.base = None]
CancelSeek(p) == [Dropped(p) EXCEPT !.timer = FALSE]

\* mpd_run_seek_id(): MPD plays that song from that position, if it is in the queue.
SeekId(p, id, time) == [p EXCEPT !.now = [song |-> id, elapsed |-> time], !.news = TRUE]

\* DelayedSeek::Seek(): from the position chosen before, or from where the song is.
SeekBy(p, offset) ==
    LET again == p.id = p.status.song
        new == [p EXCEPT !.id = p.status.song, !.timer = TRUE, !.base = p.status.song]
        from == IF again THEN p.time ELSE p.status.elapsed
    IN  IF p.status.song = None THEN p
        ELSE [new EXCEPT !.time = Max({0, Min({from + offset, Duration[p.status.song]})})]

\* Mutant: checked before the nested update.
CommitEarly ==
    /\ player.timer
    /\ \E p \in PlayerConnection([player EXCEPT !.timer = FALSE]) :
          player' = IF p.conn /\ player.id # None /\ player.id = player.status.song
                    THEN Dropped(SeekId(p, p.id, p.time)) ELSE Dropped(p)

\* DelayedSeek::OnTimer()
Commit ==
    /\ player.timer
    /\ IF player.id = None THEN player' = [player EXCEPT !.timer = FALSE]
       ELSE \E p \in PlayerConnection([player EXCEPT !.timer = FALSE]) :
               player' = IF p.conn /\ p.id = p.status.song
                         THEN Dropped(SeekId(p, p.id, p.time)) ELSE Dropped(p)

-----------------------------------------------------------------------------
(* handle_player_command() *)

Commanded == player.conn /\ player.status.known

SeekCommand == Commanded /\ \E offset \in {-1, 1} : player' = SeekBy(player, offset)

\* Every other command that the page does not take ends the seek.
OtherPlayerCommand == Commanded /\ player' = CancelSeek(player)

\* A command of the connection GetConnection() returns, after its nested update.
PlayerCommand(sent(_)) ==
    /\ Commanded
    /\ \E p \in PlayerConnection(CancelSeek(player)) : player' = IF p.conn THEN sent(p) ELSE p

\* STOP, TRACK_NEXT, TRACK_PREVIOUS, CLEAR and CROP change what is played.
PlayCommand ==
    \E now \in {Stopped} \cup [song : SongIds, elapsed : {0}] :
        PlayerCommand(LAMBDA p : [p EXCEPT !.now = now, !.news = TRUE])

\* REPEAT, RANDOM, SINGLE, CONSUME, CROSSFADE
Toggle == PlayerCommand(LAMBDA p : [p EXCEPT !.repeat = ~p.status.repeat, !.news = TRUE])

\* RunVolumeUp(), RunVolumeDown(): an absolute value, reckoned before the nested update.
RunVolume ==
    \E by \in {-1, 1} :
        /\ Commanded /\ player.shown # None
        /\ IF player.shown + by \in 0..MaxVolume
           THEN \E p \in PlayerConnection([CancelSeek(player) EXCEPT !.shown = @ + by]) :
                   player' = IF p.conn THEN [p EXCEPT !.volume = player.shown + by, !.news = TRUE] ELSE p
           ELSE player' = CancelSeek(player)

\* ScreenManager::OnProgressBarMouse(): song and position are those on the screen.
SeekByMouse ==
    /\ Commanded /\ player.status.song # None
    /\ \E time \in 0..Duration[player.status.song] :
          PlayerCommand(LAMBDA p : SeekId(p, player.status.song, time))

-----------------------------------------------------------------------------
(* Callbacks of the event loop, and MPD *)

UpdatePlayer == player.conn /\ \E p \in PlayerConnection(player) : player' = IF p.conn THEN UpdateStatus(p) ELSE p

PlayerIdle == player.conn /\ ~player.idle /\ player' = [player EXCEPT !.idle = TRUE]

PlayerIdleEvent == player.idle /\ player.news /\ player' \in OnIdleUpdate(player)

PlayerLost == player.conn /\ player' = Disconnected(player)

PlayerConnected ==
    /\ ~player.conn
    /\ \E now \in Played, repeat \in BOOLEAN, volume \in 0..MaxVolume :
          player' = UpdateStatus([player EXCEPT !.conn = TRUE, !.now = now, !.repeat = repeat, !.volume = volume])

\* Songs end, other clients give commands, and time passes.
PlayerChanges ==
    /\ player.conn
    /\ \/ \E now \in Played : player' = [player EXCEPT !.now = now, !.news = TRUE]
       \/ player' = [player EXCEPT !.repeat = ~@, !.news = TRUE]
       \/ \E volume \in 0..MaxVolume : player' = [player EXCEPT !.volume = volume, !.news = TRUE]

PlaybackNext ==
    \/ Commit \/ SeekCommand \/ OtherPlayerCommand \/ PlayCommand \/ Toggle \/ RunVolume \/ SeekByMouse
    \/ UpdatePlayer \/ PlayerIdle \/ PlayerIdleEvent \/ PlayerLost \/ PlayerConnected \/ PlayerChanges

PlaybackSpec == PlaybackInit /\ [][PlaybackNext]_player

-----------------------------------------------------------------------------
(* Properties *)

\* Every field has its type.
PlaybackTypeOK ==
    /\ player.now \in Played /\ player.volume \in 0..MaxVolume /\ player.shown \in {None} \cup 0..MaxVolume
    /\ {player.id, player.base, player.status.song} \subseteq SongIds \cup {None}

\* The position that will be sent was reckoned from one of the song it will be sent to, step
\* by step, and lies within it: another song starts anew.
PositionOfSong == player.id # None => player.base = player.id /\ player.time \in 0..Duration[player.id]

\* A seek is sent or dropped: while one is pending, which the screen shows instead of the
\* time played (IsSeeking), the timer runs.
SeekSettles == player.id # None => player.timer

\* A delayed seek never makes MPD change the song, if the client heard of every change before
\* it left idle mode for it: the song may have changed meanwhile.
SeekKeepsSong == [][player.idle /\ Commit => player'.now.song \in {player.now.song, None}]_player

\* A toggle changes the option of MPD, whoever set it last, if the client was in idle mode.
ToggleChanges == [][player.idle /\ Toggle /\ player'.conn => player'.repeat # player.repeat]_player

\* What is sent to MPD, at once or after a delay, is what the user meant when it was typed: for
\* the song, from the position and against the value that were shown.
SentAsMeant ==
    /\ [](PlaybackTypeOK /\ PositionOfSong /\ SeekSettles)
    /\ SeekKeepsSong /\ ToggleChanges
=============================================================================
