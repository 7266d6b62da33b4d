----------------------------- MODULE QueueSync -----------------------------
(***************************************************************************)
(* The local copy of MPD's queue kept by `mpdclient' (client/mpdclient.cxx *)
(* and Queue.cxx): how it is loaded, refreshed from queue versions, and    *)
(* patched in place by the client's own commands (the "cheap route").      *)
(*                                                                         *)
(* The client is single-threaded and its requests are synchronous, but the *)
(* server serves other clients between two requests, so every request is a *)
(* step of its own: `pc' names the request the client sends next.          *)
(*                                                                         *)
(* Positions in commands are 0-based as in the code; sequences are 1-based.*)
(* A song stands for an MPD song id.                                       *)
(***************************************************************************)
EXTENDS Integers, Sequences, FiniteSets

CONSTANTS Song,        \* song ids
          NoSong,      \* "no song": a null current_song, or MPD without a current song
          Null,        \* a null mpd_status
          Uri,         \* song URIs
          UriOf,       \* the URI of each song; several ids may share one
          Playable,    \* bound: the songs that are ever played in this instance
          MaxLength,   \* bound: MPD's max_playlist_length
          MaxVersion,  \* bound: the queue version at which the server stops changing
          Commands     \* the user commands of this instance, a subset of AllCommands

AllCommands == {"add", "delete", "deleteUri", "move", "clear", "crop", "play", "update"}

\* What the client reads of an mpd_status; pos is 0-based, or -1
Statuses == [version : Nat, length : Nat, pos : Int]

ASSUME ConstantsAssumption ==
    /\ NoSong \notin Song
    /\ Null \notin Statuses
    /\ MaxLength \in Nat
    /\ MaxVersion \in Nat \ {0}
    /\ UriOf \in [Song -> Uri]
    /\ Playable \subseteq Song
    /\ Commands \subseteq AllCommands

VARIABLES
    \* the server (external)
    squeue,     \* its queue
    sstamp,     \* the version at which each position last changed
    sversion,   \* the queue version
    scur,       \* its current song
    link,       \* the client's TCP connection is usable
    permitted,  \* the connection may read (no password is missing)
    changed,    \* an idle event the server has not delivered to the client yet
    \* mpdclient
    conn,       \* connection != nullptr
    idle,       \* the connection is in MPD's idle mode
    pc,         \* the next request
    cmd,        \* the command to send once the nested Update() is over
    items,      \* playlist.items
    version,    \* playlist.version
    status,     \* the last mpd_status
    current     \* current_song, by id

serverVars == <<squeue, sstamp, sversion, scur>>
replicaVars == <<items, version, status, current>>
vars == <<squeue, sstamp, sversion, scur, link, permitted, changed,
          conn, idle, pc, cmd, items, version, status, current>>

-----------------------------------------------------------------------------
(* Queues and the operations on them.                                      *)

Songs(q) == {q[i] : i \in DOMAIN q}

\* MPD gives each queue entry an id of its own.
Queues == {q \in UNION {[1..n -> Song] : n \in 0..MaxLength} :
              \A i, j \in DOMAIN q : q[i] = q[j] => i = j}

Smaller(a, b) == IF a < b THEN a ELSE b

NthSmallest(S, n) == CHOOSE p \in S : Cardinality({r \in S : r <= p}) = n

\* q without the positions lo..(hi - 1), 0-based
WithoutRange(q, lo, hi) ==
    [p \in 1..(Len(q) - (hi - lo)) |-> IF p <= lo THEN q[p] ELSE q[p + (hi - lo)]]

\* q without the songs of S
WithoutSongs(q, S) ==
    LET kept == {p \in DOMAIN q : q[p] \notin S}
    IN  [p \in 1..Cardinality(kept) |-> q[NthSmallest(kept, p)]]

\* MPD's "move": take the song out, then insert it at dest
ServerMove(q, dest, src) ==
    LET rest == WithoutRange(q, src, src + 1)
    IN  [p \in 1..Len(q) |-> IF p <= dest THEN rest[p]
                             ELSE IF p = dest + 1 THEN q[src + 1]
                             ELSE rest[p - 1]]

\* MpdQueue::Move: shift the songs in between by one, forwards or backwards
Move(q, dest, src) ==
    [p \in 1..Len(q) |->
        IF p = dest + 1 THEN q[src + 1]
        ELSE IF src < dest /\ src + 1 <= p /\ p <= dest THEN q[p + 1]
        ELSE IF dest < src /\ dest + 2 <= p /\ p <= src + 1 THEN q[p - 1]
        ELSE q[p]]

\* MpdQueue::GetChecked
GetChecked(q, pos) == IF 0 <= pos /\ pos < Len(q) THEN q[pos + 1] ELSE NoSong

\* the 0-based position of a song, -1 when it is not there
PosOf(q, s) ==
    IF s \in Songs(q) THEN (CHOOSE i \in DOMAIN q : q[i] = s) - 1 ELSE -1

-----------------------------------------------------------------------------
(* The server.                                                             *)

\* The queue becomes q, n versions later.  A position is stamped when its
\* song is not the one it had; MPD may stamp more, which only repeats songs.
ServerSet(q, n) ==
    /\ q \in Queues
    /\ sversion + n <= MaxVersion
    /\ squeue' = q
    /\ sversion' = sversion + n
    /\ sstamp' = [p \in 1..Len(q) |->
                    IF p <= Len(squeue) /\ q[p] = squeue[p] THEN sstamp[p]
                    ELSE sversion + n]
    /\ scur' = IF scur \in Songs(q) THEN scur ELSE NoSong
    /\ changed' = link

\* Another client edits the queue.
ServerEdit ==
    /\ \E q \in Queues \ {squeue} : ServerSet(q, 1)
    /\ UNCHANGED <<link, permitted, conn, idle, pc, cmd, replicaVars>>

\* MPD plays another song, or stops.
ServerPlay ==
    /\ \E s \in ((Songs(squeue) \cap Playable) \cup {NoSong}) \ {scur} : scur' = s
    /\ changed' = link
    /\ UNCHANGED <<squeue, sstamp, sversion, link, permitted, conn, idle, pc, cmd, replicaVars>>

\* The connection breaks or times out.
LinkDown ==
    /\ link
    /\ link' = FALSE
    /\ changed' = FALSE
    /\ UNCHANGED <<serverVars, permitted, conn, idle, pc, cmd, replicaVars>>

\* MPD restarts: it numbers its queue versions from 1 again.
ServerRestart ==
    /\ sversion > 1
    /\ link' = FALSE
    /\ changed' = FALSE
    /\ sversion' = 1
    /\ sstamp' = [p \in DOMAIN squeue |-> 1]
    /\ scur' = NoSong
    /\ UNCHANGED <<squeue, permitted, conn, idle, pc, cmd, replicaVars>>

-----------------------------------------------------------------------------
(* The client.                                                             *)

NoCommand == [op |-> "none"]

\* The commands the user can give for the queue on the screen: with the song
\* that is meant, or with the positions that the code passes on.
UserCommands ==
    LET n == Len(items)
        all == [op : {"clear", "crop", "update"}]
               \cup {[op |-> "add", uri |-> u] : u \in Uri}
               \cup {[op |-> "deleteUri", uri |-> u] : u \in Uri}
               \cup {[op |-> "play", song |-> items[i]] : i \in 1..n}
               \cup {[op |-> "delete", lo |-> r[1], hi |-> r[2]] :
                        r \in {s \in (0..n) \X (1..n) : s[1] < s[2]}}
               \cup {[op |-> "move", dest |-> r[1], src |-> r[2]] :
                        r \in (0..(n - 1)) \X (0..(n - 1))}
    IN  {c \in all : c.op \in Commands}

\* mpdclient::Disconnect
Disconnect ==
    /\ conn' = FALSE
    /\ idle' = FALSE
    /\ pc' = "ready"
    /\ cmd' = NoCommand
    /\ items' = <<>>
    /\ version' = 0
    /\ status' = Null
    /\ current' = NoSong

\* A connection is established; OnMpdConnected() calls Update().
Connected ==
    /\ ~conn
    /\ conn' = TRUE
    /\ link' = TRUE
    /\ permitted' \in BOOLEAN
    /\ changed' = FALSE
    /\ idle' = FALSE
    /\ pc' = "status"
    /\ UNCHANGED <<serverVars, cmd, replicaVars>>

\* A request, or waiting for an idle event, meets the broken connection.
ConnectionLost ==
    /\ conn
    /\ ~link
    /\ idle \/ pc # "ready"
    /\ Disconnect
    /\ permitted' = FALSE
    /\ UNCHANGED <<serverVars, link, changed>>

\* OnEnterIdleTimer (after a refused "status" the password dialog blocks it)
EnterIdle ==
    /\ conn /\ ~idle /\ pc = "ready" /\ permitted
    /\ idle' = TRUE
    /\ UNCHANGED <<serverVars, link, permitted, changed, conn, pc, cmd, replicaVars>>

\* mutant: the events are taken, but nothing is updated
OnIdleOnly ==
    /\ conn /\ link /\ idle /\ changed
    /\ idle' = FALSE
    /\ changed' = FALSE
    /\ UNCHANGED <<serverVars, link, permitted, conn, pc, cmd, replicaVars>>

\* MpdIdleSource reports events: OnIdle() leaves idle mode and calls Update().
OnIdle ==
    /\ conn /\ link /\ idle /\ changed
    /\ idle' = FALSE
    /\ changed' = FALSE
    /\ pc' = "status"
    /\ UNCHANGED <<serverVars, link, permitted, conn, cmd, replicaVars>>

\* mutant: the idle events that "noidle" yields are lost
GiveCommandOnly ==
    /\ conn /\ pc = "ready"
    /\ \E c \in UserCommands : cmd' = c
    /\ pc' = "command"
    /\ changed' = (changed /\ ~idle)
    /\ idle' = FALSE
    /\ UNCHANGED <<serverVars, link, permitted, conn, replicaVars>>

\* The user gives a command, or the update timer fires ("update").
\* GetConnection() leaves idle mode, and if that yields idle events, a nested
\* OnIdle() updates the replica before the command is sent.
GiveCommand ==
    /\ conn /\ pc = "ready"
    /\ \E c \in UserCommands : cmd' = c
    /\ pc' = IF idle /\ changed THEN "status" ELSE "command"
    /\ changed' = (changed /\ ~idle)
    /\ idle' = FALSE
    /\ UNCHANGED <<serverVars, link, permitted, conn, replicaVars>>

\* What follows an Update(): the command it was nested in, if any.
AfterUpdate == pc' = IF cmd = NoCommand THEN "ready" ELSE "command"

\* a password is accepted: AuthenticationFinished() calls Update()
AuthenticationFinished ==
    /\ conn /\ ~idle /\ pc = "ready" /\ ~permitted
    /\ permitted' = TRUE
    /\ pc' = "status"
    /\ UNCHANGED <<serverVars, link, changed, conn, idle, cmd, replicaVars>>

\* The reply to "status"
ServerStatus == [version |-> sversion, length |-> Len(squeue), pos |-> PosOf(squeue, scur)]

\* mutant: the song is looked up only when there was none
UpdateCurrentOnce(q, old, st) == IF old = NoSong THEN GetChecked(q, st.pos) ELSE old

\* The last lines of Update()
UpdateCurrent(q, old, st) ==
    IF old = NoSong \/ st.pos >= 0 THEN GetChecked(q, st.pos) ELSE old

\* Update(): the "status" request
RunStatus ==
    /\ conn /\ link /\ pc = "status" /\ permitted
    /\ status' = ServerStatus
    /\ IF version # sversion
         THEN pc' = "queue" /\ UNCHANGED current
         ELSE AfterUpdate /\ current' = UpdateCurrent(items, current, ServerStatus)
    /\ UNCHANGED <<serverVars, link, permitted, changed, conn, idle, cmd, items, version>>

\* Update(): MPD refuses "status" and the password dialog opens
StatusRefused ==
    /\ conn /\ link /\ pc = "status" /\ ~permitted
    /\ status' = Null
    /\ AfterUpdate
    /\ UNCHANGED <<serverVars, link, permitted, changed, conn, idle, cmd, items, version, current>>

\* UpdateQueue(): load the whole queue, then finish Update()
UpdateQueue ==
    /\ conn /\ link /\ pc = "queue" /\ items = <<>>
    /\ items' = squeue
    /\ version' = status.version
    /\ current' = UpdateCurrent(items', NoSong, status)
    /\ AfterUpdate
    /\ UNCHANGED <<serverVars, link, permitted, changed, conn, idle, cmd, status>>

\* the positions "plchanges" returns for version v
Changes(v) == {p \in 1..Len(squeue) : sstamp[p] > v}

\* mutant: the tail is not cut off
AppliedChangesUncut ==
    LET n == Len(items)
        new == {p \in Changes(version) : p > n}
    IN  [p \in 1..(n + Cardinality(new)) |->
            IF p > n THEN squeue[NthSmallest(new, p - n)]
            ELSE IF p \in Changes(version) THEN squeue[p]
            ELSE items[p]]

\* The replica after "plchanges": songs at known positions are replaced, the
\* others appended in the order they come, and the tail beyond the length in
\* the status is cut off.
AppliedChanges ==
    LET n == Len(items)
        new == {p \in Changes(version) : p > n}
    IN  [p \in 1..Smaller(n + Cardinality(new), status.length) |->
            IF p > n THEN squeue[NthSmallest(new, p - n)]
            ELSE IF p \in Changes(version) THEN squeue[p]
            ELSE items[p]]

\* UpdateQueueChanges(), then the end of Update()
UpdateQueueChanges ==
    /\ conn /\ link /\ pc = "queue" /\ items # <<>>
    /\ items' = AppliedChanges
    /\ version' = status.version
    /\ current' = UpdateCurrent(items', NoSong, status)
    /\ AfterUpdate
    /\ UNCHANGED <<serverVars, link, permitted, changed, conn, idle, cmd, status>>

-----------------------------------------------------------------------------
(* The commands.  Each is one command list (or one command), which the     *)
(* server executes without interruption.                                   *)

\* the client may send the command op
Sends(op) == conn /\ link /\ pc = "command" /\ cmd.op = op

Return ==
    /\ pc' = "ready"
    /\ cmd' = NoCommand
    /\ UNCHANGED <<link, permitted, conn, idle>>

\* the "status" in the reply of a command that left the queue as q
StatusAfter(q, n) ==
    [version |-> sversion + n, length |-> Len(q),
     pos |-> PosOf(q, IF scur \in Songs(q) THEN scur ELSE NoSong)]

\* mutant: only the length is compared
CheapRouteByLength(q, n, expected) == Len(q) = expected

\* The command leaves the server's queue as q, n versions later.  The cheap
\* route: when the new length and version are the expected ones, nobody else
\* has changed the queue and the same edit is applied to the replica.
CheapRoute(q, n, expected) == Len(q) = expected /\ sversion + n = version + n

QueueCommand(q, n, expected, edited) ==
    /\ ServerSet(q, n)
    /\ status' = StatusAfter(q, n)
    /\ IF CheapRoute(q, n, expected)
         THEN items' = edited /\ version' = sversion + n
         ELSE UNCHANGED <<items, version>>

\* RunAdd.  MPD appends the song under a new id; the client asks for the song
\* at the position it expects it at.
RunAdd ==
    /\ Sends("add")
    /\ status # Null
    /\ \E s \in Song \ Songs(squeue) :
          LET q == Append(squeue, s)
              size == Len(items)
          IN  /\ UriOf[s] = cmd.uri
              /\ QueueCommand(q, 1, size + 1, Append(items, q[size + 1]))
    /\ UNCHANGED current
    /\ Return

\* RunDeleteRange of one song: RunDelete, by id
RunDelete ==
    /\ Sends("delete")
    /\ cmd.hi = cmd.lo + 1
    /\ status # Null
    /\ cmd.lo < Len(items)
    /\ LET s == items[cmd.lo + 1]
           k == PosOf(squeue, s)
           q == WithoutRange(squeue, k, k + 1)
       IN  /\ k >= 0
           /\ QueueCommand(q, 1, Len(items) - 1, WithoutRange(items, cmd.lo, cmd.hi))
           /\ current' = IF CheapRoute(q, 1, Len(items) - 1) /\ current = s
                           THEN NoSong ELSE current
    /\ Return

\* RunDeleteRange of several songs, by position; MPD clips the range
RunDeleteRange ==
    /\ Sends("delete")
    /\ cmd.hi # cmd.lo + 1
    /\ cmd.lo < Len(squeue)
    /\ LET q == WithoutRange(squeue, cmd.lo, Smaller(cmd.hi, Len(squeue)))
           expected == Len(items) - (cmd.hi - cmd.lo)
       IN  /\ QueueCommand(q, 1, expected, WithoutRange(items, cmd.lo, cmd.hi))
           /\ current' = IF /\ CheapRoute(q, 1, expected)
                            /\ current \in {items[i] : i \in (cmd.lo + 1)..cmd.hi}
                           THEN NoSong ELSE current
    /\ Return

\* mutant: one song less is expected, however many were deleted
RunDeleteUriOne ==
    /\ Sends("deleteUri")
    /\ LET S == {s \in Songs(items) : UriOf[s] = cmd.uri}
           n == Cardinality({p \in DOMAIN items : items[p] \in S})
       IN  /\ S # {}
           /\ S \subseteq Songs(squeue)
           /\ Cardinality(S) = n
           /\ QueueCommand(WithoutSongs(squeue, S), n, Len(items) - 1, WithoutSongs(items, S))
    /\ UNCHANGED current
    /\ Return

\* RunDeleteUri: one "deleteid" for each local song with this URI.  The loop
\* does not look at current_song.
RunDeleteUri ==
    /\ Sends("deleteUri")
    /\ LET S == {s \in Songs(items) : UriOf[s] = cmd.uri}
           n == Cardinality({p \in DOMAIN items : items[p] \in S})
       IN  /\ S # {}
           /\ S \subseteq Songs(squeue)
           /\ Cardinality(S) = n
           /\ QueueCommand(WithoutSongs(squeue, S), n, Len(items) - n, WithoutSongs(items, S))
    /\ UNCHANGED current
    /\ Return

\* RunMove, by position
RunMove ==
    /\ Sends("move")
    /\ cmd.dest # cmd.src
    /\ cmd.dest < Len(squeue) /\ cmd.src < Len(squeue)
    /\ QueueCommand(ServerMove(squeue, cmd.dest, cmd.src), 1, Len(items),
                    Move(items, cmd.dest, cmd.src))
    /\ UNCHANGED current
    /\ Return

\* RunClearQueue: here only the length is compared
RunClearQueue ==
    /\ Sends("clear")
    /\ ServerSet(<<>>, 1)
    /\ status' = StatusAfter(<<>>, 1)
    /\ items' = <<>>
    /\ version' = sversion + 1
    /\ current' = NoSong
    /\ Return

\* mpdclient_cmd_crop: positions from the last status, no status in the reply;
\* the songs after the current one go first, then those before it
Crop ==
    /\ Sends("crop")
    /\ status # Null /\ status.pos >= 0 /\ status.length >= 2
    /\ LET pos == status.pos
           tail == pos < status.length - 1
           q == IF tail
                  THEN WithoutRange(squeue, pos + 1, Smaller(status.length, Len(squeue)))
                  ELSE squeue
       IN  /\ tail => pos + 1 < Len(squeue)
           /\ q # <<>>
           /\ ServerSet(WithoutRange(q, 0, Smaller(pos, Len(q))),
                        IF tail /\ pos > 0 THEN 2 ELSE 1)
    /\ Return
    /\ UNCHANGED replicaVars

\* Play the song the cursor was on when the key was pressed, by id
PlaySong ==
    /\ Sends("play")
    /\ cmd.song \in Songs(squeue)
    /\ scur' = cmd.song
    /\ changed' = TRUE
    /\ Return
    /\ UNCHANGED <<squeue, sstamp, sversion, replicaVars>>

\* the update timer: Update() itself, after the nested one
UpdateTimer ==
    /\ Sends("update")
    /\ pc' = "status"
    /\ cmd' = NoCommand
    /\ UNCHANGED <<serverVars, link, permitted, changed, conn, idle, replicaVars>>

\* Nothing to do (an early return), or MPD refuses the command: the replica
\* is left alone.  What a refused command list did to the queue before it
\* failed is another ServerEdit.
CommandRefused ==
    /\ conn /\ link /\ pc = "command" /\ cmd.op # "update"
    /\ Return
    /\ UNCHANGED <<serverVars, changed, replicaVars>>

-----------------------------------------------------------------------------
Init ==
    /\ squeue \in Queues
    /\ sversion = 1
    /\ sstamp = [p \in DOMAIN squeue |-> 1]
    /\ scur = NoSong
    /\ link = FALSE /\ permitted = FALSE /\ changed = FALSE
    /\ conn = FALSE /\ idle = FALSE /\ pc = "ready" /\ cmd = NoCommand
    /\ items = <<>> /\ version = 0 /\ status = Null /\ current = NoSong

Update == RunStatus \/ StatusRefused \/ UpdateQueue \/ UpdateQueueChanges

SendCommand ==
    \/ RunAdd \/ RunDelete \/ RunDeleteRange \/ RunDeleteUri \/ RunMove
    \/ RunClearQueue \/ Crop \/ PlaySong \/ UpdateTimer \/ CommandRefused

Next ==
    \/ ServerEdit \/ ServerPlay \/ LinkDown \/ ServerRestart
    \/ Connected \/ ConnectionLost \/ EnterIdle \/ OnIdle
    \/ GiveCommand \/ AuthenticationFinished
    \/ Update \/ SendCommand

Spec == Init /\ [][Next]_vars

\* The client's own steps are fair: it never waits for the user in the middle
\* of a request.  Entering idle mode is strongly fair: its timer is run once
\* in every iteration of the event loop, before any further input.
FairSpec ==
    /\ Spec
    /\ WF_vars(Connected) /\ WF_vars(ConnectionLost) /\ WF_vars(OnIdle)
    /\ SF_vars(EnterIdle) /\ WF_vars(Update) /\ WF_vars(SendCommand)

-----------------------------------------------------------------------------
(* Properties.                                                             *)

CommandRecords ==
    [op : {"none", "clear", "crop", "update"}]
    \cup [op : {"add", "deleteUri"}, uri : Uri]
    \cup [op : {"play"}, song : Song]
    \cup [op : {"delete"}, lo : Nat, hi : Nat]
    \cup [op : {"move"}, dest : Nat, src : Nat]

\* The types of the variables.
TypeOK ==
    /\ squeue \in Queues
    /\ sstamp \in [1..Len(squeue) -> 1..sversion]
    /\ sversion \in 1..MaxVersion
    /\ scur \in Song \cup {NoSong}
    /\ {link, permitted, changed, conn, idle} \subseteq BOOLEAN
    /\ pc \in {"ready", "status", "queue", "command"}
    /\ cmd \in CommandRecords
    /\ items \in Seq(Song)
    /\ version \in Nat
    /\ status \in Statuses \cup {Null}
    /\ current \in Song \cup {NoSong}

\* The client believes to be up to date.
UpToDate == conn /\ link /\ version = sversion

\* The point of queue versions: whenever the replica carries the server's
\* version, it is the server's queue.  Both Update() and the cheap routes of
\* the Run* commands rest on it (mpdclient.cxx:456, 660, 707, 755, 815, 861).
InSync == UpToDate => items = squeue

Covers(v, q) ==
    \A p \in 1..Len(squeue) : sstamp[p] <= v => p <= Len(q) /\ q[p] = squeue[p]

\* Why it holds.  A replica may lag behind (version < sversion); then its
\* content is only guaranteed where the server has not stamped a position
\* since, and its length not at all.  While Update() waits for the queue, the
\* same is true of the length in the status it holds.
ReplicaInv ==
    /\ ~conn => items = <<>> /\ version = 0 /\ ~link
    /\ link => /\ version <= sversion
               /\ Covers(version, items)
               /\ version = sversion => Len(items) = Len(squeue)
    /\ pc = "queue" => status # Null
    /\ link /\ pc = "queue" =>
         /\ version <= status.version /\ status.version <= sversion
         /\ \A p \in 1..Len(squeue) : sstamp[p] <= status.version => p <= status.length
         /\ status.version = sversion => status.length = Len(squeue)

\* No change is lost between two idle periods, however the nested updates,
\* commands and edits of other clients interleave: when the client has nothing
\* left to do and MPD no event to report, the replica is the server's queue.
NoMissedUpdate ==
    conn /\ link /\ permitted /\ pc = "ready" /\ ~changed => items = squeue

\* ... and current_song is the song MPD plays, when it plays one.
CurrentFollows ==
    conn /\ link /\ permitted /\ pc = "ready" /\ ~changed /\ scur # NoSong
        => current = scur

\* current_song points into the playlist ("remove references to the song",
\* mpdclient.cxx:717 and 766).
CurrentValid == current \in Songs(items) \cup {NoSong}

\* Whenever the client has come to rest, current_song is right; and it is never a pointer to a
\* song that has been freed.
CurrentSongRight == CurrentFollows /\ CurrentValid

\* A command of one's own needs no reload: a replica that was up to date when
\* the command was sent is up to date when it has returned ("we can keep our
\* local playlist copy in sync").  mpdclient_cmd_crop does not ask for it, and
\* a range that a nested update has made too long is clipped by MPD only.
CheapRouteKeepsUp ==
    [][UpToDate /\ pc = "command" /\ pc' = "ready" /\ conn' /\ cmd.op # "crop"
       /\ (cmd.op = "delete" => cmd.hi <= Len(items))
         => version' = sversion']_vars

\* Once the connection stays usable, the replica catches up again and again.
Converges == <>[](link /\ permitted) => []<>(UpToDate /\ items = squeue)
=============================================================================
