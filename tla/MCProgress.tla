------------------------------ MODULE MCProgress ------------------------------
(***************************************************************************)
(* Instances, for TLC, of the replica of MPD's queue and of the lyrics     *)
(* page with its chain of plugins.  One run checks their safety side by    *)
(* side, another what they must get to: "part" is the one that works, the  *)
(* others rest.  The replica works with two songs of one file, which may   *)
(* be played, or else ("edits") with three, for ranges and removal by URI. *)
(***************************************************************************)
EXTENDS QueueSync, Lyrics, TLC

CONSTANTS s1, s2, s3, u1, u2,
          p1, p2        \* plugins

\* s1 and s2 are two queue entries of the same file
MCUriOf == [s \in Song |-> IF s = s3 THEN u2 ELSE u1]

\* for the instances in which every song has the one URI
OneUri == [s \in Song |-> u1]

Symmetry == Permutations({s1, s2})

TwoPlugins == <<p1, p2>>

VARIABLE part

\* Bound: the queue version at which the server stops changing three songs
EditVersions == 3

\* Each part of the replica has songs, versions and commands of its own, and that with three
\* songs a connection that is not lost.
QueueBounds(queue, v, playing, c, up) ==
    /\ part = "queue" =>
         /\ s3 \notin Songs(queue)
         /\ c.op # "deleteUri" /\ (c.op = "add" => c.uri = u1)
    /\ part = "edits" =>
         /\ v <= EditVersions /\ playing = NoSong /\ up
         /\ c.op \in {"none", "delete", "deleteUri", "move"}
    /\ part = "lyrics" => queue = <<>>

ProgressInit ==
    /\ part \in {"queue", "edits", "lyrics"}
    /\ Init /\ QueueBounds(squeue, sversion, scur, cmd, TRUE)
    /\ LyricsInit /\ (part # "lyrics" => playingSong = NoTrack /\ lyrics.limit /\ lyrics.eintr)

ProgressNext ==
    /\ UNCHANGED part
    /\ \/ part # "lyrics" /\ Next /\ QueueBounds(squeue', sversion', scur', cmd', link')
         /\ UNCHANGED lyricsVars
       \/ part = "lyrics" /\ LyricsNext /\ UNCHANGED vars
       \/ lyrics.hung /\ UNCHANGED <<vars, lyricsVars>>     \* the program waits for ever

all == <<vars, lyricsVars>>

\* A page without a timeout does nothing that one whose timer does not fire could not do.
SafetyInit == ProgressInit /\ lyrics.limit
SafetySpec == SafetyInit /\ [][ProgressNext]_<<all, part>>

\* What each module assumes, of the part that works
QueueStep(A) == part = "queue" /\ A /\ UNCHANGED <<lyricsVars, part>>
LyricsStep(A) == part = "lyrics" /\ A /\ UNCHANGED <<vars, part>>
ProgressFairness ==
    /\ WF_all(QueueStep(Connected)) /\ WF_all(QueueStep(ConnectionLost)) /\ WF_all(QueueStep(OnIdle))
    /\ SF_all(QueueStep(EnterIdle)) /\ WF_all(QueueStep(Update)) /\ WF_all(QueueStep(SendCommand))
    /\ WF_all(LyricsStep(OnTimeout)) /\ WF_all(LyricsStep(ChainStep))

CatchUpInit == ProgressInit /\ part # "edits"
ProgressSpec == CatchUpInit /\ [][ProgressNext]_<<all, part>> /\ ProgressFairness
=============================================================================
