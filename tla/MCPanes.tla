-------------------------------- MODULE MCPanes --------------------------------
(***************************************************************************)
(* Instances, for TLC, of the client's connection and of the pages and     *)
(* commands which read and change what MPD keeps beside its files: the     *)
(* queue page, the player, the outputs and partitions, the chat, and the   *)
(* bars at the bottom of the screen.  Each of these modules has its own    *)
(* picture of the client, so one run checks them side by side: "pane" is   *)
(* the one that works, the others rest.                                    *)
(***************************************************************************)
EXTENDS MpdClient, QueuePage, Playback, Outputs, Chat, StatusBar, TLC

\* The second song takes two steps of "seek_time".
SongDurations == 1 :> 1 @@ 2 :> 2

VARIABLE pane

\* A part that rests has one initial state.
PanesInit ==
    /\ pane \in {"client", "queue", "player", "outputs", "chat", "bar"}
    /\ Init /\ QueuePageInit /\ PlaybackInit /\ OutputsInit /\ ChatInit
    /\ BarInit /\ (pane # "bar" => bar.window = 4)
    /\ pane # "outputs" => outs.parted

PanesNext ==
    /\ UNCHANGED pane
    /\ \/ pane = "client" /\ Next /\ UNCHANGED <<queuePage, player, outs, chat, bar>>
       \/ pane = "queue" /\ QueuePageNext /\ UNCHANGED <<s, player, outs, chat, bar>>
       \/ pane = "player" /\ PlaybackNext /\ UNCHANGED <<s, queuePage, outs, chat, bar>>
       \/ pane = "outputs" /\ OutputsNext /\ UNCHANGED <<s, queuePage, player, chat, bar>>
       \/ pane = "chat" /\ ChatNext /\ UNCHANGED <<s, queuePage, player, outs, bar>>
       \/ pane = "bar" /\ BarNext /\ UNCHANGED <<s, queuePage, player, outs, chat>>

PanesSpec == PanesInit /\ [][PanesNext]_<<s, queuePage, player, outs, chat, bar, pane>>
=============================================================================
