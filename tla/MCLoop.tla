-------------------------------- MODULE MCLoop --------------------------------
(***************************************************************************)
(* Instances, for TLC, of the event loop with its timers and of what one   *)
(* of them is for: the connection to the Avahi daemon, and the servers it  *)
(* finds.  The two share no variable, so one run checks them side by side: *)
(* "watched" is the one that works, the other rests.                       *)
(***************************************************************************)
EXTENDS EventLoop, Connections

CONSTANTS wlan, lan      \* servers

\* One host is announced on two interfaces.
ServerNames == [k \in {wlan, lan} |-> "attic"]

VARIABLE watched

LoopInit ==
    /\ watched \in {"loop", "servers"}
    /\ Init /\ (watched # "loop" => time = 1)
    /\ ConnectionsInit /\ (watched # "servers" => conns.items = <<Default>>)

LoopNext ==
    /\ UNCHANGED watched
    /\ \/ watched = "loop" /\ Next /\ UNCHANGED conns
       \/ watched = "servers" /\ ConnectionsNext /\ UNCHANGED vars

LoopSpec == LoopInit /\ [][LoopNext]_<<vars, conns, watched>>
=============================================================================
