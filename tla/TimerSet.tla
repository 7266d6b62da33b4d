------------------------------ MODULE TimerSet ------------------------------
(***************************************************************************)
(* What an event loop promises about its timers: none fires before it is   *)
(* due, and the loop never sleeps past the time at which one has to fire.  *)
(* A coarse timer may fire some time after it is due, so that timers which *)
(* are due about the same time share one wake-up.                          *)
(***************************************************************************)
EXTENDS Integers

CONSTANTS Timer,           \* the timers
          Nobody,          \* no timer
          Deadline(_, _)   \* Deadline(t, due): when t has to fire at last

VARIABLES clock,    \* the time
          pending,  \* when each timer is due, or Stopped
          firing    \* the timer whose callback is running, or Nobody

Stopped == -1

IsPending(t) == pending[t] # Stopped

Init ==
    /\ clock \in Nat
    /\ pending = [t \in Timer |-> Stopped]
    /\ firing = Nobody

\* t is scheduled, or scheduled again.
Schedule(t) ==
    /\ pending'[t] >= clock
    /\ pending' = [pending EXCEPT ![t] = pending'[t]]
    /\ UNCHANGED <<clock, firing>>

Cancel(t) ==
    /\ IsPending(t)
    /\ pending' = [pending EXCEPT ![t] = Stopped]
    /\ UNCHANGED <<clock, firing>>

Fire(t) ==
    /\ firing = Nobody
    /\ IsPending(t) /\ pending[t] <= clock
    /\ pending' = [pending EXCEPT ![t] = Stopped]
    /\ firing' = t
    /\ UNCHANGED clock

Return ==
    /\ firing' = Nobody
    /\ UNCHANGED <<clock, pending>>

\* Sleep until clock' at most; nobody may be late.
Sleep ==
    /\ firing = Nobody
    /\ clock' >= clock
    /\ \A t \in Timer : IsPending(t) => clock' <= Deadline(t, pending[t])
    /\ UNCHANGED <<pending, firing>>

Next == Sleep \/ Return \/ \E t \in Timer : Schedule(t) \/ Cancel(t) \/ Fire(t)

Spec == Init /\ [][Next]_<<clock, pending, firing>>
=============================================================================
