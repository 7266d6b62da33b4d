------------------------------- MODULE Signals -------------------------------
(***************************************************************************)
(* Signals (event/SignalMonitor.cxx), as they are monitored without        *)
(* signalfd(2): the handler, which may run between any two steps of the    *)
(* main thread, marks the signal and wakes the event loop through a pipe   *)
(* (event/WakeFD.hxx) unless the signal is marked already; the loop        *)
(* empties the pipe and goes through the marks from the first to the last. *)
(***************************************************************************)
EXTENDS Integers

CONSTANT MaxSignal      \* the signals are 1..MaxSignal, those of a kind are one

ASSUME SignalAssumption == MaxSignal \in Nat

VARIABLE signals

Monitored == 1..MaxSignal
Idle == 0

\* `scan' is the next signal OnSocketReady() looks at; `sent' are those not handled since.
SignalsInit ==
    signals = [registered |-> {}, pending |-> {}, sent |-> {}, pipe |-> 0, scan |-> Idle,
               calling |-> FALSE, finished |-> FALSE]

Register ==
    /\ signals.scan = Idle /\ ~signals.finished
    /\ \E i \in Monitored \ signals.registered :
          signals' = [signals EXCEPT !.registered = @ \cup {i}]

SignalCallback ==
    \E i \in signals.registered :
        signals' = [signals EXCEPT !.pending = @ \cup {i}, !.sent = @ \cup {i},
                                   !.pipe = IF i \in signals.pending THEN @ ELSE @ + 1]

\* The event loop finds the pipe readable: fd.Read().
ReadWake ==
    /\ signals.scan = Idle /\ signals.pipe > 0 /\ ~signals.finished
    /\ signals' = [signals EXCEPT !.pipe = 0, !.scan = 1]

\* One turn of OnSocketReady()'s loop: the mark is taken back before the handler is called.
Look ==
    /\ signals.scan \in Monitored /\ ~signals.calling
    /\ LET i == signals.scan
       IN  signals' = IF i \in signals.pending
                      THEN [signals EXCEPT !.pending = @ \ {i}, !.sent = @ \ {i}, !.calling = TRUE]
                      ELSE [signals EXCEPT !.scan = @ + 1]

\* Mutant: the mark is taken back when the signal has been handled.
HandlerReturnsClearing ==
    /\ signals.calling
    /\ signals' = [signals EXCEPT !.calling = FALSE, !.scan = @ + 1, !.pending = @ \ {signals.scan}]

HandlerReturns ==
    signals.calling /\ signals' = [signals EXCEPT !.calling = FALSE, !.scan = @ + 1]

\* Mutant: the pipe is emptied when the marks have been looked at, not before.
HandledAllDraining ==
    signals.scan > MaxSignal /\ signals' = [signals EXCEPT !.scan = Idle, !.pipe = 0]

HandledAll == signals.scan > MaxSignal /\ signals' = [signals EXCEPT !.scan = Idle]

\* SignalMonitorFinish(): nothing that is still pending is handled.
Finish ==
    /\ signals.scan = Idle /\ ~signals.finished
    /\ signals' = [signals EXCEPT !.registered = {}, !.pending = {}, !.finished = TRUE]

MonitorStep == ReadWake \/ Look \/ HandlerReturns \/ HandledAll

SignalsNext == Register \/ SignalCallback \/ MonitorStep \/ Finish

\* The event loop runs, and no handler runs forever.
SignalsFairness == WF_signals(MonitorStep)

SignalsSpec == SignalsInit /\ [][SignalsNext]_signals /\ SignalsFairness

-----------------------------------------------------------------------------
(* Properties *)

\* Types; as the pipe is written only for a signal not marked yet, it never holds more than two
\* bytes for each of them, and the write to it that goes unchecked cannot fail.
SignalsTypeOK ==
    /\ signals.pending \subseteq Monitored /\ signals.registered \subseteq Monitored
    /\ signals.scan \in 0..(MaxSignal + 1) /\ (signals.calling => signals.scan \in Monitored)
    /\ signals.pipe \in 0..(2 * MaxSignal)

\* Whenever a signal is marked, the pipe is readable or the loop is about to look at the mark,
\* in whatever step the signal came: none waits for the next one.
MarkedIsSeen ==
    \A i \in signals.pending : signals.pipe > 0 \/ signals.scan \in 1..(i - 1) \/ (signals.scan = i /\ ~signals.calling)

\* Every signal is handled, unless the monitor is finished first.
SignalIsHandled ==
    \A i \in Monitored : i \in signals.sent ~> (i \notin signals.sent \/ signals.finished)

\* A signal that is marked is one the loop will hear of.
SignalsSound == SignalsTypeOK /\ MarkedIsSeen
=============================================================================
