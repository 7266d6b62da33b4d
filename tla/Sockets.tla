------------------------------- MODULE Sockets -------------------------------
(***************************************************************************)
(* Socket events (event/SocketEvent.cxx) in the event loop                 *)
(* (event/Loop.cxx) and its backend for poll(2) (event/PollBackend.cxx):   *)
(* the sockets one poll has found ready are dispatched one after the       *)
(* other, and each callback may reschedule, close and reopen any of them,  *)
(* the one to be dispatched next included, with the same descriptor.       *)
(*                                                                         *)
(* A set of flags stands for a bit mask.  "fault" is ERROR and HANGUP,     *)
(* which are reported even if they were not asked for.  Nothing calls      *)
(* Abandon().                                                              *)
(***************************************************************************)
EXTENDS Integers, FiniteSets, SequencesExt

CONSTANTS
    Events,         \* the SocketEvent objects
    Descriptors     \* file descriptor numbers

ASSUME DescriptorAssumption == Descriptors \subseteq Nat

VARIABLE sockets

Undefined == -1
Implicit == {"fault"}
Flags == {"read", "write", "fault"}
NoEvent == [fd |-> Undefined, scheduled |-> {}, ready |-> {}, asof |-> FALSE]

\* `asof': the ready flags were reported for the socket the event has now.
SocketsInit ==
    sockets = [event |-> [e \in Events |-> NoEvent],
               list |-> <<>>, queue |-> <<>>,           \* EventLoop::sockets, ready_sockets
               poll |-> <<>>, items |-> <<>>,           \* PollBackend::poll_events, items
               open |-> {},                             \* the kernel's
               phase |-> "callbacks", quit |-> FALSE]

NthSmallest(K, n) == CHOOSE p \in K : Cardinality({r \in K : r <= p}) = n

\* The entries of q at the positions in K, in their order
Picked(q, K) == [n \in 1..Cardinality(K) |-> q[NthSmallest(K, n)]]

Without(q, S) == Picked(q, {i \in DOMAIN q : q[i] \notin S})

-----------------------------------------------------------------------------
(* PollBackend *)

PollAdd(s, d, flags, e) ==
    [s EXCEPT !.poll = Append(@, [fd |-> d, events |-> flags]),
              !.items = [k \in DOMAIN @ \cup {d} |->
                            IF k = d THEN [index |-> Len(s.poll) + 1, obj |-> e] ELSE s.items[k]]]

PollModify(s, d, flags, e) ==
    [s EXCEPT !.items[d].obj = e, !.poll[s.items[d].index].events = flags]

Gap(q, i) == SubSeq([q EXCEPT ![i] = q[Len(q)]], 1, Len(q) - 1)

\* Remove(): the last entry takes the place of the removed one.
PollRemove(s, d) ==
    LET i == s.items[d].index
    IN  [s EXCEPT !.poll = Gap(@, i),
                  !.items = [k \in DOMAIN @ \ {d} |->
                                IF k = Last(s.poll).fd THEN [s.items[k] EXCEPT !.index = i]
                                ELSE s.items[k]]]

\* What the backend watches
Watched(s) == {<<s.poll[i].fd, s.poll[i].events, s.items[s.poll[i].fd].obj>> : i \in DOMAIN s.poll}

-----------------------------------------------------------------------------
(* EventLoop and SocketEvent *)

AddFD(s, e, flags) == [PollAdd(s, s.event[e].fd, flags, e) EXCEPT !.list = Append(@, e)]

\* Mutant: unlinked from one list only.
RemoveFDListed(s, e) == [PollRemove(s, s.event[e].fd) EXCEPT !.list = Without(@, {e})]

\* RemoveFD(): unlinked from the list it is in.
RemoveFD(s, e) ==
    [PollRemove(s, s.event[e].fd) EXCEPT !.list = Without(@, {e}), !.queue = Without(@, {e})]

ScheduleFlags(s, e, flags) ==
    LET old == s.event[e]
        new == IF flags = {} THEN {} ELSE flags \cup Implicit
        changed == IF old.scheduled = {} THEN AddFD(s, e, new)
                   ELSE IF new = {} THEN RemoveFD(s, e)
                   ELSE PollModify(s, old.fd, new, e)
    IN  IF new = old.scheduled THEN s ELSE [changed EXCEPT !.event[e].scheduled = new]

CancelEvent(s, e) == ScheduleFlags(s, e, {})

\* Callbacks run until the loop sleeps; one that ends the loop returns, and then sockets are
\* only closed, by destructors.
InCallback == sockets.phase = "callbacks" /\ ~sockets.quit

OpenSocket ==
    /\ InCallback
    /\ \E e \in Events, d \in Descriptors \ sockets.open :
          /\ sockets.event[e].fd = Undefined
          /\ sockets' = [sockets EXCEPT !.event[e].fd = d, !.event[e].asof = FALSE,
                                        !.open = @ \cup {d}]

\* Close(), and ReleaseSocket() when the new owner closes the socket
CloseSocket ==
    /\ sockets.phase = "callbacks"
    /\ \E e \in Events :
          LET d == sockets.event[e].fd
          IN  /\ d # Undefined
              /\ sockets' = [CancelEvent(sockets, e) EXCEPT !.event[e].fd = Undefined,
                                                       !.open = @ \ {d}]

\* ReleaseSocket(): another event takes the socket over, as MpdIdleSource does.
HandOver ==
    /\ InCallback
    /\ \E e, f \in Events :
          LET d == sockets.event[e].fd
          IN  /\ d # Undefined /\ sockets.event[f].fd = Undefined
              /\ sockets' = [CancelEvent(sockets, e) EXCEPT !.event[e].fd = Undefined,
                                                       !.event[f].fd = d, !.event[f].asof = FALSE]

\* ScheduleRead(), ScheduleWrite()
ScheduleMore ==
    /\ InCallback
    /\ \E e \in Events, flag \in {"read", "write"} :
          /\ sockets.event[e].fd # Undefined
          /\ sockets' = ScheduleFlags(sockets, e, sockets.event[e].scheduled \cup {flag})

ScheduleImplicit ==
    /\ InCallback
    /\ \E e \in Events : sockets.event[e].fd # Undefined /\ sockets' = ScheduleFlags(sockets, e, Implicit)

\* CancelRead(), CancelWrite(): without ERROR and HANGUP, so that nothing may be left
CancelSome ==
    /\ InCallback
    /\ \E e \in Events, flag \in {"read", "write"} :
          /\ sockets.event[e].fd # Undefined
          /\ sockets' = ScheduleFlags(sockets, e, sockets.event[e].scheduled \ ({flag} \cup Implicit))

\* CancelOnlyRead(), CancelOnlyWrite()
CancelOnly ==
    /\ InCallback
    /\ \E e \in Events, flag \in {"read", "write"} :
          /\ sockets.event[e].fd # Undefined
          /\ sockets' = ScheduleFlags(sockets, e, sockets.event[e].scheduled \ {flag})

Break == InCallback /\ sockets' = [sockets EXCEPT !.quit = TRUE]

-----------------------------------------------------------------------------
(* EventLoop::Run() *)

\* Timers and deferred events have run; without any event left, the loop ends.
Sleep ==
    /\ sockets.phase = "callbacks" /\ sockets.queue = <<>> /\ ~sockets.quit
    /\ sockets' = [sockets EXCEPT !.phase = "poll"]

\* ReadEvents(): what poll(2) may find, of each entry found ready; a timer may end it with none.
Reports(s) ==
    UNION {{r \in [found -> SUBSET Flags \ {{}}] : \A i \in found : r[i] \subseteq s.poll[i].events} :
              found \in SUBSET DOMAIN s.poll}

\* Poll(): those which are ready move to the other list.
PollSockets ==
    /\ sockets.phase = "poll"
    /\ \E report \in Reports(sockets) :
          LET obj(i) == sockets.items[sockets.poll[i].fd].obj
              queue == Picked([i \in DOMAIN sockets.poll |-> obj(i)], DOMAIN report)
              revents(e) == report[CHOOSE i \in DOMAIN report : obj(i) = e]
          IN  sockets' = [sockets EXCEPT
                    !.event = [e \in Events |->
                                  IF e \in Range(queue)
                                  THEN [sockets.event[e] EXCEPT !.ready = revents(e), !.asof = TRUE]
                                  ELSE sockets.event[e]],
                    !.list = Without(@, Range(queue)),
                    !.queue = Without(@, Range(queue)) \o queue,
                    !.phase = "dispatch"]

\* Dispatch(): what was reported and not cancelled meanwhile
Wanted(s, e) == s.event[e].ready \cap s.event[e].scheduled

\* Dispatch() of the first in the queue: its callback runs until the next one is dispatched.
DispatchSocket ==
    /\ sockets.phase \in {"dispatch", "callbacks"} /\ sockets.queue # <<>> /\ ~sockets.quit
    /\ LET e == Head(sockets.queue)
       IN  sockets' = [sockets EXCEPT !.queue = Tail(@), !.list = Append(@, e),
                                      !.event[e].ready = {},
                                      !.phase = IF Wanted(sockets, e) = {} THEN "dispatch" ELSE "callbacks"]

DispatchNone ==
    sockets.phase = "dispatch" /\ sockets.queue = <<>> /\ sockets' = [sockets EXCEPT !.phase = "callbacks"]

LoopStep == Sleep \/ PollSockets \/ DispatchSocket \/ DispatchNone

SocketsNext ==
    \/ OpenSocket \/ CloseSocket \/ HandOver \/ Break
    \/ ScheduleMore \/ ScheduleImplicit \/ CancelSome \/ CancelOnly
    \/ LoopStep

\* No callback runs forever.
SocketsFairness == WF_sockets(LoopStep)

SocketsSpec == SocketsInit /\ [][SocketsNext]_sockets /\ SocketsFairness

-----------------------------------------------------------------------------
(* Properties *)

\* Types; what is registered with the backend is open: no socket is closed before it is
\* unregistered, and a number that is reused does not belong to two events.
SocketsTypeOK ==
    /\ DOMAIN sockets.items \subseteq sockets.open /\ sockets.open \subseteq Descriptors
    /\ \A d \in sockets.open : \E e \in Events :
          \A f \in Events : sockets.event[f].fd = d <=> f = e
    /\ \A e \in Events :
          /\ sockets.event[e].fd \in sockets.open \cup {Undefined}
          /\ sockets.event[e].scheduled \in SUBSET Flags /\ sockets.event[e].ready \in SUBSET Flags
    /\ Range(sockets.list) \cup Range(sockets.queue) \subseteq Events
    /\ sockets.phase \in {"callbacks", "poll", "dispatch"}

\* The backend's table, kept dense by moving its last entry into the gap, watches exactly the
\* sockets of the scheduled events, each with its event's flags and reported to its event; the
\* assertions of PollBackend.cxx.
WatchesTheScheduled ==
    /\ Watched(sockets) = {<<sockets.event[e].fd, sockets.event[e].scheduled, e>> :
                               e \in {f \in Events : sockets.event[f].scheduled # {}}}
    /\ DOMAIN sockets.items = {p.fd : p \in Range(sockets.poll)}
    /\ \A i \in DOMAIN sockets.poll : sockets.items[sockets.poll[i].fd].index = i

\* An event is in one of the loop's two lists, once, exactly while it is scheduled.
LinkedWhileScheduled ==
    LET both == sockets.list \o sockets.queue
    IN  IsInjective(both) /\ Range(both) = {e \in Events : sockets.event[e].scheduled # {}}

\* A callback that closes the socket of an event already found ready, and opens another one with
\* the same number, does not leave the old report to be dispatched for the new socket.
ReportIsOfThisSocket ==
    \A e \in Range(sockets.queue) : sockets.event[e].fd # Undefined /\ sockets.event[e].asof

\* A socket found ready gets its turn, whatever the callbacks of the others do, unless one of them
\* cancels it or ends the loop.
ReadyGetsItsTurn ==
    \A e \in Events :
        e \in Range(sockets.queue) ~> (e \notin Range(sockets.queue) \/ sockets.quit)

\* The poll set and the queue of ready sockets agree with what is scheduled.
SocketsSound == SocketsTypeOK /\ WatchesTheScheduled /\ LinkedWhileScheduled /\ ReportIsOfThisSocket
=============================================================================
