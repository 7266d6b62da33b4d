-------------------------- MODULE Services_proofs --------------------------
(***************************************************************************)
(* Proofs about what runs beneath the screen: socket events and the poll   *)
(* back end, the signal monitor, the attempts to connect and the dialogue  *)
(* of idle mode, for any numbers of events, signals, objects, descriptors  *)
(* and subsystems.                                                         *)
(*                                                                         *)
(* Each of them talks to somebody who does not wait: a signal handler that *)
(* interrupts, a resolver and a socket that fail within the call that made *)
(* them, MPD which leaves idle mode by itself.  So the invariants say what *)
(* may be on its way at each point, and not only what has arrived.         *)
(***************************************************************************)
EXTENDS Signals, AsyncConnect, IdleSource, Sockets,
        FiniteSetTheorems, SequenceTheorems, WellFoundedInduction, TLAPS

-----------------------------------------------------------------------------
(* Signals *)

\* The types of the monitor's state.
SignalRecords ==
    [registered : SUBSET Monitored, pending : SUBSET Monitored, sent : SUBSET Monitored, pipe : Nat,
     scan : 0..(MaxSignal + 1), calling : BOOLEAN, finished : BOOLEAN]

\* The marks OnSocketReady() has looked at since the pipe was emptied, or may have by now.
LookedAt ==
    IF signals.scan = Idle THEN MaxSignal ELSE IF signals.calling THEN signals.scan ELSE signals.scan - 1

\* Since the pipe was emptied, a byte has been written for each mark that is set and at most one
\* more for each mark that was taken back.
Bytes == signals.pipe <= Cardinality(signals.pending) + LookedAt

\* Nothing is marked once the monitor is finished, so that nothing is written any more.
AtAnEnd == signals.finished => signals.registered = {} /\ signals.pending = {} /\ signals.scan = Idle

\* What every step of the signals keeps.
SignalsInv ==
    /\ signals \in SignalRecords
    /\ signals.calling => signals.scan \in Monitored
    /\ signals.pipe <= 2 * MaxSignal
    /\ ~signals.finished => Bytes
    /\ AtAnEnd /\ MarkedIsSeen

\* There are no more marks than signals.
LEMMA MarksCounted ==
    ASSUME NEW S \in SUBSET Monitored
    PROVE  /\ IsFiniteSet(S) /\ Cardinality(S) \in 0..MaxSignal
           /\ \A i \in Monitored : /\ i \notin S => Cardinality(S \cup {i}) = Cardinality(S) + 1
                                   /\ i \in S => Cardinality(S \ {i}) = Cardinality(S) - 1
<1>1. 1 \in Int /\ MaxSignal \in Int /\ MaxSignal \in Nat
  BY SignalAssumption
<1>2. IsFiniteSet(1..MaxSignal) /\ Cardinality(1..MaxSignal) = IF 1 > MaxSignal THEN 0 ELSE MaxSignal - 1 + 1
  BY <1>1, FS_Interval
<1>3. IsFiniteSet(Monitored) /\ Cardinality(Monitored) = MaxSignal
  BY <1>1, <1>2 DEF Monitored
<1>4. IsFiniteSet(S) /\ Cardinality(S) <= Cardinality(Monitored)
  BY <1>3, FS_Subset
<1>5. Cardinality(S) \in Nat
  BY <1>4, FS_CardinalityType
<1>6. \A i : i \notin S => Cardinality(S \cup {i}) = Cardinality(S) + 1
  BY <1>4, FS_AddElement
<1>7. \A i : i \in S => Cardinality(S \ {i}) = Cardinality(S) - 1
  BY <1>4, FS_RemoveElement
<1> QED
  BY <1>1, <1>3, <1>4, <1>5, <1>6, <1>7

\* Nothing is pending at first.
LEMMA SignalsInvInit == SignalsInit => SignalsInv
<1> SUFFICES ASSUME SignalsInit PROVE SignalsInv
  OBVIOUS
<1>1. MaxSignal \in Nat /\ Cardinality({}) = 0
  BY SignalAssumption, FS_EmptySet
<1>2. 0 \in 0..(MaxSignal + 1)
  BY <1>1
<1>3. signals \in SignalRecords
  BY <1>2 DEF SignalsInit, SignalRecords, Idle
<1> QED
  BY <1>1, <1>3 DEF SignalsInit, SignalsInv, Bytes, LookedAt, AtAnEnd, MarkedIsSeen, Idle

\* A signal that comes writes a byte unless it is marked.
LEMMA SignalCallbackStep == ASSUME SignalsInv, SignalCallback PROVE SignalsInv'
<1>0. MaxSignal \in Nat /\ signals \in SignalRecords
  BY SignalAssumption DEF SignalsInv
<1>1. PICK i \in signals.registered :
        signals' = [signals EXCEPT !.pending = @ \cup {i}, !.sent = @ \cup {i},
                                   !.pipe = IF i \in signals.pending THEN @ ELSE @ + 1]
  BY DEF SignalCallback
<1>2. i \in Monitored /\ ~signals.finished
  BY <1>0 DEF SignalsInv, AtAnEnd, SignalRecords
<1>3. CASE i \in signals.pending
  <2>1. signals' = [signals EXCEPT !.sent = @ \cup {i}]
    BY <1>0, <1>1, <1>3 DEF SignalRecords
  <2>2. signals' \in SignalRecords
    BY <1>0, <1>2, <2>1 DEF SignalRecords
  <2> QED
    BY <1>0, <2>1, <2>2 DEF SignalRecords, SignalsInv, Bytes, LookedAt, AtAnEnd, MarkedIsSeen
<1>4. CASE i \notin signals.pending
  <2>1. signals' = [signals EXCEPT !.pending = @ \cup {i}, !.sent = @ \cup {i}, !.pipe = @ + 1]
    BY <1>1, <1>4
  <2>2. signals' \in SignalRecords
    <3>1. /\ signals.pending \cup {i} \in SUBSET Monitored /\ signals.sent \cup {i} \in SUBSET Monitored
          /\ signals.pipe + 1 \in Nat
      BY <1>0, <1>2 DEF SignalRecords
    <3> QED
      BY <1>0, <2>1, <3>1 DEF SignalRecords
  <2>3. /\ Cardinality(signals'.pending) = Cardinality(signals.pending) + 1
        /\ Cardinality(signals'.pending) <= MaxSignal
        /\ Cardinality(signals.pending) \in Nat
    BY <1>0, <1>2, <1>4, <2>1, <2>2, MarksCounted DEF SignalRecords
  <2>4. Bytes' /\ LookedAt' \in 0..MaxSignal
    BY <1>0, <1>2, <2>1, <2>2, <2>3 DEF SignalRecords, SignalsInv, Bytes, LookedAt, Idle, Monitored
  <2>5. signals'.pipe <= 2 * MaxSignal
    BY <1>0, <2>2, <2>3, <2>4 DEF Bytes, SignalRecords
  <2>6. MarkedIsSeen'
    BY <1>0, <2>1 DEF SignalRecords, MarkedIsSeen
  <2> QED
    BY <1>0, <1>2, <2>1, <2>2, <2>4, <2>5, <2>6 DEF SignalRecords, SignalsInv, AtAnEnd
<1> QED
  BY <1>3, <1>4

\* One turn of the loop over the marks
LEMMA LookStep == ASSUME SignalsInv, Look PROVE SignalsInv'
<1>0. MaxSignal \in Nat /\ signals \in SignalRecords /\ signals.scan \in Monitored /\ ~signals.calling
  BY SignalAssumption DEF SignalsInv, Look
<1> DEFINE i == signals.scan
<1>1. i \in 1..MaxSignal /\ i # Idle /\ ~signals.finished /\ Bytes
  BY <1>0 DEF SignalsInv, AtAnEnd, Monitored, Idle
<1>2. CASE i \in signals.pending
  <2>1. signals' = [signals EXCEPT !.pending = @ \ {i}, !.sent = @ \ {i}, !.calling = TRUE]
    BY <1>2 DEF Look
  <2>2. signals' \in SignalRecords
    BY <1>0, <2>1 DEF SignalRecords
  <2>3. /\ Cardinality(signals'.pending) = Cardinality(signals.pending) - 1
        /\ Cardinality(signals.pending) \in Nat
    BY <1>0, <1>2, <2>1, <2>2, MarksCounted DEF SignalRecords
  <2>4. Bytes'
    BY <1>0, <1>1, <2>1, <2>2, <2>3 DEF SignalRecords, Bytes, LookedAt
  <2>5. MarkedIsSeen'
    BY <1>0, <1>1, <2>1 DEF SignalRecords, MarkedIsSeen, SignalsInv, Monitored
  <2> QED
    BY <1>0, <1>1, <2>1, <2>2, <2>4, <2>5 DEF SignalRecords, SignalsInv, AtAnEnd
<1>3. CASE i \notin signals.pending
  <2>1. signals' = [signals EXCEPT !.scan = i + 1]
    BY <1>0, <1>3 DEF Look, SignalRecords
  <2>2. i + 1 \in 0..(MaxSignal + 1)
    BY <1>0, <1>1
  <2> HIDE DEF i
  <2>3. signals' \in SignalRecords
    BY <1>0, <2>1, <2>2 DEF SignalRecords
  <2>4. Cardinality(signals.pending) \in Nat
    BY <1>0, MarksCounted DEF SignalRecords
  <2>5. Bytes'
    BY <1>0, <1>1, <2>1, <2>3, <2>4 DEF i, SignalRecords, Bytes, LookedAt, Idle
  <2>6. MarkedIsSeen'
    BY <1>0, <1>1, <1>3, <2>1 DEF i, SignalRecords, MarkedIsSeen, SignalsInv, Monitored
  <2> QED
    BY <1>0, <1>1, <2>1, <2>3, <2>5, <2>6 DEF SignalRecords, SignalsInv, AtAnEnd
<1> QED
  BY <1>2, <1>3

\* The handler's return goes on with the scan.
LEMMA HandlerReturnsStep == ASSUME SignalsInv, HandlerReturns PROVE SignalsInv'
<1>0. MaxSignal \in Nat /\ signals \in SignalRecords /\ signals.scan \in Monitored /\ signals.calling
  BY SignalAssumption DEF SignalsInv, HandlerReturns
<1> DEFINE i == signals.scan
<1>1. i \in 1..MaxSignal /\ i # Idle /\ ~signals.finished /\ Bytes
  BY <1>0 DEF SignalsInv, AtAnEnd, Monitored, Idle
<1>2. signals' = [signals EXCEPT !.calling = FALSE, !.scan = i + 1]
  BY <1>0 DEF HandlerReturns, SignalRecords
<1>3. i + 1 \in 0..(MaxSignal + 1)
  BY <1>0, <1>1
<1> HIDE DEF i
<1>4. signals' \in SignalRecords
  BY <1>0, <1>2, <1>3 DEF SignalRecords
<1>5. Bytes'
  BY <1>0, <1>1, <1>2, <1>4 DEF i, SignalRecords, Bytes, LookedAt, Idle
<1>6. MarkedIsSeen'
  BY <1>0, <1>1, <1>2 DEF i, SignalRecords, MarkedIsSeen, SignalsInv, Monitored
<1> QED
  BY <1>0, <1>1, <1>2, <1>4, <1>5, <1>6 DEF SignalRecords, SignalsInv, AtAnEnd

\* Every step of the signals keeps it.
LEMMA SignalsInvStep == SignalsInv /\ [SignalsNext]_signals => SignalsInv'
<1> SUFFICES ASSUME SignalsInv, [SignalsNext]_signals PROVE SignalsInv'
  OBVIOUS
<1>0. MaxSignal \in Nat /\ signals \in SignalRecords /\ Cardinality(signals.pending) \in 0..MaxSignal
  BY SignalAssumption, MarksCounted DEF SignalsInv, SignalRecords
<1>1. ASSUME Register PROVE SignalsInv'
  <2>1. PICK i \in Monitored : signals' = [signals EXCEPT !.registered = @ \cup {i}]
    BY <1>1 DEF Register
  <2>2. signals' \in SignalRecords
    BY <1>0, <2>1 DEF SignalRecords
  <2> QED
    BY <1>0, <1>1, <2>1, <2>2 DEF Register, SignalRecords, SignalsInv, Bytes, LookedAt, AtAnEnd, MarkedIsSeen
<1>2. ASSUME ReadWake PROVE SignalsInv'
  <2>1. signals' = [signals EXCEPT !.pipe = 0, !.scan = 1]
    BY <1>2 DEF ReadWake
  <2>2. signals' \in SignalRecords
    <3>1. 1 \in 0..(MaxSignal + 1) /\ 0 \in Nat
      BY <1>0
    <3> QED
      BY <1>0, <2>1, <3>1 DEF SignalRecords
  <2>3. signals'.pipe = 0 /\ signals'.scan = 1 /\ signals'.pending = signals.pending /\ ~signals.calling
        /\ ~signals.finished /\ signals'.calling = signals.calling /\ signals'.finished = signals.finished
    BY <1>0, <1>2, <2>1 DEF ReadWake, SignalRecords, SignalsInv, Monitored, Idle
  <2>4. Bytes'
    BY <1>0, <2>3 DEF Bytes, LookedAt, Idle
  <2>5. MarkedIsSeen'
    BY <1>0, <2>3 DEF MarkedIsSeen, SignalRecords, Monitored
  <2> QED
    BY <1>0, <2>2, <2>3, <2>4, <2>5 DEF SignalsInv, AtAnEnd
<1>3. ASSUME HandledAll PROVE SignalsInv'
  <2>1. signals' = [signals EXCEPT !.scan = 0]
    BY <1>3 DEF HandledAll, Idle
  <2>2. signals' \in SignalRecords
    <3>1. 0 \in 0..(MaxSignal + 1)
      BY <1>0
    <3> QED
      BY <1>0, <2>1, <3>1 DEF SignalRecords
  <2>3. ~signals.calling /\ signals.scan = MaxSignal + 1 /\ ~signals.finished
    BY <1>0, <1>3 DEF HandledAll, SignalRecords, SignalsInv, Monitored, AtAnEnd, Idle
  <2>4. Bytes'
    BY <1>0, <2>1, <2>3 DEF SignalRecords, SignalsInv, Bytes, LookedAt, Idle
  <2>5. MarkedIsSeen'
    BY <1>0, <2>1, <2>3 DEF MarkedIsSeen, SignalRecords, Monitored, SignalsInv
  <2> QED
    BY <1>0, <2>1, <2>2, <2>3, <2>4, <2>5 DEF SignalRecords, SignalsInv, AtAnEnd
<1>4. ASSUME Finish PROVE SignalsInv'
  <2>1. signals' = [signals EXCEPT !.registered = {}, !.pending = {}, !.finished = TRUE] /\ signals.scan = Idle
    BY <1>4 DEF Finish
  <2>2. signals' \in SignalRecords
    BY <1>0, <2>1 DEF SignalRecords
  <2> QED
    BY <1>0, <2>1, <2>2 DEF SignalRecords, SignalsInv, AtAnEnd, MarkedIsSeen
<1>5. ASSUME UNCHANGED signals PROVE SignalsInv'
  BY <1>5 DEF SignalsInv, Bytes, LookedAt, AtAnEnd, MarkedIsSeen
<1> QED
  BY <1>1, <1>2, <1>3, <1>4, <1>5, SignalCallbackStep, LookStep, HandlerReturnsStep DEF SignalsNext, MonitorStep

\* Whenever the handler interrupts, a signal that has come is still to be looked at, and the loop will
\* be woken for it.
THEOREM SignalsAreSound == SignalsSpec => []SignalsSound
<1>1. SignalsInv => SignalsSound
  BY SignalAssumption DEF SignalsInv, SignalsSound, SignalsTypeOK, SignalRecords
<1> QED
  BY <1>1, SignalsInvInit, SignalsInvStep, PTL DEF SignalsSpec

-----------------------------------------------------------------------------
(* Attempts to connect *)

\* The types of what mpdclient and its attempts keep.
AttemptRecords ==
    [ptr : Objects \cup {None}, live : SUBSET Objects, connect : [Objects -> Numbers \cup {None}],
     deadline : SUBSET Objects, socket : [Objects -> Numbers \cup {None}],
     conn : Numbers \cup {None}, reconnect : BOOLEAN, settings : {"default", "custom", "fallback"},
     fallback : BOOLEAN, open : SUBSET Numbers, peer : [Numbers -> Peers], choices : Nat,
     wrong : BOOLEAN]

\* Only the objects of L have sockets and timers.
OnlyOf(a, L) ==
    /\ a \in AttemptRecords /\ ~a.wrong /\ a.live = L /\ a.deadline \subseteq L
    /\ \A p \in Objects \ L : a.connect[p] = None /\ a.socket[p] = None

\* No attempt
Resting(a) == OnlyOf(a, {}) /\ a.ptr = None /\ a.open = {a.conn} \ {None}

\* An attempt which waits: for the handshake under its timer, or for the welcome.
Waiting(a, o) ==
    /\ OnlyOf(a, {o}) /\ a.ptr = o /\ a.conn = None
    /\ \/ a.connect[o] \in Numbers /\ a.socket[o] = None /\ a.open = {a.connect[o]} /\ a.deadline = {o}
       \/ a.socket[o] \in Numbers /\ a.connect[o] = None /\ a.open = {a.socket[o]} /\ a.deadline = {}

\* An attempt whose failure is being reported, with the socket it may have.
Failing(a, o) ==
    /\ OnlyOf(a, {o}) /\ a.ptr = o /\ a.conn = None
    /\ a.connect[o] = None /\ a.open = {a.socket[o]} \ {None} /\ a.deadline = {}

\* Between two callbacks
Settled(a) == Resting(a) \/ \E o \in Objects : Waiting(a, o)

\* ... when there is something to come, too.
AttemptsInv(a) ==
    /\ Settled(a)
    /\ a.conn # None \/ a.ptr # None \/ a.reconnect

\* There is an object and a descriptor beside any one.
LEMMA Another ==
    /\ \A o : Objects \ {o} # {}
    /\ \A n : Numbers \ {n} # {}
    /\ Objects # {} /\ Numbers # {}
  BY RoomAssumption

\* A new attempt is another object than the one that ends.
LEMMA NewAttemptStep ==
    ASSUME NEW a, NEW L, OnlyOf(a, L), L = {} \/ \E p \in Objects : L = {p}
    PROVE  \E o \in Objects \ L :
              /\ NewAttempt(a) = [a EXCEPT !.ptr = o, !.live = @ \cup {o}]
              /\ OnlyOf(NewAttempt(a), L \cup {o})
<1> DEFINE o == CHOOSE o \in Objects \ a.live : TRUE
<1>1. a.live = L /\ Objects \ L # {}
  BY Another DEF OnlyOf
<1>2. o \in Objects \ L
  BY <1>1
<1>3. NewAttempt(a) = [a EXCEPT !.ptr = o, !.live = @ \cup {o}]
  BY DEF NewAttempt
<1> HIDE DEF o
<1>4. NewAttempt(a) \in AttemptRecords
  <2>1. a.live \cup {o} \in SUBSET Objects
    BY <1>2 DEF OnlyOf, AttemptRecords
  <2> QED
    BY <1>2, <1>3, <2>1 DEF OnlyOf, AttemptRecords
<1>5. OnlyOf(NewAttempt(a), L \cup {o})
  BY <1>1, <1>2, <1>3, <1>4 DEF OnlyOf, AttemptRecords
<1> QED
  BY <1>2, <1>3, <1>5

\* The socket of the new attempt is another one than that of the one that ends.
LEMMA WaitConnectedStep ==
    ASSUME NEW a, NEW L, OnlyOf(a, L), a.ptr \in L, a.open = {} \/ \E n \in Numbers : a.open = {n}
    PROVE  LET c == WaitConnected(a)
           IN  \E n \in Numbers \ a.open :
                  /\ OnlyOf(c, L) /\ c.open = a.open \cup {n} /\ c.connect = [a.connect EXCEPT ![a.ptr] = n]
                  /\ c.socket = a.socket /\ c.deadline = a.deadline \cup {a.ptr}
                  /\ c.ptr = a.ptr /\ c.conn = a.conn
<1> DEFINE n == CHOOSE n \in Numbers \ a.open : TRUE
           connect == [a.connect EXCEPT ![a.ptr] = n]
           deadline == a.deadline \cup {a.ptr}
           open == a.open \cup {n}
           peer == [a.peer EXCEPT ![n] = "nothing"]
<1>1. n \in Numbers \ a.open
  <2>1. Numbers \ a.open # {}
    BY Another
  <2> QED
    BY <2>1
<1>2. WaitConnected(a) = [a EXCEPT !.connect = connect, !.deadline = deadline, !.open = open, !.peer = peer]
  <2>1. a \in AttemptRecords
    BY DEF OnlyOf
  <2> QED
    BY <2>1 DEF WaitConnected, AttemptRecords
<1> HIDE DEF n
<1>3. /\ connect \in [Objects -> Numbers \cup {None}] /\ deadline \in SUBSET Objects
      /\ open \in SUBSET Numbers /\ peer \in [Numbers -> Peers]
      /\ \A p \in Objects \ L : connect[p] = None
      /\ deadline \subseteq L
  <2>1. "nothing" \in Peers /\ a \in AttemptRecords /\ L \subseteq Objects
    BY DEF OnlyOf, Peers, AttemptRecords
  <2>2. a.ptr \in Objects
    BY <2>1
  <2>3. connect \in [Objects -> Numbers \cup {None}] /\ peer \in [Numbers -> Peers]
    BY <1>1, <2>1, <2>2 DEF AttemptRecords
  <2> QED
    BY <1>1, <2>1, <2>2, <2>3 DEF OnlyOf, AttemptRecords
<1>4. connect = [a.connect EXCEPT ![a.ptr] = n] /\ open = a.open \cup {n} /\ deadline = a.deadline \cup {a.ptr}
  OBVIOUS
<1> HIDE DEF connect, deadline, open, peer
<1>5. WaitConnected(a) \in AttemptRecords
  BY <1>2, <1>3 DEF OnlyOf, AttemptRecords
<1>6. /\ OnlyOf(WaitConnected(a), L)
      /\ \A f \in {"socket", "ptr", "conn"} : WaitConnected(a)[f] = a[f]
  BY <1>2, <1>3, <1>5 DEF OnlyOf, AttemptRecords
<1>7. /\ WaitConnected(a).open = open /\ WaitConnected(a).connect = connect
      /\ WaitConnected(a).deadline = deadline
  BY <1>2 DEF OnlyOf, AttemptRecords
<1> QED
  BY <1>1, <1>4, <1>6, <1>7

\* The descriptors but those of an attempt
OpenWithout(a, o) == a.open \ {a.connect[o], a.socket[o]}

\* What Delete() leaves of an object: nothing.
LEMMA DeleteStep ==
    ASSUME NEW a, NEW L, OnlyOf(a, L), NEW o \in L
    PROVE  LET d == Delete(a, o)
           IN  /\ L = {o} => OnlyOf(d, {})
               /\ \A p : p # o /\ L = {o, p} => OnlyOf(d, {p})
               /\ d.deadline = a.deadline \ {o}
               /\ d.connect = [a.connect EXCEPT ![o] = None] /\ d.socket = [a.socket EXCEPT ![o] = None]
               /\ d.ptr = a.ptr /\ d.conn = a.conn /\ d.reconnect = a.reconnect
<1> DEFINE M == L \ {o}
           connect == [a.connect EXCEPT ![o] = None]
           socket == [a.socket EXCEPT ![o] = None]
           open == OpenWithout(a, o)
           deadline == a.deadline \ {o}
           live == a.live \ {o}
<1>0. a \in AttemptRecords /\ o \in Objects /\ ~a.wrong /\ o \in a.live /\ a.live = L
  BY DEF OnlyOf, AttemptRecords
<1>1. Delete(a, o) = [a EXCEPT !.live = live, !.deadline = deadline, !.connect = connect,
                               !.socket = socket, !.open = open, !.wrong = FALSE]
  BY <1>0 DEF Delete, AttemptRecords, OpenWithout
<1>2. /\ connect \in [Objects -> Numbers \cup {None}] /\ socket \in [Objects -> Numbers \cup {None}]
      /\ open \in SUBSET Numbers /\ deadline \in SUBSET Objects /\ live \in SUBSET Objects
      /\ live = M /\ deadline \subseteq M
      /\ \A p \in Objects \ M : connect[p] = None /\ socket[p] = None
  BY <1>0 DEF OnlyOf, AttemptRecords, OpenWithout
<1>3. /\ connect = [a.connect EXCEPT ![o] = None] /\ socket = [a.socket EXCEPT ![o] = None]
      /\ open = OpenWithout(a, o) /\ deadline = a.deadline \ {o}
  OBVIOUS
<1> HIDE DEF connect, socket, open, deadline, live
<1>4. Delete(a, o) \in AttemptRecords
  BY <1>0, <1>1, <1>2 DEF AttemptRecords
<1>5. OnlyOf(Delete(a, o), M)
  BY <1>0, <1>1, <1>2, <1>4 DEF OnlyOf, AttemptRecords
<1>6. L = {o} => OnlyOf(Delete(a, o), {})
  <2>1. L = {o} => M = {}
    OBVIOUS
  <2> QED
    BY <1>5, <2>1
<1>7. ASSUME NEW p, p # o, L = {o, p} PROVE OnlyOf(Delete(a, o), {p})
  <2>1. M = {p}
    BY <1>7
  <2> QED
    BY <1>5, <2>1
<1>8. /\ Delete(a, o).open = open /\ Delete(a, o).deadline = deadline
      /\ Delete(a, o).connect = connect /\ Delete(a, o).socket = socket
      /\ \A f \in {"ptr", "conn", "reconnect"} : Delete(a, o)[f] = a[f]
  BY <1>0, <1>1 DEF AttemptRecords
<1> QED
  BY <1>3, <1>6, <1>7, <1>8

\* Both sockets of an attempt are closed with it.
LEMMA DeleteCloses ==
    ASSUME NEW a, a \in AttemptRecords, NEW o
    PROVE  Delete(a, o).open = OpenWithout(a, o)
  BY DEF Delete, OpenWithout, AttemptRecords

\* mpdclient forgets the attempt before it is told anything else.
LEMMA ForgetStep ==
    ASSUME NEW a, NEW L, OnlyOf(a, L), a.ptr \in Objects
    PROVE  /\ OnlyOf(Forget(a), L) /\ Forget(a).ptr = None
           /\ OnlyOf(GiveUp(a), L) /\ GiveUp(a).ptr = None /\ GiveUp(a).reconnect = TRUE
           /\ \A f \in {"open", "connect", "socket", "deadline", "conn"} :
                 Forget(a)[f] = a[f] /\ GiveUp(a)[f] = a[f]
<1>0. a \in AttemptRecords /\ ~a.wrong /\ a.ptr # None
  BY RoomAssumption DEF OnlyOf
<1>1. Forget(a) = [a EXCEPT !.ptr = None, !.wrong = FALSE]
  BY <1>0 DEF Forget, AttemptRecords
<1>2. Forget(a) \in AttemptRecords
  BY <1>0, <1>1 DEF AttemptRecords
<1>3. GiveUp(a) = [a EXCEPT !.ptr = None, !.wrong = FALSE, !.reconnect = TRUE]
  BY <1>0, <1>1 DEF GiveUp, AttemptRecords
<1>4. GiveUp(a) \in AttemptRecords
  BY <1>0, <1>3 DEF AttemptRecords
<1> QED
  BY <1>0, <1>1, <1>2, <1>3, <1>4 DEF OnlyOf, AttemptRecords

\* The failure of an attempt, told by itself, is followed by rest or by another attempt which waits,
\* however that one's Start() ends.
LEMMA SocketErrorStep ==
    ASSUME NEW a, NEW o \in Objects, Failing(a, o), NEW c \in SocketError(a, o)
    PROVE  AttemptsInv(c)
<1>0. OnlyOf(a, {o}) /\ a.ptr = o /\ a.conn = None /\ a.connect[o] = None
      /\ a.open = {a.socket[o]} \ {None} /\ a.deadline = {} /\ a.socket[o] \in Numbers \cup {None}
      /\ o # None /\ None \notin Numbers
  BY RoomAssumption DEF Failing, OnlyOf, AttemptRecords
<1>1. PICK b \in OnAsyncError(a) : c = Delete(b, o)
  BY DEF SocketError
<1>2. CASE b = GiveUp(a)
  <2>1. /\ OnlyOf(b, {o}) /\ b.ptr = None /\ b.reconnect = TRUE /\ b.open = a.open
        /\ b.socket = a.socket /\ b.connect = a.connect /\ b.conn = None
    BY <1>0, <1>2, ForgetStep
  <2>2. OnlyOf(c, {}) /\ c.ptr = None /\ c.reconnect = TRUE /\ c.conn = None
        /\ c.open = OpenWithout(b, o)
    <3> DEFINE L == {o}
    <3>1. o \in L /\ OnlyOf(b, L)
      BY <2>1
    <3>2. L = {o}
      OBVIOUS
    <3> HIDE DEF L
    <3>3. Delete(b, o).reconnect = b.reconnect
      BY <3>1, DeleteStep, Zenon
    <3>4. OnlyOf(c, {})
      BY <1>1, <3>1, <3>2, DeleteStep
    <3>5. c.ptr = None /\ c.conn = None
      BY <1>1, <2>1, <3>1, <3>2, DeleteStep
    <3>6. Delete(b, o).open = OpenWithout(b, o)
      BY <3>1, DeleteCloses DEF OnlyOf
    <3> QED
      BY <1>1, <2>1, <3>3, <3>4, <3>5, <3>6
  <2>3. c.open = {}
    BY <1>0, <2>1, <2>2 DEF OpenWithout
  <2> QED
    BY <2>2, <2>3 DEF AttemptsInv, Settled, Resting
<1>3. CASE b \in StartFallback([Forget(a) EXCEPT !.settings = "fallback"])
  <2> DEFINE f == [Forget(a) EXCEPT !.settings = "fallback"]
             n == NewAttempt(f)
  <2>1. /\ OnlyOf(f, {o}) /\ f.ptr = None /\ f.open = a.open /\ f.connect = a.connect
        /\ f.socket = a.socket /\ f.deadline = {} /\ f.conn = None
    <3>1. /\ OnlyOf(Forget(a), {o}) /\ Forget(a).ptr = None
          /\ Forget(a).open = a.open /\ Forget(a).connect = a.connect
          /\ Forget(a).socket = a.socket /\ Forget(a).deadline = {} /\ Forget(a).conn = None
      BY <1>0, ForgetStep
    <3>2. f \in AttemptRecords
      BY <3>1 DEF OnlyOf, AttemptRecords
    <3> QED
      BY <3>1, <3>2 DEF OnlyOf, AttemptRecords
  <2> HIDE DEF f
  <2>2. PICK p \in Objects \ {o} :
          n = [f EXCEPT !.ptr = p, !.live = @ \cup {p}] /\ OnlyOf(n, {o, p})
    <3>1. PICK p \in Objects \ {o} :
            n = [f EXCEPT !.ptr = p, !.live = @ \cup {p}] /\ OnlyOf(n, {o} \cup {p})
      BY <2>1, NewAttemptStep
    <3>2. {o} \cup {p} = {o, p}
      OBVIOUS
    <3> QED
      BY <3>1, <3>2
  <2>3. /\ n.ptr = p /\ n.open = a.open /\ n.connect = a.connect /\ n.socket = a.socket
        /\ n.deadline = {} /\ n.conn = None
    BY <2>1, <2>2 DEF OnlyOf, AttemptRecords
  <2>4. b = WaitConnected(n) \/ b = Delete(GiveUp(n), n.ptr)
    BY <1>3 DEF StartFallback, f
  <2> HIDE DEF n
  <2>5. a.connect[p] = None /\ a.socket[p] = None /\ p # None
    BY <1>0, RoomAssumption DEF OnlyOf
  <2>6. CASE b = WaitConnected(n)
    <3>1. PICK m \in Numbers \ n.open :
            /\ OnlyOf(b, {o, p}) /\ b.open = n.open \cup {m} /\ b.connect = [n.connect EXCEPT ![p] = m]
            /\ b.socket = n.socket /\ b.deadline = {p} /\ b.ptr = p /\ b.conn = None
      <4>1. n.open = {} \/ \E k \in Numbers : n.open = {k}
        BY <1>0, <2>3
      <4>2. n.ptr \in {o, p}
        BY <2>3
      <4> QED
        BY <2>2, <2>3, <2>6, <4>1, <4>2, WaitConnectedStep
    <3>2. b.connect[o] = None /\ b.connect[p] = m /\ a.connect \in [Objects -> Numbers \cup {None}]
      BY <1>0, <2>3, <3>1 DEF OnlyOf, AttemptRecords
    <3>3. /\ OnlyOf(c, {p}) /\ c.open = OpenWithout(b, o) /\ c.ptr = p /\ c.conn = None
          /\ c.deadline = b.deadline \ {o}
          /\ c.connect = [b.connect EXCEPT ![o] = None] /\ c.socket = [b.socket EXCEPT ![o] = None]
      <4> DEFINE L == {o, p}
      <4>1. o \in L /\ OnlyOf(b, L) /\ p # o
        BY <2>2, <3>1
      <4>2. L = {o, p}
        OBVIOUS
      <4> HIDE DEF L
      <4>3. c.open = OpenWithout(b, o)
        BY <1>1, <4>1, DeleteCloses DEF OnlyOf
      <4> QED
        BY <1>1, <3>1, <4>1, <4>2, <4>3, DeleteStep
    <3>4. c.open = {m} /\ c.deadline = {p}
      BY <1>0, <2>3, <3>1, <3>2, <3>3 DEF OpenWithout
    <3>5. c.connect[p] = m /\ c.socket[p] = None
      BY <2>3, <2>5, <3>1, <3>2, <3>3 DEF OnlyOf, AttemptRecords
    <3> QED
      BY <2>5, <3>3, <3>4, <3>5 DEF AttemptsInv, Settled, Waiting
  <2>7. CASE b = Delete(GiveUp(n), n.ptr)
    <3> DEFINE g == GiveUp(n)
    <3>1. /\ OnlyOf(g, {o, p}) /\ g.ptr = None /\ g.reconnect = TRUE /\ g.open = a.open
          /\ g.connect = a.connect /\ g.socket = a.socket /\ g.conn = None
      BY <2>2, <2>3, ForgetStep
    <3>2. b = Delete(g, p)
      BY <2>3, <2>7
    <3> HIDE DEF g
    <3>3. /\ OnlyOf(b, {o}) /\ b.open = OpenWithout(g, p) /\ b.ptr = None
          /\ b.conn = None /\ b.reconnect = TRUE
          /\ b.connect = [g.connect EXCEPT ![p] = None] /\ b.socket = [g.socket EXCEPT ![p] = None]
      <4> DEFINE L == {o, p}
      <4>1. p \in L /\ OnlyOf(g, L) /\ p # o
        BY <2>2, <3>1
      <4>2. L = {p, o}
        OBVIOUS
      <4> HIDE DEF L
      <4>3. b.open = OpenWithout(g, p)
        BY <3>2, <4>1, DeleteCloses DEF OnlyOf
      <4>4. b.reconnect = g.reconnect
        <5>1. Delete(g, p).reconnect = g.reconnect
          BY <4>1, DeleteStep, Zenon
        <5> QED
          BY <3>2, <5>1
      <4>5. /\ OnlyOf(b, {o}) /\ b.ptr = None /\ b.conn = None
            /\ b.connect = [g.connect EXCEPT ![p] = None] /\ b.socket = [g.socket EXCEPT ![p] = None]
        BY <3>1, <3>2, <4>1, <4>2, DeleteStep
      <4> QED
        BY <3>1, <4>3, <4>4, <4>5
    <3>4. b.open = a.open /\ b.socket[o] = a.socket[o] /\ b.connect[o] = None
      BY <1>0, <2>5, <3>1, <3>3 DEF OnlyOf, AttemptRecords, OpenWithout
    <3>5. /\ OnlyOf(c, {}) /\ c.ptr = None /\ c.reconnect = TRUE /\ c.conn = None
          /\ c.open = OpenWithout(b, o)
      <4> DEFINE L == {o}
      <4>1. o \in L /\ OnlyOf(b, L)
        BY <3>3
      <4>2. L = {o}
        OBVIOUS
      <4> HIDE DEF L
      <4>3. Delete(b, o).reconnect = b.reconnect
        BY <4>1, DeleteStep, Zenon
      <4>4. OnlyOf(c, {})
        BY <1>1, <4>1, <4>2, DeleteStep
      <4>5. c.ptr = None /\ c.conn = None
        BY <1>1, <3>3, <4>1, DeleteStep
      <4>6. Delete(b, o).open = OpenWithout(b, o)
        BY <4>1, DeleteCloses DEF OnlyOf
      <4> QED
        BY <1>1, <3>3, <4>3, <4>4, <4>5, <4>6
    <3>6. c.open = {}
      BY <1>0, <3>4, <3>5 DEF OpenWithout
    <3> QED
      BY <3>5, <3>6 DEF AttemptsInv, Settled, Resting
  <2> QED
    BY <2>4, <2>6, <2>7
<1> QED
  BY <1>1, <1>2, <1>3 DEF OnAsyncError

\* A new attempt, from rest without a connection: it waits, or has failed within Start().
LEMMA StartConnectStep ==
    ASSUME NEW a, Resting(a), a.conn = None, NEW c \in StartConnect(a)
    PROVE  AttemptsInv(c)
<1> DEFINE n == NewAttempt(a)
<1>1. OnlyOf(a, {}) /\ a.open = {} /\ a.deadline = {}
  BY DEF Resting, OnlyOf
<1>2. PICK o \in Objects : n = [a EXCEPT !.ptr = o, !.live = @ \cup {o}] /\ OnlyOf(n, {o})
  <2>1. PICK o \in Objects \ {} : n = [a EXCEPT !.ptr = o, !.live = @ \cup {o}] /\ OnlyOf(n, {} \cup {o})
    BY <1>1, NewAttemptStep
  <2>2. {} \cup {o} = {o}
    OBVIOUS
  <2>3. OnlyOf(n, {o})
    BY <2>1, <2>2
  <2> QED
    BY <2>1, <2>3
<1>3. /\ n.ptr = o /\ n.open = {} /\ n.connect = a.connect /\ n.socket = a.socket
      /\ n.deadline = {} /\ n.conn = None
  BY <1>1, <1>2 DEF OnlyOf, AttemptRecords
<1>4. c = WaitConnected(n) \/ c \in SocketError(n, o)
  BY <1>3 DEF StartConnect
<1> HIDE DEF n
<1>5. a.connect[o] = None /\ a.socket[o] = None
  BY <1>1 DEF OnlyOf
<1>6. CASE c = WaitConnected(n)
  <2>1. PICK m \in Numbers \ n.open :
          /\ OnlyOf(c, {o}) /\ c.open = n.open \cup {m} /\ c.connect = [n.connect EXCEPT ![n.ptr] = m]
          /\ c.socket = n.socket /\ c.deadline = n.deadline \cup {n.ptr} /\ c.ptr = n.ptr /\ c.conn = n.conn
    <3> DEFINE L == {o}
    <3>1. n.ptr \in L /\ n.open = {} /\ OnlyOf(n, L)
      BY <1>2, <1>3
    <3>2. L = {o}
      OBVIOUS
    <3> HIDE DEF L
    <3> QED
      BY <1>6, <3>1, <3>2, WaitConnectedStep
  <2>2. c.connect[o] = m /\ c.open = {m} /\ c.socket[o] = None /\ c.deadline = {o}
    BY <1>1, <1>3, <1>5, <2>1 DEF OnlyOf, AttemptRecords
  <2>3. o # None
    BY RoomAssumption
  <2> QED
    BY <1>3, <2>1, <2>2, <2>3 DEF AttemptsInv, Settled, Waiting
<1>7. CASE c \in SocketError(n, o)
  <2>1. Failing(n, o)
    BY <1>2, <1>3, <1>5 DEF Failing
  <2> QED
    BY <1>7, <2>1, SocketErrorStep
<1> QED
  BY <1>4, <1>6, <1>7

\* Disconnect() leaves neither an attempt nor a connection.
LEMMA HangupStep ==
    ASSUME NEW a, Settled(a)
    PROVE  LET h == Hangup(a) IN Resting(h) /\ h.conn = None
<1> DEFINE b == IF a.ptr = None THEN a ELSE [Delete(a, a.ptr) EXCEPT !.ptr = None]
<1>0. None \notin Objects /\ None \notin Numbers
  BY RoomAssumption
<1>1. OnlyOf(b, {}) /\ b.ptr = None /\ b.open \subseteq {b.conn} /\ None \notin b.open
  <2>1. CASE Resting(a)
    BY <1>0, <2>1 DEF Resting, OnlyOf, AttemptRecords
  <2>2. ASSUME NEW o \in Objects, Waiting(a, o)
        PROVE  OnlyOf(b, {}) /\ b.ptr = None /\ b.open = {}
    <3> DEFINE d == Delete(a, o)
               L == {o}
    <3>1. OnlyOf(a, L) /\ o \in L /\ a.ptr = o /\ b = [d EXCEPT !.ptr = None]
      BY <1>0, <2>2 DEF Waiting
    <3>2. L = {o}
      OBVIOUS
    <3>3. d.open = {}
      <4>1. d.open = OpenWithout(a, o)
        BY <2>2, DeleteCloses DEF Waiting, OnlyOf
      <4> QED
        BY <2>2, <4>1 DEF Waiting, OpenWithout
    <3> HIDE DEF L, b
    <3>4. OnlyOf(d, {})
      BY <3>1, <3>2, DeleteStep
    <3> HIDE DEF d
    <3>5. b \in AttemptRecords
      BY <3>1, <3>4 DEF OnlyOf, AttemptRecords
    <3> QED
      BY <3>1, <3>3, <3>4, <3>5 DEF OnlyOf, AttemptRecords
  <2> HIDE DEF b
  <2> QED
    BY <2>1, <2>2 DEF Settled
<1> DEFINE open == b.open \ {b.conn}
<1>2. Hangup(a) = [b EXCEPT !.open = open, !.conn = None]
  BY <1>1 DEF Hangup, CloseFd, OnlyOf, AttemptRecords
<1> HIDE DEF b
<1>3. open = {}
  BY <1>1
<1> HIDE DEF open
<1>4. Hangup(a) = [b EXCEPT !.open = {}, !.conn = None]
  BY <1>2, <1>3
<1>5. Hangup(a) \in AttemptRecords
  BY <1>1, <1>4 DEF OnlyOf, AttemptRecords
<1> QED
  BY <1>1, <1>4, <1>5 DEF Resting, OnlyOf, AttemptRecords

\* What mpdclient sets beside the attempts changes nothing about them.
LEMMA SettingsStep ==
    ASSUME NEW a, Settled(a), NEW r \in BOOLEAN, NEW s \in {"default", "custom", "fallback"}, NEW k \in Nat
    PROVE  LET b == [a EXCEPT !.reconnect = r, !.settings = s, !.choices = k]
           IN  Settled(b) /\ b.conn = a.conn /\ b.ptr = a.ptr
<1> DEFINE b == [a EXCEPT !.reconnect = r, !.settings = s, !.choices = k]
<1>1. a \in AttemptRecords
  BY DEF Settled, Resting, Waiting, OnlyOf
<1>2. b \in AttemptRecords
  BY <1>1 DEF AttemptRecords
<1> QED
  BY <1>1, <1>2 DEF Settled, Resting, Waiting, OnlyOf, AttemptRecords

\* OnAsyncMpdConnect() and what follows in the same callback: the attempt is deleted when mpdclient
\* has the connection, or has lost it again.
LEMMA ConnectedStep ==
    ASSUME NEW a, NEW o \in Objects, Waiting(a, o), NEW n \in Numbers, a.socket[o] = n,
           NEW b \in Connected([a EXCEPT !.socket[o] = None], n)
    PROVE  AttemptsInv(Delete(b, o))
<1> DEFINE t == [a EXCEPT !.socket[o] = None]
           f == Forget(t)
           m == [f EXCEPT !.conn = n]
           L == {o}
<1>0. None \notin Objects /\ None \notin Numbers /\ n # None /\ a \in AttemptRecords /\ a.connect[o] = None
      /\ a.open = {n} /\ a.deadline = {}
  BY RoomAssumption DEF Waiting, OnlyOf
<1>1. OnlyOf(t, L) /\ t.ptr = o /\ t.open = {n} /\ t.connect[o] = None /\ t.socket[o] = None
  <2>1. t \in AttemptRecords
    BY <1>0 DEF AttemptRecords
  <2> QED
    BY <1>0, <2>1 DEF Waiting, OnlyOf, AttemptRecords
<1>2. L = {o}
  OBVIOUS
<1> HIDE DEF t, L
<1>3. OnlyOf(f, L) /\ f.ptr = None /\ f.open = {n} /\ f.connect = t.connect /\ f.socket = t.socket
  BY <1>1, ForgetStep
<1> HIDE DEF f
<1>4. OnlyOf(m, L) /\ m.ptr = None /\ m.open = {n} /\ m.connect[o] = None /\ m.socket[o] = None /\ m.conn = n
  <2>1. m \in AttemptRecords
    BY <1>3 DEF OnlyOf, AttemptRecords
  <2> QED
    BY <1>1, <1>3, <2>1 DEF OnlyOf, AttemptRecords
<1>5. b = [m EXCEPT !.reconnect = FALSE] \/ b = [Hangup(m) EXCEPT !.reconnect = TRUE]
  BY DEF Connected, f, t
<1> HIDE DEF m
<1>6. /\ OnlyOf(b, L) /\ b.ptr = None /\ b.connect[o] = None /\ b.socket[o] = None
      /\ \/ b.conn = n /\ b.open = {n}
         \/ b.conn = None /\ b.open = {} /\ b.reconnect = TRUE
  <2>1. CASE b = [m EXCEPT !.reconnect = FALSE]
    <3>1. b \in AttemptRecords
      BY <1>4, <2>1 DEF OnlyOf, AttemptRecords
    <3> QED
      BY <1>4, <2>1, <3>1 DEF OnlyOf, AttemptRecords
  <2>2. CASE b = [Hangup(m) EXCEPT !.reconnect = TRUE]
    <3>1. Hangup(m) = [m EXCEPT !.open = @ \ {m.conn}, !.conn = None]
      BY <1>4 DEF Hangup, CloseFd, OnlyOf, AttemptRecords
    <3>2. m.open \ {m.conn} = {}
      BY <1>4
    <3>3. b = [m EXCEPT !.open = {}, !.conn = None, !.reconnect = TRUE]
      BY <1>4, <2>2, <3>1, <3>2 DEF OnlyOf, AttemptRecords
    <3>4. b \in AttemptRecords
      BY <1>4, <3>3 DEF OnlyOf, AttemptRecords
    <3> QED
      BY <1>4, <3>3, <3>4 DEF OnlyOf, AttemptRecords
  <2> QED
    BY <1>5, <2>1, <2>2
<1> DEFINE d == Delete(b, o)
<1>7. o \in L
  BY <1>2
<1>8. OnlyOf(d, {})
  BY <1>2, <1>6, <1>7, DeleteStep
<1>9. d.ptr = None /\ d.conn = b.conn
  <2>1. OnlyOf(b, L) /\ b.ptr = None
    BY <1>6
  <2>2. d.ptr = b.ptr /\ d.conn = b.conn
    BY <2>1 DEF Delete, OnlyOf, AttemptRecords
  <2> QED
    BY <2>1, <2>2
<1>10. d.reconnect = b.reconnect
  BY <1>6, <1>7, DeleteStep, Zenon
<1>11. d.open = b.open
  <2>1. d.open = OpenWithout(b, o)
    BY <1>6, DeleteCloses DEF OnlyOf
  <2> QED
    BY <1>0, <1>6, <2>1 DEF OpenWithout
<1> HIDE DEF d
<1>12. AttemptsInv(d)
  BY <1>0, <1>6, <1>8, <1>9, <1>10, <1>11 DEF AttemptsInv, Settled, Resting
<1> QED
  BY <1>12 DEF d

\* The handshake has failed or taken too long: its socket is closed first.
LEMMA HandshakeFails ==
    ASSUME NEW a, NEW o \in Objects, Waiting(a, o), a.connect[o] \in Numbers
    PROVE  LET b == [CloseFd(a, a.connect[o]) EXCEPT !.deadline = @ \ {o}, !.connect[o] = None]
           IN  Failing(b, o)
<1> DEFINE b == [CloseFd(a, a.connect[o]) EXCEPT !.deadline = @ \ {o}, !.connect[o] = None]
           connect == [a.connect EXCEPT ![o] = None]
<1>0. None \notin Numbers /\ a \in AttemptRecords /\ a.connect[o] # None
      /\ a.open = {a.connect[o]} /\ a.deadline = {o} /\ a.socket[o] = None
  BY RoomAssumption DEF Waiting, OnlyOf
<1>1. a.open \ {a.connect[o]} = {} /\ a.deadline \ {o} = {}
  BY <1>0
<1>2. b = [a EXCEPT !.open = a.open \ {a.connect[o]}, !.deadline = a.deadline \ {o}, !.connect = connect]
  BY <1>0 DEF CloseFd, AttemptRecords
<1>3. b = [a EXCEPT !.open = {}, !.deadline = {}, !.connect = connect]
  BY <1>1, <1>2
<1>4. connect \in [Objects -> Numbers \cup {None}] /\ connect[o] = None
      /\ \A p \in Objects \ {o} : connect[p] = None
  BY <1>0 DEF Waiting, OnlyOf, AttemptRecords
<1> HIDE DEF connect, b
<1>5. b \in AttemptRecords
  BY <1>0, <1>3, <1>4 DEF AttemptRecords
<1>6. Failing(b, o)
  BY <1>0, <1>3, <1>4, <1>5 DEF Waiting, Failing, OnlyOf, AttemptRecords
<1> QED
  BY <1>6 DEF b

\* The inductive invariant, of the attempts as they are.
AttemptsSafe == AttemptsInv(attempts)

\* An attempt that is alive, or under its timer, is the one that waits.
LEMMA AttemptWaits ==
    ASSUME AttemptsSafe, NEW o, o \in attempts.live \/ o \in attempts.deadline
    PROVE  o \in Objects /\ Waiting(attempts, o)
  BY DEF AttemptsSafe, AttemptsInv, Settled, Resting, Waiting, OnlyOf

\* ConnectSocket::OnEvent()
LEMMA ConnectEventStep == ASSUME AttemptsSafe, ConnectEvent PROVE AttemptsSafe'
<1> DEFINE A(o) == [attempts EXCEPT !.deadline = @ \ {o}, !.connect[o] = None]
<1>1. PICK o \in attempts.live :
        /\ attempts.connect[o] # None
        /\ attempts' \in IF attempts.peer[attempts.connect[o]] = "refused"
                         THEN SocketError(CloseFd(A(o), attempts.connect[o]), o)
                         ELSE {[A(o) EXCEPT !.socket[o] = attempts.connect[o]]}
  BY DEF ConnectEvent
<1> DEFINE n == attempts.connect[o]
<1>2. o \in Objects /\ Waiting(attempts, o) /\ None \notin Numbers /\ attempts \in AttemptRecords
  BY AttemptWaits, RoomAssumption DEF Waiting, OnlyOf
<1>3. n \in Numbers /\ attempts.socket[o] = None /\ attempts.open = {n} /\ attempts.deadline = {o}
  BY <1>1, <1>2 DEF Waiting
<1>4. CASE attempts.peer[n] = "refused"
  <2> DEFINE b == [CloseFd(attempts, n) EXCEPT !.deadline = @ \ {o}, !.connect[o] = None]
  <2>1. Failing(b, o)
    BY <1>2, <1>3, HandshakeFails
  <2>2. CloseFd(A(o), n) = b
    BY <1>2 DEF CloseFd, AttemptRecords
  <2> QED
    BY <1>1, <1>2, <1>4, <2>1, <2>2, SocketErrorStep DEF AttemptsSafe
<1>5. CASE attempts.peer[n] # "refused"
  <2> DEFINE connect == [attempts.connect EXCEPT ![o] = None]
             socket == [attempts.socket EXCEPT ![o] = n]
  <2>1. attempts.deadline \ {o} = {}
    BY <1>3
  <2>2. attempts' = [attempts EXCEPT !.deadline = attempts.deadline \ {o}, !.connect = connect, !.socket = socket]
    BY <1>1, <1>2, <1>5 DEF AttemptRecords
  <2>3. attempts' = [attempts EXCEPT !.deadline = {}, !.connect = connect, !.socket = socket]
    BY <2>1, <2>2
  <2>4. /\ connect \in [Objects -> Numbers \cup {None}] /\ connect[o] = None
        /\ socket \in [Objects -> Numbers \cup {None}] /\ socket[o] = n
        /\ \A p \in Objects \ {o} : connect[p] = None /\ socket[p] = None
    BY <1>2, <1>3 DEF Waiting, OnlyOf, AttemptRecords
  <2> HIDE DEF connect, socket
  <2>5. attempts' \in AttemptRecords
    BY <1>2, <2>3, <2>4 DEF AttemptRecords
  <2>6. Waiting(attempts', o)
    BY <1>2, <1>3, <2>3, <2>4, <2>5 DEF Waiting, OnlyOf, AttemptRecords
  <2>7. o # None /\ attempts'.ptr = o
    BY <1>2, <2>6, RoomAssumption DEF Waiting
  <2> QED
    BY <1>2, <2>6, <2>7 DEF AttemptsSafe, AttemptsInv, Settled
<1> QED
  BY <1>4, <1>5

\* ConnectSocket::OnTimeout()
LEMMA ConnectTimeoutStep == ASSUME AttemptsSafe, ConnectTimeout PROVE AttemptsSafe'
<1>1. PICK o \in attempts.deadline :
        attempts' \in SocketError([CloseFd(attempts, attempts.connect[o])
                                      EXCEPT !.deadline = @ \ {o}, !.connect[o] = None], o)
  BY DEF ConnectTimeout
<1>2. o \in Objects /\ Waiting(attempts, o) /\ attempts.connect[o] \in Numbers
  BY AttemptWaits DEF Waiting
<1> QED
  BY <1>1, <1>2, HandshakeFails, SocketErrorStep DEF AttemptsSafe

\* AsyncMpdConnect::OnReceive()
LEMMA ReceiveWelcomeStep == ASSUME AttemptsSafe, ReceiveWelcome PROVE AttemptsSafe'
<1>1. PICK o \in attempts.live :
        /\ attempts.socket[o] # None
        /\ attempts' \in IF attempts.peer[attempts.socket[o]] = "rubbish" THEN SocketError(attempts, o)
                         ELSE {Delete(b, o) :
                                  b \in Connected([attempts EXCEPT !.socket[o] = None], attempts.socket[o])}
  BY DEF ReceiveWelcome
<1>2. o \in Objects /\ Waiting(attempts, o) /\ None \notin Numbers
  BY AttemptWaits, RoomAssumption
<1>3. attempts.socket[o] \in Numbers /\ attempts.connect[o] = None
  BY <1>1, <1>2 DEF Waiting
<1>4. Failing(attempts, o)
  BY <1>2, <1>3 DEF Waiting, Failing
<1>5. CASE attempts' \in SocketError(attempts, o)
  BY <1>2, <1>4, <1>5, SocketErrorStep DEF AttemptsSafe
<1>6. CASE attempts' \in {Delete(b, o) :
                            b \in Connected([attempts EXCEPT !.socket[o] = None], attempts.socket[o])}
  BY <1>2, <1>3, <1>6, ConnectedStep DEF AttemptsSafe
<1> QED
  BY <1>1, <1>5, <1>6

\* DoConnect(), after the timer or for the user
LEMMA ConnectStep ==
    ASSUME AttemptsSafe, Reconnect \/ ChooseServer
    PROVE  AttemptsSafe'
<1>0. attempts \in AttemptRecords /\ Settled(attempts)
  BY DEF AttemptsSafe, AttemptsInv, Settled, Resting, Waiting, OnlyOf
<1>1. PICK r \in BOOLEAN, s \in {"default", "custom", "fallback"}, k \in Nat :
        attempts' \in StartConnect(Hangup([attempts EXCEPT !.reconnect = r, !.settings = s, !.choices = k]))
  <2>1. CASE Reconnect
    <3> DEFINE s == IF attempts.settings = "fallback" THEN "default" ELSE attempts.settings
    <3>1. attempts' \in StartConnect(Hangup([attempts EXCEPT !.reconnect = FALSE, !.settings = s]))
      BY <2>1 DEF Reconnect
    <3>2. s \in {"default", "custom", "fallback"} /\ attempts.choices \in Nat
      BY <1>0 DEF AttemptRecords
    <3> HIDE DEF s
    <3>3. [attempts EXCEPT !.reconnect = FALSE, !.settings = s]
            = [attempts EXCEPT !.reconnect = FALSE, !.settings = s, !.choices = attempts.choices]
      BY <1>0 DEF AttemptRecords
    <3> QED
      BY <3>1, <3>2, <3>3
  <2>2. CASE ChooseServer
    <3>1. PICK server \in {"default", "custom"} :
            attempts' \in StartConnect(Hangup([attempts EXCEPT !.settings = server, !.choices = @ + 1]))
      BY <2>2 DEF ChooseServer
    <3>2. attempts.choices + 1 \in Nat /\ attempts.reconnect \in BOOLEAN
      BY <1>0 DEF AttemptRecords
    <3>3. [attempts EXCEPT !.settings = server, !.choices = @ + 1]
            = [attempts EXCEPT !.reconnect = attempts.reconnect, !.settings = server,
                               !.choices = attempts.choices + 1]
      BY <1>0 DEF AttemptRecords
    <3> QED
      BY <3>1, <3>2, <3>3
  <2> QED
    BY <2>1, <2>2
<1> DEFINE a == [attempts EXCEPT !.reconnect = r, !.settings = s, !.choices = k]
<1>2. Settled(a)
  BY <1>0, SettingsStep
<1> HIDE DEF a
<1>3. Resting(Hangup(a)) /\ Hangup(a).conn = None
  BY <1>2, HangupStep
<1> QED
  BY <1>1, <1>3, StartConnectStep DEF AttemptsSafe, a

\* Disconnect() and OnMpdConnectionLost()
LEMMA LoseConnectionStep == ASSUME AttemptsSafe, LoseConnection PROVE AttemptsSafe'
<1> DEFINE h == Hangup(attempts)
<1>1. attempts' = [h EXCEPT !.reconnect = TRUE]
  BY DEF LoseConnection
<1>2. Resting(h) /\ h.conn = None
  BY HangupStep DEF AttemptsSafe, AttemptsInv
<1> HIDE DEF h
<1>3. attempts' \in AttemptRecords
  BY <1>1, <1>2 DEF Resting, OnlyOf, AttemptRecords
<1> QED
  BY <1>1, <1>2, <1>3 DEF AttemptsSafe, AttemptsInv, Settled, Resting, OnlyOf, AttemptRecords

\* What the peer does is not seen until the loop looks.
LEMMA PeerAnswersStep == ASSUME AttemptsSafe, PeerAnswers PROVE AttemptsSafe'
<1>0. attempts \in AttemptRecords
  BY DEF AttemptsSafe, AttemptsInv, Settled, Resting, Waiting, OnlyOf
<1>1. PICK n \in attempts.open, answer \in Peers : attempts' = [attempts EXCEPT !.peer[n] = answer]
  BY DEF PeerAnswers
<1> DEFINE peer == [attempts.peer EXCEPT ![n] = answer]
<1>2. peer \in [Numbers -> Peers] /\ attempts' = [attempts EXCEPT !.peer = peer]
  BY <1>0, <1>1 DEF AttemptRecords
<1> HIDE DEF peer
<1>3. attempts' \in AttemptRecords
  BY <1>0, <1>2 DEF AttemptRecords
<1> QED
  BY <1>0, <1>2, <1>3
     DEF AttemptsSafe, AttemptsInv, Settled, Resting, Waiting, OnlyOf, AttemptRecords

\* What the invariant says: one attempt, one owner of each descriptor, and something to come.
LEMMA AttemptsSafeImplies == AttemptsSafe => AttemptsSound
<1> SUFFICES ASSUME AttemptsSafe PROVE AttemptsSound
  OBVIOUS
<1>0. None \notin Objects /\ None \notin Numbers /\ attempts \in AttemptRecords
  BY RoomAssumption DEF AttemptsSafe, AttemptsInv, Settled, Resting, Waiting, OnlyOf
<1>1. AttemptsTypeOK
  BY <1>0 DEF AttemptsTypeOK, AttemptRecords
<1>2. NeverAtRest
  BY DEF AttemptsSafe, AttemptsInv, NeverAtRest
<1>3. CASE Resting(attempts)
  <2>1. OneAttempt
    BY <1>3 DEF OneAttempt, Resting, OnlyOf
  <2>2. \A o \in Objects : attempts.connect[o] = None /\ attempts.socket[o] = None
    BY <1>3 DEF Resting, OnlyOf
  <2>3. SocketsOwned
    BY <1>3, <2>2 DEF SocketsOwned, Resting, OnlyOf
  <2> QED
    BY <1>1, <1>2, <2>1, <2>3 DEF AttemptsSound
<1>4. ASSUME NEW o \in Objects, Waiting(attempts, o) PROVE AttemptsSound
  <2>1. OneAttempt
    BY <1>0, <1>4 DEF OneAttempt, Waiting, OnlyOf
  <2>2. \A p \in Objects : p # o => attempts.connect[p] = None /\ attempts.socket[p] = None
    BY <1>4 DEF Waiting, OnlyOf
  <2>3. attempts.open = ({attempts.connect[p] : p \in Objects} \cup {attempts.socket[p] : p \in Objects}
                            \cup {attempts.conn}) \ {None}
    BY <1>0, <1>4, <2>2 DEF Waiting
  <2>4. SocketsOwned
    BY <1>0, <1>4, <2>3 DEF SocketsOwned, Waiting, OnlyOf
  <2> QED
    BY <1>1, <1>2, <2>1, <2>4 DEF AttemptsSound
<1> QED
  BY <1>3, <1>4 DEF AttemptsSafe, AttemptsInv, Settled

\* However attempts fail, in their own Start(), by timeout or by what they receive: mpdclient knows
\* the one that exists, none is deleted twice, no descriptor is leaked or closed under its owner,
\* and there is always something that leads to a connection.
THEOREM AttemptsAreSound == AttemptsSpec => []AttemptsSound
<1>1. AttemptsInit => AttemptsSafe
  <2> SUFFICES ASSUME AttemptsInit PROVE AttemptsSafe
    OBVIOUS
  <2>1. attempts \in AttemptRecords
    <3>1. PICK fallback \in BOOLEAN :
            attempts = [ptr |-> None, live |-> {}, connect |-> [o \in Objects |-> None],
                        deadline |-> {}, socket |-> [o \in Objects |-> None],
                        conn |-> None, reconnect |-> TRUE,
                        settings |-> "default", fallback |-> fallback,
                        open |-> {}, peer |-> [n \in Numbers |-> "nothing"],
                        choices |-> 0, wrong |-> FALSE]
      BY DEF AttemptsInit
    <3> DEFINE none == [o \in Objects |-> None]
               peer == [n \in Numbers |-> "nothing"]
    <3>2. none \in [Objects -> Numbers \cup {None}] /\ peer \in [Numbers -> Peers]
      BY DEF Peers
    <3> HIDE DEF none, peer
    <3> QED
      BY <3>1, <3>2 DEF AttemptRecords, none, peer
  <2>2. attempts.open = {} /\ {attempts.conn} \ {None} = {}
    BY DEF AttemptsInit
  <2> QED
    BY <2>1, <2>2 DEF AttemptsInit, AttemptsSafe, AttemptsInv, Settled, Resting, OnlyOf
<1>2. AttemptsSafe /\ [AttemptsNext]_attempts => AttemptsSafe'
  BY ConnectEventStep, ConnectTimeoutStep, ReceiveWelcomeStep, ConnectStep, LoseConnectionStep,
     PeerAnswersStep DEF AttemptsNext, AttemptsSafe
<1> QED
  BY <1>1, <1>2, AttemptsSafeImplies, PTL DEF AttemptsSpec

-----------------------------------------------------------------------------
(* The dialogue of idle mode: lines and queues of commands *)

\* The lines MPD sends: changed ones belong to idle mode, and nothing but garbage belongs to no
\* command.
Lines ==
    {l \in [kind : {"ok", "ack", "garbage"}, of : {"idle", "request", "none"}] :
        l.kind = "garbage" <=> l.of = "none"}
    \cup [kind : {"changed"}, of : {"idle"}, event : Subsystems]

\* What is on the way to the client answers one command, and but garbage follows the end.
Answer(w, a) ==
    /\ w \in Seq(Lines)
    /\ \A j \in DOMAIN w : w[j].of \in {a, "none"}
    /\ \A j, l \in DOMAIN w : Ends(w[j]) /\ j < l => w[l].of = "none"

\* No garbage, as long as the connection holds.
Clean(w) == \A j \in DOMAIN w : w[j].of # "none"

\* The end of the answer is there.
Ended(w) == \E j \in DOMAIN w : Ends(w[j])

\* The events on the way.
EventsOn(w) == {w[j].event : j \in {l \in DOMAIN w : ~Ends(w[l])}}

\* It is MPD that has left idle mode.
Success(w) == \E j \in DOMAIN w : w[j].kind = "ok"

\* The commands, and what MPD may find when it reads next
Commands == {"idle", "noidle", "request"}
\* What there may be for MPD to read
Sendable ==
    {<<>>, <<"idle">>, <<"noidle">>, <<"request">>, <<"noidle", "idle">>, <<"noidle", "request">>,
     <<"idle", "noidle">>, <<"noidle", "idle", "noidle">>}

\* The last element of a pair and of a triple has been appended.
LEMMA PairAndTriple ==
    /\ \A b, c \in Commands : Append(<<b>>, c) = <<b, c>>
    /\ \A a, b, c \in Commands : Append(<<a, b>>, c) = <<a, b, c>>
<1>1. ASSUME NEW b \in Commands, NEW c \in Commands PROVE Append(<<b>>, c) = <<b, c>>
  <2> DEFINE s == <<b>>
             t == <<b, c>>
  <2>1. s \in Seq(Commands) /\ Len(s) = 1 /\ s[1] = b
    OBVIOUS
  <2>2. t \in Seq(Commands) /\ Len(t) = 2 /\ t[1] = b /\ t[2] = c
    OBVIOUS
  <2> HIDE DEF s, t
  <2>3. /\ Append(s, c) \in Seq(Commands) /\ Len(Append(s, c)) = 2
        /\ Append(s, c)[1] = b /\ Append(s, c)[2] = c
    BY <2>1, AppendProperties DEF Commands, s
  <2>4. Append(s, c) = t
    BY <2>2, <2>3, SeqEqual
  <2> QED
    BY <2>4 DEF s, t
<1>2. ASSUME NEW a \in Commands, NEW b \in Commands, NEW c \in Commands
      PROVE  Append(<<a, b>>, c) = <<a, b, c>>
  <2> DEFINE s == <<a, b>>
             t == <<a, b, c>>
  <2>1. s \in Seq(Commands) /\ Len(s) = 2 /\ s[1] = a /\ s[2] = b
    OBVIOUS
  <2>2. t \in Seq(Commands) /\ Len(t) = 3 /\ t[1] = a /\ t[2] = b /\ t[3] = c
    OBVIOUS
  <2> HIDE DEF s, t
  <2>3. /\ Append(s, c) \in Seq(Commands) /\ Len(Append(s, c)) = 3
        /\ Append(s, c)[1] = a /\ Append(s, c)[2] = b /\ Append(s, c)[3] = c
    BY <2>1, AppendProperties DEF Commands, s
  <2>4. Append(s, c) = t
    BY <2>2, <2>3, SeqEqual
  <2> QED
    BY <2>4 DEF s, t
<1> QED
  BY <1>1, <1>2

\* What is written goes behind what MPD has not read yet.
LEMMA Writing ==
    /\ Sendable \subseteq Seq(Commands)
    /\ \A s \in Sendable : s \o <<>> = s
    /\ \A s \in Sendable, c \in Commands : s \o <<>> \o <<c>> = Append(s, c) /\ s \o <<c>> = Append(s, c)
    /\ \A s \in Sendable, b, c \in Commands : s \o <<b>> \o <<c>> = Append(Append(s, b), c)
<1>1. Sendable \subseteq Seq(Commands)
  BY DEF Sendable, Commands
<1>2. ASSUME NEW s \in Seq(Commands) PROVE s \o <<>> = s
  BY <1>2, ConcatEmptySeq
<1>3. ASSUME NEW s \in Seq(Commands), NEW c \in Commands
      PROVE  s \o <<c>> = Append(s, c) /\ Append(s, c) \in Seq(Commands)
  BY <1>3, AppendIsConcat, AppendProperties
<1> HIDE DEF Sendable, Commands
<1> QED
  BY <1>1, <1>2, <1>3

\* The queues that occur
LEMMA Queues ==
    /\ Append(<<>>, "idle") = <<"idle">> /\ Append(<<>>, "noidle") = <<"noidle">>
    /\ Append(<<>>, "request") = <<"request">>
    /\ Append(<<"noidle">>, "idle") = <<"noidle", "idle">>
    /\ Append(<<"noidle">>, "request") = <<"noidle", "request">>
    /\ Append(<<"idle">>, "noidle") = <<"idle", "noidle">>
    /\ Append(<<"noidle", "idle">>, "noidle") = <<"noidle", "idle", "noidle">>
<1>1. "idle" \in Commands /\ "noidle" \in Commands /\ "request" \in Commands
  BY DEF Commands
<1>2. /\ Append(<<"noidle">>, "idle") = <<"noidle", "idle">>
      /\ Append(<<"noidle">>, "request") = <<"noidle", "request">>
      /\ Append(<<"idle">>, "noidle") = <<"idle", "noidle">>
  BY <1>1, PairAndTriple, Zenon
<1>3. Append(<<"noidle", "idle">>, "noidle") = <<"noidle", "idle", "noidle">>
  BY <1>1, PairAndTriple, Zenon
<1>4. /\ Append(<<>>, "idle") = <<"idle">> /\ Append(<<>>, "noidle") = <<"noidle">>
      /\ Append(<<>>, "request") = <<"request">>
  OBVIOUS
<1> QED
  BY <1>2, <1>3, <1>4, Zenon
\* The kinds of lines
LEMMA LineFacts ==
    ASSUME NEW l \in Lines
    PROVE  /\ l.kind \in {"changed", "ok", "ack", "garbage"} /\ l.of \in {"idle", "request", "none"}
           /\ Ends(l) <=> l.kind # "changed"
           /\ ~Ends(l) => l.of = "idle" /\ l.event \in Subsystems
           /\ l.kind = "garbage" <=> l.of = "none"
  BY DEF Lines, Ends

\* The lines MPD makes
LEMMA LinesMade ==
    /\ \A e \in Subsystems : Changed(e) \in Lines /\ ~Ends(Changed(e)) /\ Changed(e).of = "idle"
                             /\ Changed(e).event = e
    /\ \A k \in {"ok", "ack"}, o \in {"idle", "request"} :
          Line(k, o) \in Lines /\ Ends(Line(k, o)) /\ Line(k, o).of = o /\ Line(k, o).kind = k
    /\ Line("garbage", "none") \in Lines /\ Ends(Line("garbage", "none"))
       /\ Line("garbage", "none").of = "none" /\ Line("garbage", "none").kind = "garbage"
  BY DEF Lines, Changed, Line, Ends

\* Every set of numbers has a least one.
LEMMA LeastOf ==
    ASSUME NEW S \in SUBSET Nat, S # {}
    PROVE  \E j \in S : \A l \in S : j <= l
<1> DEFINE Less == OpToRel(<, Nat)
<1>1. IsWellFoundedOn(Less, Nat)
  BY NatLessThanWellFounded
<1>2. \A x, y \in Nat : x < y => <<x, y>> \in Less
  BY DEF OpToRel
<1> HIDE DEF Less
<1>3. \E m \in S : \A x \in S : <<x, m>> \notin Less
  BY <1>1, WFMin, Zenon
<1>4. \E m \in S : \A x \in S : ~(x < m)
  BY <1>2, <1>3, Zenon
<1> QED
  BY <1>4

\* The types of what mpdclient, its source of idle events and MPD keep
TalkRecords ==
    [known : SUBSET Subsystems, link : BOOLEAN, pending : SUBSET Subsystems, idling : BOOLEAN,
     sent : Sendable, wire : Seq(Lines), conn : BOOLEAN, idle : BOOLEAN, timer : BOOLEAN,
     io : {{}, {"read"}, {"read", "write"}}, out : Seq(Commands), got : SUBSET Subsystems,
     pc : Phases, owed : SUBSET Subsystems]

\* The events are put into a sequence, each of them.
LEMMA NewsInSequence ==
    ASSUME NEW S \in SUBSET Subsystems
    PROVE  LET n == SetToSeq(S)
           IN  /\ n \in [1..Cardinality(S) -> S] /\ Cardinality(S) \in Nat
               /\ \A e \in S : \E k \in DOMAIN n : n[k] = e
<1>1. IsFiniteSet(S) /\ Cardinality(S) \in Nat /\ ExistsBijection(1..Cardinality(S), S)
  <2>1. IsFiniteSet(S)
    BY KnownAssumption, FS_Subset
  <2> QED
    BY <2>1, FS_CardinalityType
<1> DEFINE N == 1..Cardinality(S)
           n == SetToSeq(S)
<1>2. n \in [N -> S] /\ IsInjective(n)
  <2>1. \E f \in [N -> S] : IsInjective(f)
    BY <1>1 DEF ExistsBijection, Bijection, Injection
  <2> QED
    BY <2>1 DEF SetToSeq
<1>3. IsFiniteSet(N) /\ Cardinality(N) = Cardinality(S)
  <2>1. 1 \in Int /\ Cardinality(S) \in Int
    BY <1>1
  <2>2. IsFiniteSet(N) /\ Cardinality(N) = IF 1 > Cardinality(S) THEN 0 ELSE Cardinality(S) - 1 + 1
    BY <2>1, FS_Interval
  <2> QED
    BY <1>1, <2>2
<1>4. n \in Surjection(N, S)
  <2>1. n \in Injection(N, S)
    BY <1>2 DEF Injection
  <2> QED
    BY <1>1, <1>3, <2>1, FS_Injection
<1>5. \A e \in S : \E k \in N : n[k] = e
  BY <1>4 DEF Surjection, Range
<1> QED
  BY <1>1, <1>2, <1>5

\* The end of idle mode puts a complete answer on the way, with all the news.
LEMMA NotifyStep ==
    ASSUME NEW t \in TalkRecords, t.wire = <<>>
    PROVE  \E w \in Seq(Lines) :
              /\ Notify(t) = [t EXCEPT !.wire = w, !.pending = {}, !.idling = FALSE]
              /\ Answer(w, "idle") /\ Clean(w) /\ Ended(w) /\ EventsOn(w) = t.pending
<1> DEFINE news == SetToSeq(t.pending)
           N == Cardinality(t.pending)
           m == [k \in DOMAIN news |-> Changed(news[k])]
           ok == Line("ok", "idle")
           w == <<>> \o m \o <<ok>>
<1>1. /\ news \in [1..N -> t.pending] /\ N \in Nat
      /\ \A e \in t.pending : \E k \in 1..N : news[k] = e
      /\ t.pending \subseteq Subsystems
  <2>1. t.pending \in SUBSET Subsystems
    BY DEF TalkRecords
  <2> QED
    BY <2>1, NewsInSequence
<1>2. Notify(t) = [t EXCEPT !.wire = w, !.pending = {}, !.idling = FALSE]
  BY DEF Notify, TalkRecords
<1>3. m \in Seq(Lines) /\ Len(m) = N /\ \A k \in 1..N : m[k] = Changed(news[k])
  <2>1. DOMAIN news = 1..N /\ \A k \in 1..N : news[k] \in Subsystems
    BY <1>1
  <2>2. m \in [1..N -> Lines] /\ \A k \in 1..N : m[k] = Changed(news[k])
    BY <2>1, LinesMade
  <2> HIDE DEF m
  <2>3. m \in Seq(Lines) /\ Len(m) = N
    BY <1>1, <2>2
  <2> QED
    BY <2>2, <2>3
<1>4. ok \in Lines /\ Ends(ok) /\ ok.of = "idle" /\ ok.kind = "ok"
  BY LinesMade
<1> HIDE DEF m, news, ok
<1>5. w = Append(m, ok)
  BY <1>3, <1>4, ConcatEmptySeq, AppendIsConcat
<1> HIDE DEF w, N
<1>6. w \in Seq(Lines) /\ Len(w) = N + 1 /\ w[N + 1] = ok /\ \A k \in 1..N : w[k] = Changed(news[k])
  BY <1>1, <1>3, <1>4, <1>5, AppendProperties
<1>7. DOMAIN w = 1..(N + 1) /\ \A j \in 1..(N + 1) : j # N + 1 => j \in 1..N
  BY <1>1, <1>6, LenProperties
<1>8. \A k \in 1..N : ~Ends(w[k]) /\ w[k].of = "idle" /\ w[k].event = news[k] /\ k \in DOMAIN w
  <2>1. \A k \in 1..N : news[k] \in Subsystems /\ k \in 1..(N + 1)
    BY <1>1
  <2> QED
    BY <1>6, <1>7, <2>1, LinesMade
<1>9. Answer(w, "idle")
  <2>1. \A j \in DOMAIN w : w[j].of = "idle"
    BY <1>4, <1>6, <1>7, <1>8
  <2>2. ASSUME NEW j \in DOMAIN w, NEW l \in DOMAIN w, Ends(w[j]), j < l PROVE FALSE
    BY <1>1, <1>7, <1>8, <2>2
  <2> QED
    BY <1>6, <2>1, <2>2 DEF Answer
<1>10. Clean(w) /\ Ended(w)
  <2>1. N + 1 \in DOMAIN w
    BY <1>1, <1>7
  <2> QED
    BY <1>4, <1>6, <1>7, <1>8, <2>1 DEF Clean, Ended
<1>11. EventsOn(w) = t.pending
  <2>1. ASSUME NEW e \in EventsOn(w) PROVE e \in t.pending
    <3>1. PICK j \in DOMAIN w : ~Ends(w[j]) /\ e = w[j].event
      BY <2>1 DEF EventsOn
    <3>2. j \in 1..N
      BY <1>4, <1>6, <1>7, <3>1
    <3> QED
      BY <1>1, <1>8, <3>1, <3>2
  <2>2. ASSUME NEW e \in t.pending PROVE e \in EventsOn(w)
    BY <1>1, <1>8 DEF EventsOn
  <2> QED
    BY <2>1, <2>2
<1> QED
  BY <1>2, <1>6, <1>9, <1>10, <1>11

\* The lines read at once: those up to the first that ends the answer.
LEMMA ConsumedStep ==
    ASSUME NEW t, t.wire \in Seq(Lines), NEW k \in 1..Len(t.wire)
    PROVE  LET n == Consumed(t, k)
           IN  /\ n \in 1..k
               /\ \A j \in 1..(n - 1) : ~Ends(t.wire[j])
               /\ ~Ends(t.wire[n]) => n = k
<1> DEFINE ends == {j \in 1..k : Ends(t.wire[j])}
           n == Consumed(t, k)
<1>1. k \in Nat /\ k >= 1 /\ ends \in SUBSET Nat
  OBVIOUS
<1>2. CASE ends = {}
  <2>1. n = k
    BY <1>2 DEF Consumed
  <2>2. \A j \in 1..k : ~Ends(t.wire[j])
    BY <1>2
  <2> QED
    BY <1>1, <2>1, <2>2
<1>3. CASE ends # {}
  <2>1. \E j \in ends : \A l \in ends : j <= l
    BY <1>1, <1>3, LeastOf
  <2>2. n = CHOOSE j \in ends : \A l \in ends : j <= l
    BY <1>3 DEF Consumed
  <2>3. n \in ends /\ \A l \in ends : n <= l
    BY <2>1, <2>2
  <2>4. n \in 1..k /\ Ends(t.wire[n])
    BY <2>3
  <2>5. ASSUME NEW j \in 1..(n - 1), Ends(t.wire[j]) PROVE FALSE
    <3>1. j \in ends
      BY <2>4, <2>5
    <3> QED
      BY <2>3, <2>4, <3>1
  <2> QED
    BY <2>4, <2>5
<1> QED
  BY <1>2, <1>3

\* What is left of a sequence when its beginning has been read
LEMMA SubsequenceOf ==
    ASSUME NEW w \in Seq(Lines), NEW n \in 1..Len(w)
    PROVE  LET rest == SubSeq(w, n + 1, Len(w))
           IN  /\ rest \in Seq(Lines) /\ Len(rest) = Len(w) - n /\ DOMAIN rest = 1..(Len(w) - n)
               /\ \A i \in DOMAIN rest : n + i \in DOMAIN w /\ rest[i] = w[n + i]
<1> DEFINE rest == SubSeq(w, n + 1, Len(w))
<1>0. w \in Seq(Lines) /\ Len(w) \in Nat /\ DOMAIN w = 1..Len(w) /\ n \in Nat /\ n >= 1 /\ n <= Len(w)
  BY LenProperties
<1>1. /\ rest \in Seq(Lines) /\ Len(rest) = Len(w) - n
      /\ \A i \in 1..(Len(w) - n) : rest[i] = w[n + i]
  <2>1. \A i \in (n + 1)..Len(w) : w[i] \in Lines
    BY <1>0, ElementOfSeq
  <2>2. n + 1 \in Int /\ Len(w) \in Int
    BY <1>0
  <2>3. /\ rest \in Seq(Lines)
        /\ Len(rest) = IF n + 1 <= Len(w) THEN Len(w) - (n + 1) + 1 ELSE 0
        /\ \A i \in 1..(Len(w) - (n + 1) + 1) : rest[i] = w[(n + 1) + i - 1]
    BY <2>1, <2>2, SubSeqProperties
  <2>4. (Len(w) - (n + 1) + 1) = Len(w) - n /\ \A i \in 1..(Len(w) - n) : (n + 1) + i - 1 = n + i
    BY <1>0
  <2> HIDE DEF rest
  <2>5. Len(rest) = Len(w) - n
    <3>1. CASE n + 1 <= Len(w)
      BY <2>3, <2>4, <3>1, Zenon
    <3>2. CASE n = Len(w)
      <4>1. (n + 1 <= Len(w)) = FALSE /\ Len(w) - n = 0
        BY <1>0, <3>2
      <4>2. Len(rest) = 0
        BY <2>3, <4>1
      <4> QED
        BY <4>1, <4>2
    <3>3. n + 1 <= Len(w) \/ n = Len(w)
      <4>1. \A x, y \in Nat : x <= y => x + 1 <= y \/ x = y
        OBVIOUS
      <4> QED
        BY <1>0, <4>1, Zenon
    <3> QED
      BY <3>1, <3>2, <3>3, Zenon
  <2> QED
    BY <2>3, <2>4, <2>5
<1>2. DOMAIN rest = 1..(Len(w) - n)
  BY <1>0, <1>1, LenProperties
<1> HIDE DEF rest
<1>3. \A i \in DOMAIN rest : n + i \in DOMAIN w /\ rest[i] = w[n + i]
  BY <1>0, <1>1, <1>2
<1> QED
  BY <1>1, <1>2, <1>3 DEF rest

\* What is left when n lines have been read, of which the last may be the end.
LEMMA RestOfAnswer ==
    ASSUME NEW w, NEW a, Answer(w, a), NEW n \in 1..Len(w), \A j \in 1..(n - 1) : ~Ends(w[j])
    PROVE  LET rest == SubSeq(w, n + 1, Len(w))
               read == {w[j].event : j \in {l \in 1..n : ~Ends(w[l])}}
           IN  /\ EventsOn(w) = read \cup EventsOn(rest)
               /\ Clean(w) => Clean(rest)
               /\ ~Ends(w[n]) => /\ Answer(rest, a) /\ (Ended(w) => Ended(rest))
                                 /\ (Success(w) => Success(rest))
               /\ Ends(w[n]) => /\ Answer(rest, "none") /\ EventsOn(rest) = {}
                                /\ (Clean(w) => rest = <<>>)
<1> DEFINE rest == SubSeq(w, n + 1, Len(w))
           read == {w[j].event : j \in {l \in 1..n : ~Ends(w[l])}}
<1>0. w \in Seq(Lines) /\ Len(w) \in Nat /\ DOMAIN w = 1..Len(w) /\ n \in Nat /\ n >= 1 /\ n <= Len(w)
  BY LenProperties DEF Answer
<1>1. /\ rest \in Seq(Lines) /\ Len(rest) = Len(w) - n /\ DOMAIN rest = 1..(Len(w) - n)
      /\ \A i \in 1..(Len(w) - n) : rest[i] = w[n + i]
  BY <1>0, SubsequenceOf
<1>2. DOMAIN rest = 1..(Len(w) - n)
  BY <1>1
<1> HIDE DEF rest
<1>3. EventsOn(w) = read \cup EventsOn(rest)
  <2>1. ASSUME NEW e \in EventsOn(w) PROVE e \in read \cup EventsOn(rest)
    <3>1. PICK j \in DOMAIN w : ~Ends(w[j]) /\ e = w[j].event
      BY <2>1 DEF EventsOn
    <3>2. CASE j <= n
      BY <1>0, <3>1, <3>2
    <3>3. CASE j > n
      <4>1. j - n \in DOMAIN rest /\ rest[j - n] = w[j]
        <5>1. j - n \in 1..(Len(w) - n) /\ n + (j - n) = j
          BY <1>0, <3>3
        <5> QED
          BY <1>1, <1>2, <5>1
      <4> QED
        BY <3>1, <4>1 DEF EventsOn
    <3> QED
      BY <1>0, <3>2, <3>3
  <2>2. read \subseteq EventsOn(w)
    BY <1>0 DEF EventsOn
  <2>3. ASSUME NEW e \in EventsOn(rest) PROVE e \in EventsOn(w)
    <3>1. PICK i \in DOMAIN rest : ~Ends(rest[i]) /\ e = rest[i].event
      BY <2>3 DEF EventsOn
    <3>2. n + i \in DOMAIN w /\ rest[i] = w[n + i]
      BY <1>0, <1>1, <1>2
    <3> QED
      BY <3>1, <3>2 DEF EventsOn
  <2> QED
    BY <2>1, <2>2, <2>3
<1>4. \A i \in DOMAIN rest : n + i \in DOMAIN w /\ rest[i] = w[n + i]
  BY <1>0, <1>1, <1>2
<1>5. \A i, l \in DOMAIN rest : i < l => n + i < n + l /\ n < n + l
  BY <1>0, <1>2
<1>6. Clean(w) => Clean(rest)
  BY <1>4 DEF Clean
<1>7. Answer(rest, a)
  BY <1>1, <1>4, <1>5 DEF Answer
<1>8. ASSUME ~Ends(w[n]) PROVE (Ended(w) => Ended(rest)) /\ (Success(w) => Success(rest))
  <2>1. ASSUME NEW j \in DOMAIN w, Ends(w[j]) PROVE j - n \in DOMAIN rest /\ rest[j - n] = w[j]
    <3>1. j > n
      BY <1>0, <1>8, <2>1
    <3>2. j - n \in 1..(Len(w) - n) /\ n + (j - n) = j
      BY <1>0, <3>1
    <3> QED
      BY <1>1, <1>2, <3>2
  <2>2. \A j \in DOMAIN w : w[j].kind = "ok" => Ends(w[j])
    BY DEF Ends
  <2> QED
    BY <2>1, <2>2 DEF Ended, Success
<1>9. ASSUME Ends(w[n])
      PROVE  Answer(rest, "none") /\ EventsOn(rest) = {} /\ (Clean(w) => rest = <<>>)
  <2>1. \A i \in DOMAIN rest : rest[i].of = "none" /\ n + i \in DOMAIN w
    <3>1. \A i \in DOMAIN rest : n \in DOMAIN w /\ n < n + i
      BY <1>0, <1>2
    <3> QED
      BY <1>4, <1>9, <3>1 DEF Answer
  <2>2. Answer(rest, "none")
    BY <1>7, <2>1 DEF Answer
  <2>3. \A i \in DOMAIN rest : Ends(rest[i])
    <3>1. \A i \in DOMAIN rest : rest[i] \in Lines
      BY <1>1, <1>2, ElementOfSeq
    <3> QED
      BY <2>1, <3>1, LineFacts
  <2>4. EventsOn(rest) = {}
    BY <2>3 DEF EventsOn
  <2>5. ASSUME Clean(w) PROVE rest = <<>>
    <3>1. DOMAIN rest = {}
      BY <1>6, <2>1, <2>5 DEF Clean
    <3>2. Len(rest) = 0
      <4>1. Len(rest) \in Nat /\ DOMAIN rest = 1..Len(rest)
        BY <1>0, <1>1, <1>2
      <4>2. Len(rest) > 0 => 1 \in DOMAIN rest
        BY <4>1
      <4> QED
        BY <3>1, <4>1, <4>2
    <3> QED
      BY <1>1, <3>2, EmptySeq
  <2> QED
    BY <2>2, <2>4, <2>5
<1> QED
  BY <1>3, <1>6, <1>7, <1>8, <1>9 DEF rest

-----------------------------------------------------------------------------
(* The inductive invariant of the dialogue. *)

\* Where the client waits for the answer to its own request
Requesting == {"update", "nested update", "command"}
\* Where it waits for the answer to "idle"
AwaitsIdle(t) == t.pc = "leave" \/ t.io # {}
\* The command whose answer it waits for
Expects(t) == IF AwaitsIdle(t) THEN "idle" ELSE IF t.pc \in Requesting THEN "request" ELSE "none"

\* What the client does: in idle mode, about to enter it, or busy
Client(t) ==
    /\ t.io # {} => t.idle
    /\ t.idle => t.pc = "loop" /\ ~t.timer
    /\ t.pc \in {"caller", "command"} => t.timer
    /\ t.pc \in {"leave", "update", "nested update"} => ~t.timer
    /\ t.pc = "loop" /\ t.conn => t.idle \/ t.timer
    /\ t.idle /\ t.io = {} => t.known # Subsystems
    /\ t.link => t.out = IF "write" \in t.io THEN <<"idle">> ELSE <<>>
    /\ t.known \in {Known, Subsystems} /\ t.got \subseteq t.known /\ t.owed \subseteq t.known
    /\ ~t.conn => t = NoTalk(t.known)

\* Nobody has to answer: a client that is busy, deaf or about to enter idle mode.
Still(t) ==
    /\ ~AwaitsIdle(t) /\ t.pc \notin Requesting
    /\ t.wire = <<>> /\ ~t.idling /\ t.sent \in {<<>>, <<"noidle">>}

\* MPD has yet to read the request, or has answered it.
Asked(t) ==
    /\ t.pc \in Requesting /\ ~t.idling
    /\ \/ t.wire = <<>> /\ t.sent \in {<<"request">>, <<"noidle", "request">>}
       \/ Ended(t.wire) /\ t.sent = <<>>

\* MPD has yet to read "idle", idles, or has answered.
InIdle(t) ==
    /\ t.io # {}
    /\ \/ /\ t.wire = <<>> /\ ~t.idling /\ t.got = {}
          /\ t.sent \in (IF "write" \in t.io THEN {<<>>, <<"noidle">>}
                         ELSE {<<"idle">>, <<"noidle", "idle">>})
       \/ t.wire = <<>> /\ t.idling /\ t.got = {} /\ t.sent = <<>> /\ "write" \notin t.io
       \/ Ended(t.wire) /\ ~t.idling /\ t.sent = <<>> /\ "write" \notin t.io

\* The same, with "noidle" behind it
Leaving(t) ==
    /\ t.pc = "leave"
    /\ \/ t.wire = <<>> /\ ~t.idling /\ t.sent \in {<<"idle", "noidle">>, <<"noidle", "idle", "noidle">>}
       \/ t.wire = <<>> /\ t.idling /\ t.sent = <<"noidle">>
       \/ Ended(t.wire) /\ ~t.idling /\ t.sent \in {<<>>, <<"noidle">>}

\* Whose turn it is, as long as the connection holds
Turn(t) ==
    /\ t.link => Clean(t.wire) /\ (Still(t) \/ Asked(t) \/ InIdle(t) \/ Leaving(t))
    /\ ~t.link => t.sent = <<>> /\ ~t.idling

\* What is owed is with MPD, on the way or with the client; and MPD does not leave idle mode by
\* itself for nothing.
News(t) ==
    /\ t.owed \subseteq t.pending \cup (IF AwaitsIdle(t) THEN t.got \cup EventsOn(t.wire) ELSE {})
    /\ t.io # {} /\ t.known = Subsystems /\ Success(t.wire) => t.got \cup EventsOn(t.wire) # {}

\* What every step of the dialogue keeps.
TalkInv(t) == t \in TalkRecords /\ Client(t) /\ Answer(t.wire, Expects(t)) /\ Turn(t) /\ News(t)

\* Nothing to write
LEMMA NothingToWrite == <<>> \in Seq(Commands) /\ <<>> \in Sendable
  BY DEF Sendable

\* Nothing on the way
LEMMA NothingOnTheWay ==
    /\ <<>> \in Seq(Lines) /\ \A a : Answer(<<>>, a)
    /\ Clean(<<>>) /\ ~Ended(<<>>) /\ EventsOn(<<>>) = {} /\ ~Success(<<>>)
  BY DEF Answer, Clean, Ended, EventsOn, Success

\* A client without a connection
LEMMA NoTalkStep ==
    ASSUME NEW known \in {Known, Subsystems}
    PROVE  TalkInv(NoTalk(known))
<1>1. NoTalk(known) \in TalkRecords
  BY KnownAssumption, NothingOnTheWay DEF NoTalk, TalkRecords, Sendable, Phases
<1> QED
  BY <1>1, NothingOnTheWay DEF TalkInv, NoTalk, Client, Turn, News, AwaitsIdle, Expects

\* Without a connection of mpdclient's there is none.
LEMMA HasConnection ==
    ASSUME NEW t, Client(t), t.link \/ t.idle \/ t.timer \/ t.pc # "loop"
    PROVE  t.conn
<1> SUFFICES ASSUME ~t.conn PROVE FALSE
  OBVIOUS
<1>1. t = NoTalk(t.known)
  BY DEF Client
<1>2. ~NoTalk(t.known).link /\ ~NoTalk(t.known).idle /\ ~NoTalk(t.known).timer
      /\ NoTalk(t.known).pc = "loop"
  BY DEF NoTalk
<1> QED
  BY <1>1, <1>2, Zenon

\* A new connection has nothing of the old one.
LEMMA TalkBeginsStep ==
    ASSUME NEW t, TalkInv(t),
           NEW n, n = [NoTalk(t.known) EXCEPT !.link = TRUE, !.conn = TRUE, !.timer = TRUE]
    PROVE  TalkInv(n)
<1>0. NoTalk(t.known) \in TalkRecords
  BY NoTalkStep DEF TalkInv, Client
<1>1. n \in TalkRecords
  BY <1>0 DEF TalkRecords
<1> QED
  BY <1>1, NothingOnTheWay
  DEF TalkInv, NoTalk, Client, Turn, Still, News, AwaitsIdle, Expects, Requesting, TalkRecords

\* MPD notes an event.
Raised(t, e) == [t EXCEPT !.pending = @ \cup {e}, !.owed = @ \cup ({e} \cap t.known)]

\* MPD remembers the event until it has been told.
LEMMA RaisedStep ==
    ASSUME NEW t, TalkInv(t), t.link, NEW e \in Subsystems
    PROVE  TalkInv(Raised(t, e)) /\ Raised(t, e).pending # {} /\ Raised(t, e).idling = t.idling
<1>1. Raised(t, e) \in TalkRecords
  BY DEF Raised, TalkInv, TalkRecords
<1> DEFINE n == Raised(t, e)
<1>2. /\ \A f \in {"known", "link", "idling", "sent", "wire", "conn", "idle", "timer", "io", "out",
                   "got", "pc"} : n[f] = t[f]
      /\ n.pending = t.pending \cup {e} /\ n.owed = t.owed \cup ({e} \cap t.known)
  BY DEF Raised, TalkInv, TalkRecords
<1> HIDE DEF n
<1>3. t.conn
  BY HasConnection DEF TalkInv
<1>4. Client(n)
  BY <1>2, <1>3 DEF TalkInv, Client
<1>5. Turn(n) /\ Answer(n.wire, Expects(n))
  BY <1>2 DEF TalkInv, Turn, Still, Asked, InIdle, Leaving, AwaitsIdle, Expects
<1>6. News(n)
  BY <1>2 DEF TalkInv, News, AwaitsIdle
<1> QED
  BY <1>1, <1>2, <1>4, <1>5, <1>6 DEF TalkInv, n

\* MPD leaves idle mode, be it that something happened or that it has been asked to.
LEMMA NotifiedStep ==
    ASSUME NEW t, t \in TalkRecords, Client(t), News(t), t.link, t.wire = <<>>, NEW n, n = Notify(t),
           \/ t.io # {} /\ "write" \notin t.io /\ t.sent = <<>> /\ t.pending # {}
           \/ t.pc = "leave" /\ t.sent \in {<<>>, <<"noidle">>}
    PROVE  TalkInv(n)
<1>1. PICK w \in Seq(Lines) :
         /\ n = [t EXCEPT !.wire = w, !.pending = {}, !.idling = FALSE]
         /\ Answer(w, "idle") /\ Clean(w) /\ Ended(w) /\ EventsOn(w) = t.pending
  BY NotifyStep
<1>2. n \in TalkRecords
  BY <1>1 DEF TalkRecords
<1>3. /\ \A f \in {"known", "link", "sent", "conn", "idle", "timer", "io", "out", "got", "pc", "owed"} :
           n[f] = t[f]
      /\ n.wire = w /\ n.pending = {} /\ ~n.idling
  BY <1>1 DEF TalkRecords
<1>4. t.conn
  BY HasConnection
<1>5. Client(n)
  BY <1>3, <1>4 DEF Client
<1>6. Turn(n) /\ Answer(n.wire, Expects(n))
  BY <1>1, <1>3 DEF Turn, InIdle, Leaving, AwaitsIdle, Expects
<1>7. News(n)
  BY <1>1, <1>3, NothingOnTheWay DEF News, AwaitsIdle, Client
<1> QED
  BY <1>2, <1>5, <1>6, <1>7 DEF TalkInv

\* Something happens in MPD, which may be idling.
LEMMA MpdEventStep ==
    ASSUME NEW t, TalkInv(t), t.link, NEW e \in Subsystems,
           NEW n, n = IF t.idling THEN Notify(Raised(t, e)) ELSE Raised(t, e)
    PROVE  TalkInv(n)
<1> DEFINE r == Raised(t, e)
<1>1. TalkInv(r) /\ r.pending # {} /\ r.idling = t.idling
  BY RaisedStep
<1>2. r.link
  BY DEF Raised, TalkInv, TalkRecords
<1> HIDE DEF r
<1>3. CASE ~t.idling
  BY <1>1, <1>3 DEF r
<1>4. CASE t.idling
  <2>1. r.idling
    BY <1>1, <1>4, Zenon
  <2>2. /\ r.wire = <<>>
        /\ \/ r.io # {} /\ "write" \notin r.io /\ r.sent = <<>>
           \/ r.pc = "leave" /\ r.sent \in {<<>>, <<"noidle">>}
    BY <1>1, <1>2, <2>1 DEF TalkInv, Turn, Still, Asked, InIdle, Leaving
  <2>3. n = Notify(r)
    BY <1>4 DEF r
  <2> QED
    BY <1>1, <1>2, <2>2, <2>3, NotifiedStep DEF TalkInv
<1> QED
  BY <1>3, <1>4

\* What is in front of a queue, and what is behind it
LEMMA Fronts ==
    /\ Head(<<"idle">>) = "idle" /\ Head(<<"noidle">>) = "noidle" /\ Head(<<"request">>) = "request"
    /\ Head(<<"noidle", "idle">>) = "noidle" /\ Head(<<"noidle", "request">>) = "noidle"
    /\ Head(<<"idle", "noidle">>) = "idle" /\ Head(<<"noidle", "idle", "noidle">>) = "noidle"
  OBVIOUS

\* What is behind it
LEMMA Backs ==
    /\ Tail(<<"idle">>) = <<>> /\ Tail(<<"noidle">>) = <<>> /\ Tail(<<"request">>) = <<>>
    /\ Tail(<<"noidle", "idle">>) = <<"idle">> /\ Tail(<<"noidle", "request">>) = <<"request">>
    /\ Tail(<<"idle", "noidle">>) = <<"noidle">>
    /\ Tail(<<"noidle", "idle", "noidle">>) = <<"idle", "noidle">>
<1>1. Tail(<<"noidle", "idle", "noidle">>) = <<"idle", "noidle">>
  OBVIOUS
<1> QED
  BY <1>1

\* What MPD reads first, and what it finds next
LEMMA Reading ==
    ASSUME NEW t, TalkInv(t), t.link, t.sent # <<>>
    PROVE  \/ t.sent = <<"idle">> /\ t.wire = <<>> /\ ~t.idling /\ t.io # {} /\ "write" \notin t.io
              /\ t.got = {}
           \/ t.sent = <<"idle", "noidle">> /\ t.wire = <<>> /\ ~t.idling /\ t.pc = "leave"
           \/ t.sent = <<"request">> /\ t.wire = <<>> /\ ~t.idling /\ t.pc \in Requesting
           \/ t.sent = <<"noidle">> /\ t.idling /\ t.wire = <<>> /\ t.pc = "leave"
           \/ /\ t.sent \in {<<"noidle">>, <<"noidle", "idle">>, <<"noidle", "request">>,
                             <<"noidle", "idle", "noidle">>}
              /\ ~t.idling
  BY DEF TalkInv, Turn, Still, Asked, InIdle, Leaving

\* "idle" in time: MPD idles, or has news at once.
LEMMA MpdIdles ==
    ASSUME NEW t, TalkInv(t), t.link, t.sent # <<>>, Head(t.sent) = "idle",
           NEW u, u = [t EXCEPT !.sent = Tail(@)],
           NEW n, n = IF u.pending = {} THEN [u EXCEPT !.idling = TRUE] ELSE Notify(u)
    PROVE  TalkInv(n)
<1>1. /\ ~t.idling /\ t.wire = <<>> /\ Tail(t.sent) \in {<<>>, <<"noidle">>}
      /\ \/ Tail(t.sent) = <<>> /\ t.io # {} /\ "write" \notin t.io /\ t.got = {}
         \/ Tail(t.sent) = <<"noidle">> /\ t.pc = "leave"
      /\ Tail(t.sent) \in Sendable
  <2>1. \/ t.sent = <<"idle">> /\ t.wire = <<>> /\ ~t.idling /\ t.io # {} /\ "write" \notin t.io
           /\ t.got = {}
        \/ t.sent = <<"idle", "noidle">> /\ t.wire = <<>> /\ ~t.idling /\ t.pc = "leave"
    BY Reading, Fronts
  <2>2. <<>> \in Sendable /\ <<"noidle">> \in Sendable
    BY DEF Sendable
  <2> QED
    BY <2>1, <2>2, Backs
<1>2. u \in TalkRecords
  BY <1>1 DEF TalkInv, TalkRecords
<1>3. /\ \A f \in {"known", "pending", "idling", "wire", "link", "conn", "idle", "timer", "io", "out",
                   "got", "pc", "owed"} :
           u[f] = t[f]
      /\ u.sent = Tail(t.sent)
  BY DEF TalkInv, TalkRecords
<1>4. t.conn
  BY HasConnection DEF TalkInv
<1>5. Client(u) /\ News(u)
  BY <1>3, <1>4 DEF TalkInv, Client, News, AwaitsIdle
<1>6. CASE u.pending # {}
  <2>1. n = Notify(u)
    BY <1>6
  <2> QED
    BY <1>1, <1>2, <1>3, <1>5, <1>6, <2>1, NotifiedStep
<1>7. CASE u.pending = {}
  <2>1. n \in TalkRecords
    BY <1>2, <1>7 DEF TalkRecords
  <2>2. /\ \A f \in {"known", "pending", "sent", "wire", "link", "conn", "idle", "timer", "io", "out",
                     "got", "pc", "owed"} :
             n[f] = u[f]
        /\ n.idling
    BY <1>2, <1>7 DEF TalkRecords
  <2>3. Client(n) /\ News(n)
    <3>1. n.conn
      BY <1>3, <1>4, <2>2, Zenon
    <3>2. Client(n)
      BY <1>5, <2>2, <3>1 DEF Client
    <3>3. News(n)
      BY <1>5, <2>2 DEF News, AwaitsIdle
    <3> QED
      BY <3>2, <3>3
  <2>4. Turn(n)
    <3>1. n.link
      BY <1>3, <2>2, Zenon
    <3>2. /\ n.wire = <<>>
          /\ \/ n.sent = <<>> /\ n.io # {} /\ "write" \notin n.io /\ n.got = {}
             \/ n.sent = <<"noidle">> /\ n.pc = "leave"
      BY <1>1, <1>3, <2>2
    <3> QED
      BY <2>2, <3>1, <3>2, NothingOnTheWay DEF Turn, InIdle, Leaving
  <2>5. Answer(n.wire, Expects(n))
    BY <1>1, <1>3, <2>2, NothingOnTheWay
  <2> QED
    BY <2>1, <2>3, <2>4, <2>5 DEF TalkInv
<1> QED
  BY <1>6, <1>7

\* An answer of one line
LEMMA OneLine ==
    ASSUME NEW l \in Lines, Ends(l), l.of # "none", NEW w, w = Append(<<>>, l)
    PROVE  /\ w \in Seq(Lines) /\ Answer(w, l.of) /\ Clean(w) /\ Ended(w) /\ EventsOn(w) = {}
           /\ Success(w) <=> l.kind = "ok"
<1>1. w \in Seq(Lines) /\ Len(w) = 1 /\ w[1] = l
  BY AppendProperties
<1>2. DOMAIN w = {1}
  BY <1>1, LenProperties
<1> QED
  BY <1>1, <1>2 DEF Answer, Clean, Ended, EventsOn, Success

\* MPD has read the last command and answers at once.
LEMMA AnsweredStep ==
    ASSUME NEW t, TalkInv(t), t.link, t.sent # <<>>,
           NEW u, u = [t EXCEPT !.sent = Tail(@)],
           NEW l, NEW n, n = [u EXCEPT !.wire = Append(@, l)],
           \/ Head(t.sent) = "idle" /\ l = Line("ack", "idle")
           \/ Head(t.sent) = "request" /\ l = Line("ok", "request")
    PROVE  TalkInv(n)
<1>1. /\ t.wire = <<>> /\ ~t.idling
      /\ \/ Tail(t.sent) = <<>> /\ t.io # {} /\ "write" \notin t.io /\ l = Line("ack", "idle")
         \/ Tail(t.sent) = <<"noidle">> /\ t.pc = "leave" /\ l = Line("ack", "idle")
         \/ Tail(t.sent) = <<>> /\ t.pc \in Requesting /\ l = Line("ok", "request")
  BY Reading, Fronts, Backs
<1>2. Tail(t.sent) \in Sendable
  BY <1>1 DEF Sendable
<1>3. /\ l \in Lines /\ Ends(l) /\ l.of # "none"
      /\ l = Line("ack", "idle") => l.of = "idle" /\ l.kind = "ack"
      /\ l = Line("ok", "request") => l.of = "request" /\ l.kind = "ok"
  BY <1>1, LinesMade
<1> DEFINE w == Append(<<>>, l)
<1>4. /\ w \in Seq(Lines) /\ Answer(w, l.of) /\ Clean(w) /\ Ended(w) /\ EventsOn(w) = {}
      /\ Success(w) <=> l.kind = "ok"
  BY <1>3, OneLine
<1>5. n = [t EXCEPT !.sent = Tail(t.sent), !.wire = w]
  BY <1>1 DEF TalkInv, TalkRecords
<1> HIDE DEF w
<1>6. n \in TalkRecords
  BY <1>2, <1>4, <1>5 DEF TalkInv, TalkRecords
<1>7. /\ \A f \in {"known", "pending", "idling", "link", "conn", "idle", "timer", "io", "out", "got",
                   "pc", "owed"} : n[f] = t[f]
      /\ n.sent = Tail(t.sent) /\ n.wire = w
  BY <1>5 DEF TalkInv, TalkRecords
<1>8. t.conn
  BY HasConnection DEF TalkInv
<1>9. Client(n)
  BY <1>7, <1>8 DEF TalkInv, Client
<1>10. t.io # {} => t.pc = "loop"
  BY DEF TalkInv, Client
<1>11. Turn(n)
  BY <1>1, <1>4, <1>7, <1>10 DEF Turn, InIdle, Leaving, Asked
<1>12. Expects(n) = l.of
  BY <1>1, <1>3, <1>7, <1>10 DEF Expects, AwaitsIdle, Requesting
<1>13. News(n)
  BY <1>1, <1>3, <1>4, <1>7, <1>10, NothingOnTheWay DEF TalkInv, News, AwaitsIdle, Requesting
<1> QED
  BY <1>4, <1>6, <1>7, <1>9, <1>11, <1>12, <1>13 DEF TalkInv

\* "noidle" makes MPD leave idle mode, and is ignored otherwise.
LEMMA NoIdleRead ==
    ASSUME NEW t, TalkInv(t), t.link, t.sent # <<>>, Head(t.sent) = "noidle",
           NEW u, u = [t EXCEPT !.sent = Tail(@)],
           NEW n, n = IF u.idling THEN Notify(u) ELSE u
    PROVE  TalkInv(n)
<1>0. Tail(t.sent) \in {<<>>, <<"idle">>, <<"request">>, <<"idle", "noidle">>}
  BY Reading, Fronts, Backs
<1>1. Tail(t.sent) \in Sendable
  BY <1>0 DEF Sendable
<1>2. u \in TalkRecords
  BY <1>1 DEF TalkInv, TalkRecords
<1>3. /\ \A f \in {"known", "pending", "idling", "wire", "link", "conn", "idle", "timer", "io", "out",
                   "got", "pc", "owed"} : u[f] = t[f]
      /\ u.sent = Tail(t.sent)
  BY DEF TalkInv, TalkRecords
<1>4. t.conn
  BY HasConnection DEF TalkInv
<1>5. Client(u) /\ News(u)
  BY <1>3, <1>4 DEF TalkInv, Client, News, AwaitsIdle
<1>6. CASE t.idling
  <2>1. t.sent = <<"noidle">> /\ t.wire = <<>> /\ t.pc = "leave"
    BY <1>6, Reading, Fronts
  <2>2. n = Notify(u)
    BY <1>3, <1>6, Zenon
  <2> QED
    BY <1>2, <1>3, <1>5, <2>1, <2>2, Backs, NotifiedStep
<1>7. CASE ~t.idling
  <2>1. n = u
    BY <1>3, <1>7, Zenon
  <2>2. t.sent \in {<<"noidle">>, <<"noidle", "idle">>, <<"noidle", "request">>,
                    <<"noidle", "idle", "noidle">>}
    BY <1>7, Reading, Fronts
  <2>3. Turn(u)
    <3>1. /\ Clean(t.wire)
          /\ \/ Still(t) /\ t.sent = <<"noidle">>
             \/ Asked(t) /\ t.wire = <<>> /\ t.sent = <<"noidle", "request">>
             \/ InIdle(t) /\ t.wire = <<>> /\ t.got = {} /\ t.sent = <<"noidle">> /\ "write" \in t.io
             \/ InIdle(t) /\ t.wire = <<>> /\ t.got = {} /\ t.sent = <<"noidle", "idle">> /\ "write" \notin t.io
             \/ Leaving(t) /\ t.wire = <<>> /\ t.sent = <<"noidle", "idle", "noidle">>
             \/ Leaving(t) /\ Ended(t.wire) /\ t.sent = <<"noidle">>
      BY <1>7, <2>2 DEF TalkInv, Turn, Still, Asked, InIdle, Leaving
    <3>2. u.link /\ ~u.idling
      BY <1>3, <1>7, Zenon
    <3>3. Still(t) /\ t.sent = <<"noidle">> => Still(u)
      BY <1>3, <3>2, Backs DEF Still, AwaitsIdle
    <3>4. Asked(t) /\ t.wire = <<>> /\ t.sent = <<"noidle", "request">> => Asked(u)
      BY <1>3, <3>2, Backs DEF Asked
    <3>5. InIdle(t) /\ t.wire = <<>> /\ t.got = {} /\ t.sent = <<"noidle">> /\ "write" \in t.io => InIdle(u)
      BY <1>3, <3>2, Backs DEF InIdle
    <3>6. InIdle(t) /\ t.wire = <<>> /\ t.got = {} /\ t.sent = <<"noidle", "idle">> /\ "write" \notin t.io
             => InIdle(u)
      BY <1>3, <3>2, Backs DEF InIdle
    <3>7. Leaving(t) /\ t.wire = <<>> /\ t.sent = <<"noidle", "idle", "noidle">> => Leaving(u)
      BY <1>3, <3>2, Backs DEF Leaving
    <3>8. Leaving(t) /\ Ended(t.wire) /\ t.sent = <<"noidle">> => Leaving(u)
      BY <1>3, <3>2, Backs DEF Leaving
    <3> QED
      BY <1>3, <3>1, <3>2, <3>3, <3>4, <3>5, <3>6, <3>7, <3>8 DEF Turn
  <2>4. Answer(u.wire, Expects(u))
    BY <1>3 DEF TalkInv, Expects, AwaitsIdle
  <2> QED
    BY <1>2, <1>5, <2>1, <2>3, <2>4 DEF TalkInv
<1> QED
  BY <1>6, <1>7

\* MPD reads the next command.
LEMMA MpdReadsStep ==
    ASSUME TalkInv(talk), MpdReads
    PROVE  TalkInv(talk')
<1> DEFINE u == [talk EXCEPT !.sent = Tail(@)]
<1>1. talk.link /\ talk.sent # <<>>
  BY DEF MpdReads
<1>2. u.idling = talk.idling
  BY DEF TalkInv, TalkRecords
<1>3. Head(talk.sent) # "noidle" => ~talk.idling
  BY <1>1, Reading, Fronts
<1>4. \/ /\ Head(talk.sent) = "idle"
         /\ talk' = IF u.pending = {} THEN [u EXCEPT !.idling = TRUE] ELSE Notify(u)
      \/ Head(talk.sent) = "idle" /\ talk' = [u EXCEPT !.wire = Append(@, Line("ack", "idle"))]
      \/ Head(talk.sent) = "noidle" /\ talk' = IF u.idling THEN Notify(u) ELSE u
      \/ Head(talk.sent) = "request" /\ talk' = [u EXCEPT !.wire = Append(@, Line("ok", "request"))]
      \/ Head(talk.sent) # "noidle" /\ u.idling
  BY DEF MpdReads
<1>5. ~(Head(talk.sent) # "noidle" /\ u.idling)
  BY <1>2, <1>3, Zenon
<1>6. CASE /\ Head(talk.sent) = "idle"
           /\ talk' = IF u.pending = {} THEN [u EXCEPT !.idling = TRUE] ELSE Notify(u)
  BY <1>1, <1>6, MpdIdles
<1>7. CASE Head(talk.sent) = "idle" /\ talk' = [u EXCEPT !.wire = Append(@, Line("ack", "idle"))]
  BY <1>1, <1>7, AnsweredStep
<1>8. CASE Head(talk.sent) = "noidle" /\ talk' = IF u.idling THEN Notify(u) ELSE u
  BY <1>1, <1>8, NoIdleRead
<1>9. CASE Head(talk.sent) = "request" /\ talk' = [u EXCEPT !.wire = Append(@, Line("ok", "request"))]
  BY <1>1, <1>9, AnsweredStep
<1> QED
  BY <1>4, <1>5, <1>6, <1>7, <1>8, <1>9

\* Garbage behind an answer
LEMMA GarbageBehind ==
    ASSUME NEW v, NEW a, Answer(v, a), NEW w, w = v \o <<Line("garbage", "none")>>
    PROVE  /\ w \in Seq(Lines) /\ Answer(w, a) /\ EventsOn(w) = EventsOn(v)
           /\ Success(w) => Success(v)
<1> DEFINE g == Line("garbage", "none")
<1>1. g \in Lines /\ Ends(g) /\ g.of = "none" /\ g.kind = "garbage"
  BY LinesMade
<1> HIDE DEF g
<1>2. v \in Seq(Lines) /\ w = Append(v, g)
  BY <1>1, AppendIsConcat DEF Answer, g
<1> DEFINE N == Len(v)
<1>3. /\ w \in Seq(Lines) /\ Len(w) = N + 1 /\ w[N + 1] = g /\ \A k \in 1..N : w[k] = v[k]
      /\ N \in Nat
  BY <1>1, <1>2, AppendProperties, LenProperties
<1>4. DOMAIN w = 1..(N + 1) /\ DOMAIN v = 1..N
  BY <1>2, <1>3, LenProperties
<1> HIDE DEF N
<1>5. /\ \A j \in DOMAIN w : (j \in DOMAIN v /\ w[j] = v[j]) \/ (j = N + 1 /\ w[j] = g)
      /\ \A j \in DOMAIN v : j \in DOMAIN w /\ w[j] = v[j] /\ j < N + 1
  BY <1>3, <1>4
<1>6. Answer(w, a)
  <2>1. \A j, l \in DOMAIN w : j < l => j \in DOMAIN v
    BY <1>3, <1>4
  <2> QED
    BY <1>1, <1>3, <1>5, <2>1 DEF Answer
<1>7. EventsOn(w) = EventsOn(v)
  BY <1>1, <1>5 DEF EventsOn
<1>8. Success(w) => Success(v)
  BY <1>1, <1>5 DEF Success
<1> QED
  BY <1>3, <1>6, <1>7, <1>8

\* The connection breaks, with what is on the way to the client.
LEMMA LinkBreaksStep ==
    ASSUME NEW t, TalkInv(t), t.link, NEW rest \in {<<>>, <<Line("garbage", "none")>>},
           NEW n, n = [t EXCEPT !.link = FALSE, !.idling = FALSE, !.pending = {}, !.sent = <<>>,
                                !.wire = @ \o rest, !.owed = @ \ t.pending]
    PROVE  TalkInv(n)
<1> DEFINE w == t.wire \o rest
           owed == t.owed \ t.pending
<1>1. /\ w \in Seq(Lines) /\ Answer(w, Expects(t)) /\ EventsOn(w) = EventsOn(t.wire)
      /\ Success(w) => Success(t.wire)
  <2>1. CASE rest = <<>>
    <3>1. t.wire \in Seq(Lines)
      BY DEF TalkInv, TalkRecords
    <3>2. w = t.wire
      BY <2>1, <3>1, ConcatEmptySeq
    <3> HIDE DEF w
    <3> QED
      BY <3>1, <3>2 DEF TalkInv
  <2>2. CASE rest = <<Line("garbage", "none")>>
    BY <2>2, GarbageBehind DEF TalkInv
  <2> QED
    BY <2>1, <2>2
<1>2. <<>> \in Sendable
  BY DEF Sendable
<1>3. n = [t EXCEPT !.link = FALSE, !.idling = FALSE, !.pending = {}, !.sent = <<>>, !.wire = w,
                    !.owed = owed]
  BY DEF TalkInv, TalkRecords
<1>0. owed \in SUBSET Subsystems /\ owed \subseteq t.owed /\ owed \cap t.pending = {}
  BY DEF TalkInv, TalkRecords
<1> HIDE DEF w, owed
<1>4. n \in TalkRecords
  BY <1>0, <1>1, <1>2, <1>3 DEF TalkInv, TalkRecords
<1>5. /\ \A f \in {"known", "conn", "idle", "timer", "io", "out", "got", "pc"} : n[f] = t[f]
      /\ n.sent = <<>> /\ n.wire = w /\ n.pending = {} /\ n.owed = owed
      /\ ~n.link /\ ~n.idling
  BY <1>3 DEF TalkInv, TalkRecords
<1>6. t.conn
  BY HasConnection DEF TalkInv
<1>7. Client(n)
  BY <1>0, <1>5, <1>6 DEF TalkInv, Client
<1>8. Turn(n) /\ Answer(n.wire, Expects(n))
  BY <1>1, <1>5 DEF Turn, Expects, AwaitsIdle
<1>9. News(n)
  BY <1>0, <1>1, <1>5 DEF TalkInv, News, AwaitsIdle
<1> QED
  BY <1>4, <1>7, <1>8, <1>9 DEF TalkInv

\* OnEnterIdleTimer(): the library has something to write.
LEMMA EnterStep ==
    ASSUME NEW t, TalkInv(t), t.pc = "loop", t.timer
    PROVE  TalkInv(Enter(t))
<1> DEFINE n == Enter(t)
<1>0. t \in TalkRecords /\ t.out \in Seq(Commands)
  BY DEF TalkInv, TalkRecords
<1>1. t.io = {} /\ ~t.idle /\ t.conn
  BY HasConnection DEF TalkInv, Client
<1>2. Append(t.out, "idle") \in Seq(Commands)
  BY <1>0, AppendProperties DEF Commands
<1>3. n \in TalkRecords
  <2> DEFINE out == Append(t.out, "idle")
  <2>1. n = [t EXCEPT !.timer = FALSE, !.idle = TRUE, !.got = {}, !.out = out, !.io = {"read", "write"}]
    BY <1>0 DEF Enter, TalkRecords
  <2>2. out \in Seq(Commands)
    BY <1>2
  <2> DEFINE io == {"read", "write"}
  <2>3. io \in {{}, {"read"}, {"read", "write"}}
    OBVIOUS
  <2>4. n = [t EXCEPT !.timer = FALSE, !.idle = TRUE, !.got = {}, !.out = out, !.io = io]
    BY <2>1
  <2> HIDE DEF n, out, io
  <2> QED
    BY <1>0, <2>2, <2>3, <2>4 DEF TalkRecords
<1>4. /\ \A f \in {"known", "link", "pending", "idling", "sent", "wire", "conn", "pc", "owed"} : n[f] = t[f]
      /\ n.io = {"read", "write"} /\ n.got = {} /\ n.out = Append(t.out, "idle")
      /\ n.idle /\ ~n.timer
  BY <1>0 DEF Enter, TalkRecords
<1> HIDE DEF n
<1>5. t.link => n.out = <<"idle">>
  BY <1>1, <1>4, Queues DEF TalkInv, Client
<1>6. n.conn
  BY <1>1, <1>4, Zenon
<1>7. Client(n)
  BY <1>4, <1>5, <1>6 DEF TalkInv, Client
<1>8. Expects(t) = "none" /\ Expects(n) = "idle" /\ ~AwaitsIdle(t) /\ AwaitsIdle(n)
  BY <1>1, <1>4 DEF Expects, AwaitsIdle, Requesting
<1>9. Answer(n.wire, "idle")
  BY <1>4, <1>8 DEF TalkInv, Answer
<1>10. ~Success(t.wire)
  <2>1. \A j \in DOMAIN t.wire : t.wire[j] \in Lines /\ t.wire[j].of = "none"
    BY <1>8, ElementOfSeq, LenProperties DEF TalkInv, Answer
  <2> QED
    BY <2>1, LineFacts DEF Success
<1>11. News(n)
  BY <1>4, <1>8, <1>10 DEF TalkInv, News
<1>12. Turn(n)
  <2>1. t.link => t.wire = <<>> /\ ~t.idling /\ t.sent \in {<<>>, <<"noidle">>}
    BY <1>1 DEF TalkInv, Turn, Still, Asked, InIdle, Leaving, Requesting
  <2>2. CASE t.link
    <3>1. n.link /\ ~n.idling
      BY <1>4, <2>1, <2>2, Zenon
    <3> QED
      BY <1>4, <2>1, <2>2, <3>1, NothingOnTheWay DEF Turn, InIdle
  <2>3. CASE ~t.link
    <3>1. ~n.link /\ ~n.idling
      <4>1. ~t.idling
        BY <2>3 DEF TalkInv, Turn
      <4> QED
        BY <1>4, <2>3, <4>1, Zenon
    <3> QED
      BY <1>4, <2>3, <3>1 DEF TalkInv, Turn
  <2> QED
    BY <2>2, <2>3
<1> QED
  BY <1>3, <1>7, <1>8, <1>9, <1>11, <1>12 DEF TalkInv, n

\* What is written is on its way.
LEMMA WrittenStep ==
    ASSUME NEW t, TalkInv(t), t.io = {"read", "write"}
    PROVE  TalkInv(Written(t)) /\ Written(t).wire = t.wire /\ Written(t).io = {"read"}
<1> DEFINE sent == IF t.link THEN t.sent \o t.out ELSE t.sent
           n == Written(t)
<1>0. t \in TalkRecords /\ t.sent \in Sendable
  BY DEF TalkInv, TalkRecords
<1>1. n = [t EXCEPT !.sent = sent, !.out = <<>>, !.io = {"read"}]
  BY <1>0 DEF Written, TalkRecords
<1>2. t.link => /\ t.wire = <<>> /\ ~t.idling /\ t.got = {}
                /\ sent \in {<<"idle">>, <<"noidle", "idle">>}
  <2>1. ASSUME t.link PROVE t.wire = <<>> /\ ~t.idling /\ t.got = {} /\ t.sent \in {<<>>, <<"noidle">>}
    BY <2>1 DEF TalkInv, Client, Turn, Still, Asked, InIdle, Leaving, AwaitsIdle, Requesting
  <2>2. ASSUME t.link PROVE sent = Append(t.sent, "idle")
    <3>1. t.out = <<"idle">>
      BY <2>2 DEF TalkInv, Client
    <3> QED
      BY <1>0, <2>2, <3>1, Writing DEF Commands
  <2> QED
    BY <2>1, <2>2, Queues
<1>3. sent \in Sendable /\ <<>> \in Seq(Commands)
  <2>1. t.link => sent \in Sendable
    BY <1>2 DEF Sendable
  <2> QED
    BY <1>0, <2>1
<1>4. ~t.link => sent = t.sent
  OBVIOUS
<1> HIDE DEF sent, n
<1>5. n \in TalkRecords
  BY <1>0, <1>1, <1>3 DEF TalkRecords
<1>6. /\ \A f \in {"known", "link", "pending", "idling", "wire", "conn", "idle", "timer", "got", "pc",
                   "owed"} : n[f] = t[f]
      /\ n.io = {"read"} /\ n.out = <<>> /\ n.sent = sent
  BY <1>0, <1>1 DEF TalkRecords
<1>7. t.idle /\ t.conn
  BY HasConnection DEF TalkInv, Client
<1>8. n.conn
  BY <1>6, <1>7, Zenon
<1>9. Client(n)
  BY <1>6, <1>8 DEF TalkInv, Client
<1>10. Answer(n.wire, Expects(n))
  BY <1>6 DEF TalkInv, Expects, AwaitsIdle
<1>11. News(n)
  BY <1>6 DEF TalkInv, News, AwaitsIdle
<1>12. Turn(n)
  <2>1. CASE t.link
    <3>1. n.link /\ ~n.idling
      BY <1>2, <1>6, <2>1, Zenon
    <3> QED
      BY <1>2, <1>6, <2>1, <3>1, NothingOnTheWay DEF Turn, InIdle
  <2>2. CASE ~t.link
    <3>1. ~t.idling /\ t.sent = <<>>
      BY <2>2 DEF TalkInv, Turn
    <3>2. ~n.link /\ ~n.idling
      BY <1>6, <2>2, <3>1, Zenon
    <3> QED
      BY <1>4, <1>6, <2>2, <3>1, <3>2 DEF Turn
  <2> QED
    BY <2>1, <2>2
<1> QED
  BY <1>5, <1>6, <1>9, <1>10, <1>11, <1>12 DEF TalkInv, n

\* What is told to OnIdle() is done with; its request is sent.
LEMMA TellStep ==
    ASSUME NEW t \in TalkRecords, t.known \in {Known, Subsystems}, t.got \subseteq t.known,
           t.owed \subseteq t.known, t.owed \subseteq t.pending \cup t.got,
           t.conn, t.io = {}, ~t.timer, Answer(t.wire, "none"),
           t.link => t.wire = <<>> /\ ~t.idling /\ t.sent \in {<<>>, <<"noidle">>} /\ t.out = <<>>,
           ~t.link => t.sent = <<>> /\ ~t.idling,
           NEW pc \in {"update", "nested update"},
           NEW n, n = Send([t EXCEPT !.idle = FALSE, !.owed = @ \ t.got, !.pc = pc], "request")
    PROVE  TalkInv(n)
<1> DEFINE sent == IF t.link THEN t.sent \o t.out \o <<"request">> ELSE t.sent
           owed == t.owed \ t.got
<1>1. n = [t EXCEPT !.idle = FALSE, !.owed = owed, !.pc = pc, !.sent = sent, !.out = <<>>]
  BY DEF Send, TalkRecords
<1>2. t.link => sent \in {<<"request">>, <<"noidle", "request">>}
  <2>1. ASSUME t.link PROVE sent = Append(t.sent, "request")
    BY <2>1, Writing DEF Commands, Sendable
  <2> QED
    BY <2>1, Queues
<1>3. sent \in Sendable /\ <<>> \in Seq(Commands) /\ pc \in Phases /\ owed \in SUBSET Subsystems
  <2>1. t.link => sent \in Sendable
    BY <1>2 DEF Sendable
  <2>2. ~t.link => sent \in Sendable
    BY DEF Sendable
  <2>3. pc \in Phases
    BY DEF Phases
  <2>4. owed \in SUBSET Subsystems
    BY DEF TalkRecords
  <2>5. sent \in Sendable
    BY <2>1, <2>2, Zenon
  <2>6. <<>> \in Seq(Commands)
    BY NothingToWrite
  <2> QED
    BY <2>3, <2>4, <2>5, <2>6
<1>4. ~t.link => sent = <<>>
  OBVIOUS
<1>5. owed \subseteq t.known /\ owed \subseteq t.pending
  OBVIOUS
<1> HIDE DEF sent, owed
<1>6. n \in TalkRecords
  BY <1>1, <1>3 DEF TalkRecords
<1>7. /\ \A f \in {"known", "link", "pending", "idling", "wire", "conn", "timer", "io", "got"} :
           n[f] = t[f]
      /\ n.out = <<>> /\ n.sent = sent /\ n.pc = pc /\ n.owed = owed /\ ~n.idle
  BY <1>1 DEF TalkRecords
<1>8. n.conn /\ ~n.timer
  BY <1>7, Zenon
<1>9. Client(n)
  BY <1>5, <1>7, <1>8 DEF Client
<1>10. Expects(n) = "request" /\ ~AwaitsIdle(n)
  BY <1>7 DEF Expects, AwaitsIdle, Requesting
<1>11. Answer(n.wire, "request")
  BY <1>7 DEF Answer
<1>12. News(n)
  BY <1>5, <1>7, <1>10 DEF News
<1>13. Turn(n)
  <2>1. CASE t.link
    <3>1. n.link /\ ~n.idling
      BY <1>7, <2>1, Zenon
    <3> QED
      BY <1>2, <1>7, <2>1, <3>1, NothingOnTheWay DEF Turn, Asked, Requesting
  <2>2. CASE ~t.link
    <3>1. ~n.link /\ ~n.idling
      BY <1>7, <2>2, Zenon
    <3> QED
      BY <1>4, <1>7, <2>2, <3>1 DEF Turn
  <2> QED
    BY <2>1, <2>2
<1> QED
  BY <1>6, <1>9, <1>10, <1>11, <1>12, <1>13 DEF TalkInv

\* What is left, and what has been read, when the idle source is fed up to k lines.
Rest(t, m) == SubSeq(t.wire, m + 1, Len(t.wire))
\* All events of which the client knows then
Told(t, m) == t.got \cup ({t.wire[j].event : j \in {l \in 1..m : ~Ends(t.wire[l])}} \cap t.known)
\* The client when it has read the first m lines
ReadOf(t, m) == [t EXCEPT !.wire = Rest(t, m), !.got = Told(t, m)]

\* Reading takes events off the way and loses none.
LEMMA ReadFacts ==
    ASSUME NEW t, TalkInv(t), AwaitsIdle(t), NEW m \in 1..Len(t.wire),
           \A j \in 1..(m - 1) : ~Ends(t.wire[j])
    PROVE  /\ ReadOf(t, m) \in TalkRecords /\ Told(t, m) \subseteq t.known
           /\ t.owed \subseteq t.pending \cup Told(t, m) \cup EventsOn(Rest(t, m))
           /\ t.io # {} /\ t.known = Subsystems /\ Success(t.wire)
                => Told(t, m) \cup EventsOn(Rest(t, m)) # {}
           /\ t.link => Clean(Rest(t, m)) /\ Ended(t.wire) /\ ~t.idling /\ "write" \notin t.io
                        /\ t.sent \in (IF t.pc = "leave" THEN {<<>>, <<"noidle">>} ELSE {<<>>})
           /\ ~Ends(t.wire[m]) => /\ Answer(Rest(t, m), "idle") /\ (Ended(t.wire) => Ended(Rest(t, m)))
                                  /\ (Success(t.wire) => Success(Rest(t, m)))
                                  /\ (Success(Rest(t, m)) => Success(t.wire))
           /\ Ends(t.wire[m]) => /\ Answer(Rest(t, m), "none") /\ EventsOn(Rest(t, m)) = {}
                                 /\ (t.link => Rest(t, m) = <<>>)
<1> DEFINE rest == Rest(t, m)
           events == {t.wire[j].event : j \in {l \in 1..m : ~Ends(t.wire[l])}}
<1>0. t \in TalkRecords /\ t.wire \in Seq(Lines) /\ Answer(t.wire, "idle")
      /\ t.got \subseteq t.known /\ t.owed \subseteq t.known /\ t.known \subseteq Subsystems
  BY DEF TalkInv, TalkRecords, Expects, Client
<1>1. /\ EventsOn(t.wire) = events \cup EventsOn(rest)
      /\ Clean(t.wire) => Clean(rest)
      /\ ~Ends(t.wire[m]) => /\ Answer(rest, "idle") /\ (Ended(t.wire) => Ended(rest))
                             /\ (Success(t.wire) => Success(rest))
      /\ Ends(t.wire[m]) => /\ Answer(rest, "none") /\ EventsOn(rest) = {}
                            /\ (Clean(t.wire) => rest = <<>>)
  BY <1>0, RestOfAnswer DEF Rest
<1>2. Told(t, m) = t.got \cup (events \cap t.known)
  BY DEF Told
<1>3. rest \in Seq(Lines)
  BY <1>1 DEF Answer
<1>4. Success(rest) => Success(t.wire)
  <2>1. ASSUME NEW i \in DOMAIN rest PROVE m + i \in DOMAIN t.wire /\ rest[i] = t.wire[m + i]
    BY <1>0, SubsequenceOf DEF Rest
  <2> QED
    BY <2>1 DEF Success
<1>5. t.link => Ended(t.wire) /\ ~t.idling /\ "write" \notin t.io
                /\ t.sent \in (IF t.pc = "leave" THEN {<<>>, <<"noidle">>} ELSE {<<>>})
  <2>1. t.wire # <<>>
    BY EmptySeq
  <2> QED
    BY <2>1 DEF TalkInv, Turn, Still, Asked, InIdle, Leaving, Requesting, AwaitsIdle, Client
<1>6. t.link => Clean(t.wire)
  BY DEF TalkInv, Turn
<1>7. /\ t.owed \subseteq t.pending \cup t.got \cup EventsOn(t.wire)
      /\ t.io # {} /\ t.known = Subsystems /\ Success(t.wire) => t.got \cup EventsOn(t.wire) # {}
  BY DEF TalkInv, News
<1>8. events \subseteq Subsystems
  <2>1. \A j \in 1..m : t.wire[j] \in Lines
    BY <1>0, ElementOfSeq
  <2> QED
    BY <2>1, LineFacts
<1> HIDE DEF events
<1>9. Told(t, m) \subseteq t.known
  BY <1>0, <1>2
<1>10. ReadOf(t, m) \in TalkRecords
  BY <1>0, <1>3, <1>9 DEF ReadOf, TalkRecords
<1>11. t.owed \subseteq t.pending \cup Told(t, m) \cup EventsOn(rest)
  BY <1>0, <1>1, <1>2, <1>7
<1>12. t.io # {} /\ t.known = Subsystems /\ Success(t.wire) => Told(t, m) \cup EventsOn(rest) # {}
  BY <1>1, <1>2, <1>7, <1>8
<1> QED
  BY <1>1, <1>4, <1>5, <1>6, <1>9, <1>10, <1>11, <1>12

\* An event is not the end of the answer: the client goes on reading.
LEMMA ReadOnStep ==
    ASSUME NEW t, TalkInv(t), AwaitsIdle(t), NEW m \in 1..Len(t.wire),
           \A j \in 1..(m - 1) : ~Ends(t.wire[j]), ~Ends(t.wire[m])
    PROVE  TalkInv(ReadOf(t, m)) /\ ReadOf(t, m).pc = t.pc
<1> DEFINE n == ReadOf(t, m)
           rest == Rest(t, m)
           got == Told(t, m)
<1>1. /\ n \in TalkRecords /\ got \subseteq t.known
      /\ t.owed \subseteq t.pending \cup got \cup EventsOn(rest)
      /\ t.io # {} /\ t.known = Subsystems /\ Success(t.wire) => got \cup EventsOn(rest) # {}
      /\ t.link => Clean(rest) /\ Ended(t.wire) /\ ~t.idling /\ "write" \notin t.io
                   /\ t.sent \in (IF t.pc = "leave" THEN {<<>>, <<"noidle">>} ELSE {<<>>})
      /\ Answer(rest, "idle") /\ (Ended(t.wire) => Ended(rest)) /\ (Success(rest) => Success(t.wire))
  BY ReadFacts
<1>2. /\ \A f \in {"known", "link", "pending", "idling", "sent", "conn", "idle", "timer", "io", "out",
                   "pc", "owed"} : n[f] = t[f]
      /\ n.wire = rest /\ n.got = got
  BY DEF ReadOf, TalkInv, TalkRecords
<1> HIDE DEF n, rest, got
<1>3. t.conn
  BY HasConnection DEF TalkInv, Client, AwaitsIdle
<1>4. n.conn
  BY <1>2, <1>3, Zenon
<1>5. Client(n)
  BY <1>1, <1>2, <1>4 DEF TalkInv, Client
<1>6. Expects(n) = "idle" /\ AwaitsIdle(n)
  BY <1>2 DEF Expects, AwaitsIdle
<1>7. News(n)
  BY <1>1, <1>2, <1>6 DEF News
<1>8. Turn(n)
  <2>1. CASE t.link
    <3>1. n.link /\ ~n.idling
      BY <1>1, <1>2, <2>1, Zenon
    <3> QED
      BY <1>1, <1>2, <1>6, <2>1, <3>1 DEF Turn, InIdle, Leaving, AwaitsIdle
  <2>2. CASE ~t.link
    <3>1. ~t.idling /\ t.sent = <<>>
      BY <2>2 DEF TalkInv, Turn
    <3>2. ~n.link /\ ~n.idling
      BY <1>2, <2>2, <3>1, Zenon
    <3> QED
      BY <1>2, <3>1, <3>2 DEF Turn
  <2> QED
    BY <2>1, <2>2
<1> QED
  BY <1>1, <1>2, <1>5, <1>6, <1>7, <1>8 DEF TalkInv, n

\* The answer has ended: OnIdle() is told what has been read, or else the loop goes on without
\* listening, or GetConnection() with the command.
LEMMA IdleEndsStep ==
    ASSUME NEW t, TalkInv(t), AwaitsIdle(t), NEW m \in 1..Len(t.wire),
           \A j \in 1..(m - 1) : ~Ends(t.wire[j]), t.wire[m].kind = "ok",
           NEW next, next = IF t.pc = "leave" THEN "nested update" ELSE "update",
           NEW r, r = InvokeCallback([ReadOf(t, m) EXCEPT !.io = {}], next),
           NEW n, n = IF r.pc = "caller" THEN [r EXCEPT !.timer = TRUE] ELSE r
    PROVE  TalkInv(n) /\ (t.pc = "loop" => n = r)
<1> DEFINE rest == Rest(t, m)
           got == Told(t, m)
           u == [ReadOf(t, m) EXCEPT !.io = {}]
<1>0. Ends(t.wire[m])
  BY DEF Ends
<1>1. /\ ReadOf(t, m) \in TalkRecords /\ got \subseteq t.known
      /\ t.owed \subseteq t.pending \cup got
      /\ t.io # {} /\ t.known = Subsystems => got # {}
      /\ t.link => rest = <<>> /\ ~t.idling /\ "write" \notin t.io
                   /\ t.sent \in (IF t.pc = "leave" THEN {<<>>, <<"noidle">>} ELSE {<<>>})
      /\ Answer(rest, "none")
  <2>1. m \in DOMAIN t.wire
    BY LenProperties DEF TalkInv, TalkRecords
  <2>2. Success(t.wire)
    BY <2>1 DEF Success
  <2> QED
    BY <1>0, <2>2, ReadFacts
<1>2. u \in TalkRecords
  BY <1>1 DEF TalkRecords
<1>3. /\ \A f \in {"known", "link", "pending", "idling", "sent", "conn", "idle", "timer", "out", "pc",
                   "owed"} : u[f] = t[f]
      /\ u.wire = rest /\ u.got = got /\ u.io = {}
  BY <1>1 DEF ReadOf, TalkInv, TalkRecords
<1>4. t.conn /\ ~t.timer /\ t.pc \in {"loop", "leave"} /\ (t.pc = "loop" => t.io # {} /\ t.idle)
      /\ (t.pc = "leave" => ~t.idle /\ t.io = {})
      /\ t.known \in {Known, Subsystems} /\ t.owed \subseteq t.known /\ t.got \subseteq t.known
  BY HasConnection DEF TalkInv, Client, AwaitsIdle
<1>5. t.link => t.out = <<>>
  BY <1>1 DEF TalkInv, Client
<1>6. ~t.link => t.sent = <<>> /\ ~t.idling
  BY DEF TalkInv, Turn
<1>7. r = InvokeCallback(u, next)
  OBVIOUS
<1> HIDE DEF u, rest, got
<1>8. u.conn /\ ~u.timer
  BY <1>3, <1>4, Zenon
<1>9. u.link => u.wire = <<>> /\ ~u.idling /\ u.sent \in {<<>>, <<"noidle">>} /\ u.out = <<>>
  <2>1. ASSUME t.link PROVE ~u.idling
    BY <1>1, <1>3, <2>1, Zenon
  <2>2. u.link = t.link
    BY <1>3
  <2>3. ASSUME t.link PROVE u.wire = <<>> /\ u.sent \in {<<>>, <<"noidle">>} /\ u.out = <<>>
    BY <1>1, <1>3, <1>5, <2>3
  <2> QED
    BY <2>1, <2>2, <2>3, Zenon
<1>10. ~u.link => u.sent = <<>> /\ ~u.idling
  BY <1>3, <1>6, Zenon
<1>11. CASE u.got # {}
  <2>1. r = Send([u EXCEPT !.idle = FALSE, !.owed = @ \ u.got, !.pc = next], "request")
    BY <1>7, <1>11 DEF InvokeCallback
  <2>2. TalkInv(r)
    <3>1. /\ u.known \in {Known, Subsystems} /\ u.got \subseteq u.known /\ u.owed \subseteq u.known
          /\ u.owed \subseteq u.pending \cup u.got /\ Answer(u.wire, "none")
      BY <1>1, <1>3, <1>4
    <3> QED
      BY <1>2, <1>3, <1>8, <1>9, <1>10, <2>1, <3>1, TellStep
  <2>3. r.pc = next
    BY <1>2, <2>1 DEF Send, TalkRecords
  <2> QED
    BY <2>2, <2>3
<1>12. CASE u.got = {}
  <2> DEFINE pc == IF t.pc = "leave" THEN "caller" ELSE "loop"
  <2>1. r = [u EXCEPT !.pc = pc]
    BY <1>4, <1>7, <1>12 DEF InvokeCallback
  <2>2. n = IF t.pc = "leave" THEN [u EXCEPT !.pc = pc, !.timer = TRUE] ELSE r
    BY <1>2, <1>4, <2>1 DEF TalkRecords
  <2>3. pc \in Phases
    BY DEF Phases
  <2>4. n \in TalkRecords
    <3> HIDE DEF pc
    <3>1. [u EXCEPT !.pc = pc, !.timer = TRUE] \in TalkRecords
      BY <1>2, <2>3 DEF TalkRecords
    <3>2. r \in TalkRecords
      BY <1>2, <2>1, <2>3 DEF TalkRecords
    <3> QED
      BY <2>2, <3>1, <3>2
  <2>5. /\ \A f \in {"known", "link", "pending", "idling", "sent", "conn", "idle", "out", "owed", "wire",
                     "got", "io"} : n[f] = u[f]
        /\ n.pc = pc
    <3> HIDE DEF pc
    <3>1. n = [u EXCEPT !.pc = pc] \/ n = [u EXCEPT !.pc = pc, !.timer = TRUE]
      BY <2>1, <2>2
    <3>2. /\ \A f \in {"known", "link", "pending", "idling", "sent", "conn"} : n[f] = u[f]
          /\ n.pc = pc
      BY <1>2, <3>1 DEF TalkRecords
    <3>3. \A f \in {"idle", "out", "owed", "wire", "got", "io"} : n[f] = u[f]
      BY <1>2, <3>1 DEF TalkRecords
    <3> QED
      BY <3>2, <3>3
  <2>6. IF t.pc = "leave" THEN n.timer ELSE n.timer = u.timer
    BY <1>2, <2>1, <2>2 DEF TalkRecords
  <2> HIDE DEF pc
  <2>7. n.conn
    BY <1>8, <2>5, Zenon
  <2>8. /\ t.pc = "leave" => n.timer /\ ~n.idle /\ n.pc = "caller"
        /\ t.pc = "loop" => ~n.timer /\ n.idle /\ n.pc = "loop" /\ n.known # Subsystems
    <3>1. CASE t.pc = "leave"
      <4>1. ~n.idle
        BY <1>3, <1>4, <2>5, <3>1, Zenon
      <4> QED
        BY <2>5, <2>6, <3>1, <4>1 DEF pc
    <3>2. CASE t.pc = "loop"
      <4>1. n.idle /\ ~n.timer
        <5>1. t.idle /\ n.timer = u.timer
          BY <1>4, <2>6, <3>2
        <5> QED
          BY <1>3, <1>8, <2>5, <5>1, Zenon
      <4>2. n.known # Subsystems
        BY <1>1, <1>3, <1>4, <1>12, <2>5, <3>2
      <4> QED
        BY <2>5, <3>2, <4>1, <4>2 DEF pc
    <3> QED
      BY <1>4, <3>1, <3>2
  <2>9. Client(n)
    <3>1. n.link => n.out = <<>>
      BY <1>9, <2>5, Zenon
    <3>2. n.io = {} /\ n.known \in {Known, Subsystems} /\ n.got \subseteq n.known /\ n.owed \subseteq n.known
      <4>1. n.io = {} /\ n.got = {} /\ n.known = t.known /\ n.owed = t.owed
        BY <1>3, <1>12, <2>5
      <4> QED
        BY <1>4, <4>1
    <3> QED
      BY <1>4, <2>7, <2>8, <3>1, <3>2 DEF Client
  <2>10. ~AwaitsIdle(n) /\ Expects(n) = "none" /\ n.pc \notin Requesting
    BY <1>3, <1>4, <2>5, <2>8 DEF AwaitsIdle, Expects, Requesting
  <2>11. Answer(n.wire, "none")
    BY <1>1, <1>3, <2>5
  <2>12. News(n)
    <3>1. n.io = {} /\ n.owed = t.owed /\ n.pending = t.pending /\ got = {}
      BY <1>3, <1>12, <2>5
    <3>2. n.owed \subseteq n.pending
      BY <1>1, <3>1
    <3> QED
      BY <2>10, <3>1, <3>2 DEF News
  <2>13. Turn(n)
    <3>1. n.link => n.wire = <<>> /\ ~n.idling /\ n.sent \in {<<>>, <<"noidle">>}
      BY <1>9, <2>5, Zenon
    <3>2. ~n.link => n.sent = <<>> /\ ~n.idling
      BY <1>10, <2>5, Zenon
    <3> QED
      BY <2>10, <3>1, <3>2, NothingOnTheWay DEF Turn, Still
  <2>14. t.pc = "loop" => n = r
    BY <2>2
  <2> QED
    BY <2>4, <2>9, <2>10, <2>11, <2>12, <2>13, <2>14 DEF TalkInv
<1> QED
  BY <1>11, <1>12

\* Of the first k lines
LEMMA Within ==
    ASSUME NEW L \in Nat, NEW k \in 1..L, NEW j \in 1..k
    PROVE  j \in 1..L
  OBVIOUS

\* Feed() of all that is there, in the loop or line by line in Leave()
LEMMA ReceiveStep ==
    ASSUME NEW t, TalkInv(t), AwaitsIdle(t), NEW k \in 1..Len(t.wire),
           NEW next, next = IF t.pc = "leave" THEN "nested update" ELSE "update",
           NEW r, r = Receive(t, k, next),
           NEW n, n = IF r.pc = "caller" THEN [r EXCEPT !.timer = TRUE] ELSE r
    PROVE  TalkInv(n) /\ (t.pc = "loop" => n = r)
<1> DEFINE m == Consumed(t, k)
<1>0. t.wire \in Seq(Lines) /\ t.known \in {Known, Subsystems} /\ t.pc \in {"loop", "leave"}
  BY DEF TalkInv, TalkRecords, Client, AwaitsIdle
<1>1. /\ m \in 1..Len(t.wire) /\ \A j \in 1..(m - 1) : ~Ends(t.wire[j])
  <2>1. m \in 1..k /\ \A j \in 1..(m - 1) : ~Ends(t.wire[j])
    BY <1>0, ConsumedStep
  <2>2. Len(t.wire) \in Nat
    BY <1>0, LenProperties
  <2> HIDE DEF m
  <2> QED
    BY <2>1, <2>2, Within, Zenon
<1>2. ReadOf(t, m) = [t EXCEPT !.wire = SubSeq(@, m + 1, Len(@)),
                               !.got = @ \cup ({t.wire[j].event : j \in {l \in 1..m : ~Ends(t.wire[l])}}
                                               \cap t.known)]
  BY DEF ReadOf, Rest, Told, TalkInv, TalkRecords
<1>3. r = CASE ~Ends(t.wire[m]) -> ReadOf(t, m)
            [] t.wire[m].kind = "ok" -> InvokeCallback([ReadOf(t, m) EXCEPT !.io = {}], next)
            [] OTHER -> IdleError(ReadOf(t, m))
  BY <1>2 DEF Receive
<1> HIDE DEF m
<1>4. CASE ~Ends(t.wire[m])
  <2>1. r = ReadOf(t, m)
    BY <1>3, <1>4 DEF Ends
  <2>2. TalkInv(r) /\ r.pc = t.pc
    BY <1>1, <1>4, <2>1, ReadOnStep
  <2> QED
    BY <1>0, <2>2
<1>5. CASE t.wire[m].kind = "ok"
  <2>1. r = InvokeCallback([ReadOf(t, m) EXCEPT !.io = {}], next)
    BY <1>3, <1>5 DEF Ends
  <2> QED
    BY <1>1, <1>5, <2>1, IdleEndsStep
<1>6. CASE Ends(t.wire[m]) /\ t.wire[m].kind # "ok"
  <2>1. r = IdleError(ReadOf(t, m))
    BY <1>3, <1>6
  <2>2. ReadOf(t, m).known = t.known
    BY DEF ReadOf, TalkInv, TalkRecords
  <2>3. r = NoTalk(t.known)
    BY <2>1, <2>2 DEF IdleError
  <2>4. r.pc = "loop"
    <3>1. NoTalk(t.known).pc = "loop"
      BY DEF NoTalk
    <3> QED
      BY <2>3, <3>1, Zenon
  <2> QED
    BY <1>0, <2>3, <2>4, NoTalkStep
<1> QED
  BY <1>4, <1>5, <1>6

\* Who is busy takes the connection as it is, and hands it back the same way.
LEMMA TakenStep ==
    ASSUME NEW t, TalkInv(t), t.io = {}, t.conn,
           NEW n,
           \/ t.pc = "loop" /\ t.timer /\ n = [t EXCEPT !.pc = "caller"]
           \/ t.pc = "caller" /\ n = [t EXCEPT !.pc = "loop"]
           \/ t.pc = "loop" /\ t.idle
              /\ n = [t EXCEPT !.idle = FALSE, !.io = {}, !.timer = TRUE, !.pc = "caller"]
    PROVE  TalkInv(n)
<1>0. t \in TalkRecords
  BY DEF TalkInv
<1>1. n \in TalkRecords
  <2>1. "caller" \in Phases /\ "loop" \in Phases
    BY DEF Phases
  <2>2. [t EXCEPT !.pc = "caller"] \in TalkRecords /\ [t EXCEPT !.pc = "loop"] \in TalkRecords
    BY <1>0, <2>1 DEF TalkRecords
  <2>3. [t EXCEPT !.idle = FALSE, !.io = {}, !.timer = TRUE, !.pc = "caller"] \in TalkRecords
    BY <1>0, <2>1 DEF TalkRecords
  <2> QED
    BY <2>2, <2>3
<1>2. /\ \A f \in {"known", "link", "pending", "idling", "sent", "wire", "conn", "out", "got", "owed"} :
           n[f] = t[f]
      /\ n.io = {} /\ n.pc \in {"caller", "loop"}
  BY <1>0 DEF TalkRecords
<1>3. n.timer /\ ~n.idle
  <2>1. CASE t.pc = "loop" /\ t.idle /\ n = [t EXCEPT !.idle = FALSE, !.io = {}, !.timer = TRUE, !.pc = "caller"]
    BY <1>0, <2>1 DEF TalkRecords
  <2>2. CASE t.pc = "loop" /\ t.timer /\ n = [t EXCEPT !.pc = "caller"]
    <3>1. t.timer /\ ~t.idle /\ n.timer = t.timer /\ n.idle = t.idle
      BY <1>0, <2>2 DEF TalkInv, Client, TalkRecords
    <3> QED
      BY <3>1, Zenon
  <2>3. CASE t.pc = "caller" /\ n = [t EXCEPT !.pc = "loop"]
    <3>1. t.timer /\ ~t.idle /\ n.timer = t.timer /\ n.idle = t.idle
      BY <1>0, <2>3 DEF TalkInv, Client, TalkRecords
    <3> QED
      BY <3>1, Zenon
  <2> QED
    BY <2>1, <2>2, <2>3
<1>4. n.conn
  BY <1>2, Zenon
<1>5. ~AwaitsIdle(t) /\ ~AwaitsIdle(n) /\ t.pc \notin Requesting /\ n.pc \notin Requesting
  BY <1>2 DEF AwaitsIdle, Requesting
<1>6. t.link => t.out = <<>>
  BY DEF TalkInv, Client
<1>7. Client(n)
  <2>1. n.link => n.out = <<>>
    BY <1>2, <1>6, Zenon
  <2> QED
    BY <1>2, <1>3, <1>4, <2>1 DEF TalkInv, Client
<1>8. Answer(n.wire, Expects(n))
  BY <1>2, <1>5 DEF TalkInv, Expects
<1>9. News(n)
  BY <1>2, <1>5 DEF TalkInv, News
<1>10. Turn(n)
  <2>1. t.link => Still(t)
    BY <1>5 DEF TalkInv, Turn, Asked, InIdle, Leaving, AwaitsIdle
  <2>2. n.link => n.wire = <<>> /\ ~n.idling /\ n.sent \in {<<>>, <<"noidle">>}
    <3>1. t.link => t.wire = <<>> /\ ~t.idling /\ t.sent \in {<<>>, <<"noidle">>}
      BY <2>1 DEF Still
    <3> QED
      BY <1>2, <3>1, Zenon
  <2>3. ~n.link => n.sent = <<>> /\ ~n.idling
    <3>1. ~t.link => t.sent = <<>> /\ ~t.idling
      BY DEF TalkInv, Turn
    <3> QED
      BY <1>2, <3>1, Zenon
  <2> QED
    BY <1>5, <2>2, <2>3, NothingOnTheWay DEF Turn, Still
<1> QED
  BY <1>1, <1>7, <1>8, <1>9, <1>10 DEF TalkInv

\* The request of the command
LEMMA CommandStep ==
    ASSUME NEW t, TalkInv(t), t.pc = "caller", NEW n, n = Send([t EXCEPT !.pc = "command"], "request")
    PROVE  TalkInv(n)
<1> DEFINE sent == IF t.link THEN t.sent \o t.out \o <<"request">> ELSE t.sent
<1>0. t \in TalkRecords /\ t.io = {} /\ t.timer /\ ~t.idle /\ t.conn
  BY HasConnection DEF TalkInv, Client
<1>1. n = [t EXCEPT !.pc = "command", !.sent = sent, !.out = <<>>]
  BY <1>0 DEF Send, TalkRecords
<1>2. /\ t.link => t.wire = <<>> /\ ~t.idling /\ t.sent \in {<<>>, <<"noidle">>} /\ t.out = <<>>
      /\ ~t.link => t.sent = <<>> /\ ~t.idling
  BY <1>0 DEF TalkInv, Client, Turn, Still, Asked, InIdle, Leaving, AwaitsIdle, Requesting
<1>3. t.link => sent \in {<<"request">>, <<"noidle", "request">>}
  <2>1. ASSUME t.link PROVE sent = Append(t.sent, "request")
    BY <1>2, <2>1, Writing DEF Commands, Sendable
  <2> QED
    BY <1>2, <2>1, Queues
<1>4. sent \in Sendable
  <2>1. t.link => sent \in Sendable
    BY <1>3 DEF Sendable
  <2>2. ~t.link => sent \in Sendable
    BY <1>2 DEF Sendable
  <2> QED
    BY <2>1, <2>2, Zenon
<1>5. ~t.link => sent = <<>>
  BY <1>2
<1> HIDE DEF sent
<1>6. n \in TalkRecords
  <2>1. "command" \in Phases
    BY DEF Phases
  <2> QED
    BY <1>0, <1>1, <1>4, <2>1, NothingToWrite DEF TalkRecords
<1>7. /\ \A f \in {"known", "link", "pending", "idling", "wire", "conn", "idle", "timer", "io", "got",
                   "owed"} : n[f] = t[f]
      /\ n.sent = sent /\ n.out = <<>> /\ n.pc = "command"
  BY <1>0, <1>1 DEF TalkRecords
<1>8. n.conn /\ n.timer /\ ~n.idle
  BY <1>0, <1>7, Zenon
<1>9. Client(n)
  BY <1>0, <1>7, <1>8 DEF TalkInv, Client
<1>10. ~AwaitsIdle(t) /\ ~AwaitsIdle(n) /\ Expects(t) = "none" /\ Expects(n) = "request"
  BY <1>0, <1>7 DEF AwaitsIdle, Expects, Requesting
<1>11. Answer(n.wire, "request")
  BY <1>7, <1>10 DEF TalkInv, Answer
<1>12. News(n)
  BY <1>0, <1>7, <1>10 DEF TalkInv, News
<1>13. Turn(n)
  <2>1. n.link => n.wire = <<>> /\ ~n.idling
    BY <1>2, <1>7, Zenon
  <2>2. n.link => n.sent \in {<<"request">>, <<"noidle", "request">>}
    BY <1>3, <1>7, Zenon
  <2>3. ~n.link => n.sent = <<>> /\ ~n.idling
    BY <1>2, <1>5, <1>7, Zenon
  <2> QED
    BY <1>7, <2>1, <2>2, <2>3, NothingOnTheWay DEF Turn, Asked, Requesting
<1> QED
  BY <1>6, <1>9, <1>10, <1>11, <1>12, <1>13 DEF TalkInv

\* GetConnection() leaves idle mode: "noidle", unless the answer has begun.
LEMMA LeaveStep ==
    ASSUME NEW t, TalkInv(t), t.pc = "loop", t.io # {},
           NEW left, left = [t EXCEPT !.idle = FALSE, !.io = {}, !.pc = "leave"],
           NEW n, n = IF t.got = {} THEN Send(left, "noidle") ELSE left
    PROVE  TalkInv(n)
<1> DEFINE sent == IF t.link /\ t.got = {} THEN t.sent \o t.out \o <<"noidle">> ELSE t.sent
           out == IF t.got = {} THEN <<>> ELSE t.out
<1>0. t \in TalkRecords /\ t.idle /\ ~t.timer /\ t.conn
  BY HasConnection DEF TalkInv, Client
<1>1. n = [t EXCEPT !.idle = FALSE, !.io = {}, !.pc = "leave", !.sent = sent, !.out = out]
  <2>1. CASE t.got = {}
    BY <1>0, <2>1 DEF Send, TalkRecords
  <2>2. CASE t.got # {}
    BY <1>0, <2>2 DEF TalkRecords
  <2> QED
    BY <2>1, <2>2
<1>2. t.link => InIdle(t) /\ Clean(t.wire)
  BY DEF TalkInv, Turn, Still, Asked, Leaving, AwaitsIdle, Requesting
<1>3. ~t.link => t.sent = <<>> /\ ~t.idling
  BY DEF TalkInv, Turn
<1>4. ASSUME t.link
      PROVE  /\ out = <<>>
             /\ \/ t.wire = <<>> /\ ~t.idling /\ sent \in {<<"idle", "noidle">>, <<"noidle", "idle", "noidle">>}
                \/ t.wire = <<>> /\ t.idling /\ sent = <<"noidle">>
                \/ Ended(t.wire) /\ ~t.idling /\ sent \in {<<>>, <<"noidle">>}
  <2>0. InIdle(t) /\ t.out = IF "write" \in t.io THEN <<"idle">> ELSE <<>>
    BY <1>2, <1>4 DEF TalkInv, Client
  <2>1. CASE t.wire = <<>> /\ ~t.idling /\ t.got = {} /\ "write" \in t.io /\ t.sent \in {<<>>, <<"noidle">>}
    <3>1. sent = Append(Append(t.sent, "idle"), "noidle")
      BY <1>4, <2>0, <2>1, Writing DEF Commands, Sendable
    <3> QED
      BY <2>1, <3>1, Queues
  <2>2. CASE t.wire = <<>> /\ ~t.idling /\ t.got = {} /\ "write" \notin t.io
             /\ t.sent \in {<<"idle">>, <<"noidle", "idle">>}
    <3>1. sent = Append(t.sent, "noidle")
      BY <1>4, <2>0, <2>2, Writing DEF Commands, Sendable
    <3> QED
      BY <2>2, <3>1, Queues
  <2>3. CASE t.wire = <<>> /\ t.idling /\ t.got = {} /\ t.sent = <<>> /\ "write" \notin t.io
    <3>1. sent = Append(t.sent, "noidle")
      BY <1>4, <2>0, <2>3, Writing DEF Commands, Sendable
    <3> QED
      BY <2>3, <3>1, Queues
  <2>4. CASE Ended(t.wire) /\ ~t.idling /\ t.sent = <<>> /\ "write" \notin t.io
    <3>1. CASE t.got = {}
      <4>1. sent = Append(t.sent, "noidle")
        BY <1>4, <2>0, <2>4, <3>1, Writing DEF Commands, Sendable
      <4> QED
        BY <2>4, <3>1, <4>1, Queues
    <3>2. CASE t.got # {}
      BY <2>0, <2>4, <3>2
    <3> QED
      BY <3>1, <3>2
  <2> QED
    BY <2>0, <2>1, <2>2, <2>3, <2>4 DEF InIdle
<1>5. sent \in Sendable /\ out \in Seq(Commands)
  <2>1. t.link => sent \in Sendable
    BY <1>4 DEF Sendable
  <2>2. ~t.link => sent = <<>>
    BY <1>3
  <2>3. sent \in Sendable
    BY <2>1, <2>2, NothingToWrite, Zenon
  <2>4. t.out \in Seq(Commands)
    BY <1>0 DEF TalkRecords
  <2> QED
    BY <2>3, <2>4, NothingToWrite
<1>6. ~t.link => sent = <<>>
  BY <1>3
<1> HIDE DEF sent, out
<1>7. n \in TalkRecords
  <2>1. "leave" \in Phases
    BY DEF Phases
  <2> QED
    BY <1>0, <1>1, <1>5, <2>1 DEF TalkRecords
<1>8. /\ \A f \in {"known", "link", "pending", "idling", "wire", "conn", "timer", "got", "owed"} :
           n[f] = t[f]
      /\ n.sent = sent /\ n.out = out /\ n.pc = "leave" /\ n.io = {} /\ ~n.idle
  BY <1>0, <1>1 DEF TalkRecords
<1>9. n.conn /\ ~n.timer
  BY <1>0, <1>8, Zenon
<1>10. Client(n)
  <2>1. n.link => n.out = <<>>
    BY <1>4, <1>8, Zenon
  <2> QED
    BY <1>8, <1>9, <2>1 DEF TalkInv, Client
<1>11. AwaitsIdle(t) /\ AwaitsIdle(n) /\ Expects(t) = "idle" /\ Expects(n) = "idle"
  BY <1>8 DEF AwaitsIdle, Expects
<1>12. Answer(n.wire, "idle")
  BY <1>8, <1>11 DEF TalkInv
<1>13. News(n)
  BY <1>8, <1>11 DEF TalkInv, News
<1>14. Turn(n)
  <2>1. CASE t.link
    <3>1. n.link /\ n.idling = t.idling
      BY <1>8, <2>1, Zenon
    <3> QED
      BY <1>2, <1>4, <1>8, <2>1, <3>1 DEF Turn, Leaving
  <2>2. CASE ~t.link
    <3>1. ~n.link /\ ~n.idling
      BY <1>3, <1>8, <2>2, Zenon
    <3> QED
      BY <1>6, <1>8, <2>2, <3>1 DEF Turn
  <2> QED
    BY <2>1, <2>2
<1> QED
  BY <1>7, <1>10, <1>11, <1>12, <1>13, <1>14 DEF TalkInv

\* The answer to a request: it is one line, behind which there is nothing but garbage.
LEMMA AnswerRead ==
    ASSUME NEW w, Answer(w, "request"), w # <<>>, Head(w).kind # "garbage"
    PROVE  Tail(w) \in Seq(Lines) /\ Answer(Tail(w), "none") /\ (Clean(w) => Tail(w) = <<>>)
<1>1. w \in Seq(Lines) /\ Len(w) \in Nat /\ Len(w) >= 1 /\ 1 \in 1..Len(w) /\ 1 \in DOMAIN w
      /\ Head(w) = w[1]
  BY EmptySeq, LenProperties DEF Answer
<1>2. w[1] \in Lines /\ w[1].of \in {"request", "none"}
  BY <1>1, ElementOfSeq DEF Answer
<1>3. Ends(w[1])
  BY <1>1, <1>2, LineFacts
<1>4. Tail(w) = SubSeq(w, 1 + 1, Len(w))
  BY <1>1, TailIsSubSeq
<1>5. \A j \in 1..(1 - 1) : ~Ends(w[j])
  OBVIOUS
<1>6. Answer(SubSeq(w, 1 + 1, Len(w)), "none") /\ (Clean(w) => SubSeq(w, 1 + 1, Len(w)) = <<>>)
  BY <1>1, <1>3, <1>5, RestOfAnswer
<1> QED
  BY <1>4, <1>6 DEF Answer

\* Update() and the command have their answer.
LEMMA AnsweredCallStep ==
    ASSUME NEW t, TalkInv(t), t.pc \in Requesting, t.wire # <<>>, Head(t.wire).kind # "garbage",
           NEW pc \in {"loop", "caller"},
           NEW n,
           \/ n = [t EXCEPT !.wire = Tail(@), !.timer = TRUE, !.pc = pc]
           \/ n = [t EXCEPT !.wire = Tail(@), !.pc = pc] /\ t.timer
    PROVE  TalkInv(n)
<1>0. t \in TalkRecords /\ ~t.idle /\ t.io = {} /\ t.conn /\ Answer(t.wire, "request")
  BY HasConnection DEF TalkInv, Client, Requesting, Expects, AwaitsIdle
<1>1. /\ Tail(t.wire) \in Seq(Lines) /\ Answer(Tail(t.wire), "none")
      /\ Clean(t.wire) => Tail(t.wire) = <<>>
  BY <1>0, AnswerRead
<1>2. n \in TalkRecords
  <2> DEFINE rest == Tail(t.wire)
  <2>1. pc \in Phases
    BY DEF Phases
  <2>2. rest \in Seq(Lines)
    BY <1>1
  <2>3. n = [t EXCEPT !.wire = rest, !.timer = TRUE, !.pc = pc] \/ n = [t EXCEPT !.wire = rest, !.pc = pc]
    BY <1>0 DEF TalkRecords
  <2> HIDE DEF rest
  <2>4. [t EXCEPT !.wire = rest, !.timer = TRUE, !.pc = pc] \in TalkRecords
    BY <1>0, <2>1, <2>2 DEF TalkRecords
  <2>5. [t EXCEPT !.wire = rest, !.pc = pc] \in TalkRecords
    BY <1>0, <2>1, <2>2 DEF TalkRecords
  <2> QED
    BY <2>3, <2>4, <2>5
<1>3. /\ \A f \in {"known", "link", "pending", "idling", "sent", "conn", "idle", "io", "out", "got",
                   "owed"} : n[f] = t[f]
      /\ n.wire = Tail(t.wire) /\ n.pc = pc /\ n.timer
  <2>1. CASE n = [t EXCEPT !.wire = Tail(@), !.timer = TRUE, !.pc = pc]
    BY <1>0, <2>1 DEF TalkRecords
  <2>2. CASE n = [t EXCEPT !.wire = Tail(@), !.pc = pc] /\ t.timer
    <3>1. n.timer = t.timer
      BY <1>0, <2>2 DEF TalkRecords
    <3>2. n.timer
      BY <2>2, <3>1, Zenon
    <3> QED
      BY <1>0, <2>2, <3>2 DEF TalkRecords
  <2> QED
    BY <2>1, <2>2
<1>4. n.conn /\ ~n.idle
  BY <1>0, <1>3, Zenon
<1>5. Client(n)
  BY <1>0, <1>3, <1>4 DEF TalkInv, Client
<1>6. ~AwaitsIdle(t) /\ ~AwaitsIdle(n) /\ Expects(n) = "none" /\ n.pc \notin Requesting
  BY <1>0, <1>3 DEF AwaitsIdle, Expects, Requesting
<1>7. News(n)
  BY <1>0, <1>3, <1>6 DEF TalkInv, News
<1>8. Turn(n)
  <2>1. t.link => Tail(t.wire) = <<>> /\ ~t.idling /\ t.sent = <<>>
    BY <1>0, <1>1 DEF TalkInv, Turn, Still, Asked, InIdle, Leaving, Requesting
  <2>2. n.link => n.wire = <<>> /\ ~n.idling /\ n.sent = <<>>
    BY <1>3, <2>1, Zenon
  <2>3. ~t.link => t.sent = <<>> /\ ~t.idling
    BY DEF TalkInv, Turn
  <2>4. ~n.link => n.sent = <<>> /\ ~n.idling
    BY <1>3, <2>3, Zenon
  <2> QED
    BY <1>6, <2>2, <2>4, NothingOnTheWay DEF Turn, Still
<1> QED
  BY <1>1, <1>2, <1>3, <1>5, <1>6, <1>7, <1>8 DEF TalkInv

\* The inductive invariant, of the dialogue as it is.
TalkSafe == TalkInv(talk)

\* In the loop, the source of idle events is told; in Leave(), GetConnection() goes on.
LEMMA ReceiveInLoop ==
    ASSUME NEW t, TalkInv(t), AwaitsIdle(t), t.pc = "loop", NEW k \in 1..Len(t.wire),
           NEW r, r = Receive(t, k, "update")
    PROVE  TalkInv(r)
<1>1. ASSUME NEW next, next = IF t.pc = "leave" THEN "nested update" ELSE "update",
             NEW n, n = IF r.pc = "caller" THEN [r EXCEPT !.timer = TRUE] ELSE r
      PROVE  TalkInv(n) /\ n = r
  <2>1. r = Receive(t, k, next)
    BY <1>1
  <2>2. n = r
    BY <1>1, <2>1, ReceiveStep
  <2>3. TalkInv(n)
    BY <1>1, <2>1, ReceiveStep, ZenonT(30)
  <2> QED
    BY <2>2, <2>3
<1> QED
  BY <1>1

\* GetConnection() goes on when the answer has ended.
LEMMA ReceiveInLeave ==
    ASSUME NEW t, TalkInv(t), AwaitsIdle(t), t.pc = "leave", NEW k \in 1..Len(t.wire),
           NEW r, r = Receive(t, k, "nested update"),
           NEW n, n = IF r.pc = "caller" THEN [r EXCEPT !.timer = TRUE] ELSE r
    PROVE  TalkInv(n)
<1>1. "nested update" = IF t.pc = "leave" THEN "nested update" ELSE "update"
  OBVIOUS
<1>3. TalkInv(n)
  BY <1>1, ReceiveStep
<1> QED
  BY <1>3

\* The socket's event in the loop: writing, reading, or both
LEMMA IdleSocketStep ==
    ASSUME TalkInv(talk), IdleSocketReady
    PROVE  TalkInv(talk')
<1>1. PICK write \in BOOLEAN, k \in 0..Len(talk.wire) :
        /\ write => "write" \in talk.io
        /\ k > 0 => "read" \in talk.io
        /\ write \/ k > 0
        /\ talk' = IF k = 0 THEN IF write THEN Written(talk) ELSE talk
                   ELSE Receive(IF write THEN Written(talk) ELSE talk, k, "update")
  BY DEF IdleSocketReady
<1> DEFINE t == IF write THEN Written(talk) ELSE talk
<1>2. talk.pc = "loop" /\ talk.io \in {{}, {"read"}, {"read", "write"}}
  BY DEF IdleSocketReady, TalkInv, TalkRecords
<1>3. TalkInv(t) /\ t.wire = talk.wire /\ t.io # {}
  <2>1. CASE write
    <3>1. talk.io = {"read", "write"}
      BY <1>1, <1>2, <2>1
    <3> QED
      BY <2>1, <3>1, WrittenStep
  <2>2. CASE ~write
    <3>1. "read" \in talk.io
      BY <1>1, <2>2
    <3> QED
      BY <2>2, <3>1
  <2> QED
    BY <2>1, <2>2
<1>4. t.pc = "loop" /\ AwaitsIdle(t)
  BY <1>3 DEF TalkInv, Client, AwaitsIdle
<1>5. talk' = IF k = 0 THEN t ELSE Receive(t, k, "update")
  BY <1>1
<1> HIDE DEF t
<1>6. CASE k = 0
  BY <1>3, <1>5, <1>6
<1>7. CASE k # 0
  <2>1. k \in 1..Len(t.wire)
    BY <1>3, <1>7
  <2>2. talk' = Receive(t, k, "update")
    BY <1>5, <1>7
  <2>3. TalkInv(talk')
    BY <1>3, <1>4, <2>1, <2>2, ReceiveInLoop
  <2> QED
    BY <2>3
<1> QED
  BY <1>6, <1>7

\* A line read in Leave()
LEMMA LeaveReadsStep ==
    ASSUME TalkInv(talk), LeaveReads
    PROVE  TalkInv(talk')
<1> DEFINE r == Receive(talk, 1, "nested update")
           n == IF r.pc = "caller" THEN [r EXCEPT !.timer = TRUE] ELSE r
<1>1. talk.pc = "leave" /\ talk.wire # <<>> /\ talk' = n
  BY DEF LeaveReads
<1>2. 1 \in 1..Len(talk.wire)
  <2>1. talk.wire \in Seq(Lines)
    BY DEF TalkInv, TalkRecords
  <2>2. Len(talk.wire) \in Nat /\ Len(talk.wire) # 0
    BY <1>1, <2>1, EmptySeq, LenProperties
  <2> QED
    BY <2>2
<1>3. AwaitsIdle(talk)
  BY <1>1 DEF AwaitsIdle
<1>4. TalkInv(n)
  BY <1>1, <1>2, <1>3, ReceiveInLeave
<1> QED
  BY <1>1, <1>4

\* Every step of the dialogue keeps it.
LEMMA TalkStep == TalkSafe /\ [TalkNext]_talk => TalkSafe'
<1> SUFFICES ASSUME TalkInv(talk), [TalkNext]_talk
             PROVE  TalkInv(talk')
  BY DEF TalkSafe
<1>0. talk \in TalkRecords /\ talk.known \in {Known, Subsystems}
  BY DEF TalkInv, Client
<1>1. CASE MpdEvent
  <2>1. PICK e \in Subsystems :
          talk' = IF Raised(talk, e).idling THEN Notify(Raised(talk, e)) ELSE Raised(talk, e)
    <3>1. PICK e \in Subsystems :
            talk' = LET raised == [talk EXCEPT !.pending = @ \cup {e}, !.owed = @ \cup ({e} \cap talk.known)]
                    IN  IF talk.idling THEN Notify(raised) ELSE raised
      BY <1>1 DEF MpdEvent
    <3>2. Raised(talk, e).idling = talk.idling
      BY <1>0 DEF Raised, TalkRecords
    <3>3. talk' = IF talk.idling THEN Notify(Raised(talk, e)) ELSE Raised(talk, e)
      BY <3>1 DEF Raised
    <3> QED
      BY <3>2, <3>3
  <2>2. Raised(talk, e).idling = talk.idling
    BY <1>0 DEF Raised, TalkRecords
  <2>3. talk' = IF talk.idling THEN Notify(Raised(talk, e)) ELSE Raised(talk, e)
    BY <2>1, <2>2
  <2>4. talk.link
    BY <1>1 DEF MpdEvent
  <2> QED
    BY <2>3, <2>4, MpdEventStep
<1>2. CASE MpdReads
  BY <1>2, MpdReadsStep
<1>3. CASE LinkBreaks
  BY <1>3, LinkBreaksStep DEF LinkBreaks
<1>4. CASE TalkBegins
  BY <1>4, TalkBeginsStep DEF TalkBegins
<1>5. CASE EnterIdleMode
  BY <1>5, EnterStep DEF EnterIdleMode
<1>6. CASE CommandStarts
  <2>1. talk.pc = "loop" /\ talk.conn
        /\ talk' = IF talk.idle THEN LeaveMode(talk) ELSE [talk EXCEPT !.pc = "caller"]
    BY <1>6 DEF CommandStarts
  <2>2. CASE ~talk.idle
    <3>1. talk.timer /\ talk.io = {}
      BY <2>1, <2>2 DEF TalkInv, Client
    <3>2. talk' = [talk EXCEPT !.pc = "caller"]
      BY <2>1, <2>2
    <3> QED
      BY <2>1, <3>1, <3>2, TakenStep
  <2>3. CASE talk.idle /\ talk.io = {}
    <3>1. talk' = [talk EXCEPT !.idle = FALSE, !.io = {}, !.timer = TRUE, !.pc = "caller"]
      BY <1>0, <2>1, <2>3 DEF LeaveMode, TalkRecords
    <3> QED
      BY <2>1, <2>3, <3>1, TakenStep
  <2>4. CASE talk.idle /\ talk.io # {}
    <3> DEFINE left == [talk EXCEPT !.idle = FALSE, !.io = {}, !.pc = "leave"]
    <3>1. talk' = IF talk.got = {} THEN Send(left, "noidle") ELSE left
      BY <2>1, <2>4 DEF LeaveMode
    <3> QED
      BY <2>1, <2>4, <3>1, LeaveStep
  <2> QED
    BY <2>2, <2>3, <2>4
<1>7. CASE IdleSocketReady
  BY <1>7, IdleSocketStep
<1>8. CASE LeaveReads
  BY <1>8, LeaveReadsStep
<1>9. CASE IdleSocketFails \/ LeaveFails \/ RequestFails
  <2>1. talk' = NoTalk(talk.known)
    BY <1>9 DEF IdleSocketFails, LeaveFails, RequestFails, IdleError
  <2> QED
    BY <1>0, <2>1, NoTalkStep
<1>10. CASE UpdateReturns
  <2>1. talk.pc \in {"update", "nested update"} /\ talk.wire # <<>>
        /\ talk' = IF Head(talk.wire).kind = "garbage" THEN NoTalk(talk.known)
                   ELSE [talk EXCEPT !.wire = Tail(@), !.timer = TRUE,
                                     !.pc = IF @ = "update" THEN "loop" ELSE "caller"]
    BY <1>10 DEF UpdateReturns, IdleError
  <2>2. CASE Head(talk.wire).kind = "garbage"
    BY <1>0, <2>1, <2>2, NoTalkStep
  <2>3. CASE Head(talk.wire).kind # "garbage"
    <3> DEFINE pc == IF talk.pc = "update" THEN "loop" ELSE "caller"
    <3>1. talk' = [talk EXCEPT !.wire = Tail(@), !.timer = TRUE, !.pc = pc]
      BY <1>0, <2>1, <2>3 DEF TalkRecords
    <3>2. pc \in {"loop", "caller"} /\ talk.pc \in Requesting
      BY <2>1 DEF Requesting
    <3> HIDE DEF pc
    <3> QED
      BY <2>1, <2>3, <3>1, <3>2, AnsweredCallStep
  <2> QED
    BY <2>2, <2>3
<1>11. CASE CommandReturns
  <2>1. talk.pc = "command" /\ talk.wire # <<>>
        /\ talk' = IF Head(talk.wire).kind = "garbage" THEN NoTalk(talk.known)
                   ELSE [talk EXCEPT !.wire = Tail(@), !.pc = "loop"]
    BY <1>11 DEF CommandReturns, IdleError
  <2>2. CASE Head(talk.wire).kind = "garbage"
    BY <1>0, <2>1, <2>2, NoTalkStep
  <2>3. CASE Head(talk.wire).kind # "garbage"
    <3>1. talk' = [talk EXCEPT !.wire = Tail(@), !.pc = "loop"]
      BY <2>1, <2>3
    <3>2. talk.pc \in Requesting /\ talk.timer
      BY <2>1 DEF Requesting, TalkInv, Client
    <3> QED
      BY <2>1, <2>3, <3>1, <3>2, AnsweredCallStep
  <2> QED
    BY <2>2, <2>3
<1>12. CASE CallerGoesOn
  <2>1. talk.pc = "caller" /\ talk.io = {} /\ talk.conn
    BY <1>12, HasConnection DEF CallerGoesOn, TalkInv, Client
  <2>2. CASE talk' = Send([talk EXCEPT !.pc = "command"], "request")
    BY <2>1, <2>2, CommandStep
  <2>3. CASE talk' = [talk EXCEPT !.pc = "loop"]
    BY <2>1, <2>3, TakenStep
  <2> QED
    BY <1>12, <2>2, <2>3 DEF CallerGoesOn
<1>13. CASE UNCHANGED talk
  BY <1>13
<1> QED
  BY <1>1, <1>2, <1>3, <1>4, <1>5, <1>6, <1>7, <1>8, <1>9, <1>10, <1>11, <1>12, <1>13 DEF TalkNext, ClientRuns

\* What the properties see of it
LEMMA TalkIsSafe ==
    ASSUME TalkInv(talk)
    PROVE  TalkSound
<1>0. talk \in TalkRecords /\ Client(talk) /\ Answer(talk.wire, Expects(talk)) /\ Turn(talk) /\ News(talk)
  BY DEF TalkInv
<1>1. Awaited(talk) = Expects(talk)
  BY <1>0 DEF Awaited, Expects, AwaitsIdle, Requesting, Client
<1>2. TalkTypeOK
  <2>1. talk.io \in SUBSET {"read", "write"}
    BY <1>0 DEF TalkRecords
  <2> QED
    BY <1>0, <2>1 DEF TalkTypeOK, TalkRecords, Client
<1>3. AnswersMatch
  BY <1>0, <1>1 DEF AnswersMatch, Answer
<1>4. NothingSentWhileIdling
  <2>1. talk.idling => talk.link
    BY <1>0 DEF Turn
  <2>2. talk.idling => talk.sent \in {<<>>, <<"noidle">>}
    BY <1>0, <2>1 DEF Turn, Still, Asked, InIdle, Leaving
  <2> QED
    BY <2>2, Fronts DEF NothingSentWhileIdling
<1>5. NoNewsLost
  <2>1. EventsOn(talk.wire) = {line.event : line \in {l \in Range(talk.wire) : ~Ends(l)}}
    BY DEF EventsOn, Range
  <2> QED
    BY <1>0, <2>1 DEF NoNewsLost, News
<1>6. BackToIdle
  <2>1. talk.conn /\ talk.pc = "loop" => (talk.idle # talk.timer)
    <3>1. talk.conn /\ talk.pc = "loop" => talk.idle \/ talk.timer
      BY <1>0 DEF Client
    <3>2. talk.idle => ~talk.timer
      BY <1>0 DEF Client
    <3>3. talk.idle \in BOOLEAN /\ talk.timer \in BOOLEAN
      BY <1>0 DEF TalkRecords
    <3> QED
      BY <3>1, <3>2, <3>3
  <2>2. talk.timer => talk.io = {}
    BY <1>0 DEF Client
  <2>3. Deaf(talk) => talk.known # Subsystems
    BY <1>0 DEF Client, Deaf
  <2> QED
    BY <2>1, <2>2, <2>3 DEF BackToIdle
<1>7. NeverWaitsInVain
  <2> SUFFICES ASSUME talk.link, Expects(talk) # "none"
               PROVE  \/ Expects(talk) \in Range(talk.sent \o talk.out)
                      \/ \E line \in Range(talk.wire) : Ends(line)
                      \/ Expects(talk) = "idle" /\ talk.idling
                         /\ (talk.pc = "leave" => "noidle" \in Range(talk.sent \o talk.out))
    BY <1>1 DEF NeverWaitsInVain
  <2> DEFINE way == talk.sent \o talk.out
  <2>1. Ended(talk.wire) => \E line \in Range(talk.wire) : Ends(line)
    BY DEF Ended, Range
  <2>2. way = IF "write" \in talk.io THEN Append(talk.sent, "idle") ELSE talk.sent
    BY <1>0, Writing DEF Client, TalkRecords, Commands
  <2>3. "request" \in Range(<<"request">>) /\ "request" \in Range(<<"noidle", "request">>)
        /\ "idle" \in Range(<<"idle">>) /\ "idle" \in Range(<<"noidle", "idle">>)
        /\ "idle" \in Range(<<"idle", "noidle">>) /\ "idle" \in Range(<<"noidle", "idle", "noidle">>)
        /\ "noidle" \in Range(<<"noidle">>)
    BY DEF Range
  <2> HIDE DEF way
  <2>4. CASE Asked(talk)
    <3>1. talk.io = {} /\ Expects(talk) = "request"
      BY <1>0, <2>4 DEF Asked, Client, Expects, AwaitsIdle, Requesting
    <3>2. way = talk.sent
      BY <2>2, <3>1
    <3> QED
      BY <2>1, <2>3, <2>4, <3>1, <3>2 DEF Asked, way
  <2>5. CASE InIdle(talk)
    <3>1. Expects(talk) = "idle" /\ talk.pc # "leave"
      BY <1>0, <2>5 DEF InIdle, Client, Expects, AwaitsIdle
    <3>2. CASE Ended(talk.wire)
      BY <2>1, <3>2
    <3>3. CASE talk.idling
      BY <3>1, <3>3
    <3>4. CASE ~Ended(talk.wire) /\ ~talk.idling
      <4>1. way \in {<<"idle">>, <<"noidle", "idle">>}
        BY <2>2, <2>5, <3>4, Queues DEF InIdle
      <4> QED
        BY <2>3, <3>1, <4>1 DEF way
    <3> QED
      BY <3>2, <3>3, <3>4
  <2>6. CASE Leaving(talk)
    <3>1. Expects(talk) = "idle" /\ talk.io = {}
      BY <1>0, <2>6 DEF Leaving, Client, Expects, AwaitsIdle
    <3>2. way = talk.sent
      BY <2>2, <3>1
    <3> QED
      BY <2>1, <2>3, <2>6, <3>1, <3>2 DEF Leaving, way
  <2>7. ~Still(talk)
    BY DEF Still, Expects
  <2> QED
    BY <1>0, <2>4, <2>5, <2>6, <2>7 DEF Turn
<1> QED
  BY <1>2, <1>3, <1>4, <1>5, <1>6, <1>7 DEF TalkSound

\* The invariant implies the properties.
LEMMA TalkSafeSound == TalkSafe => TalkSound
  BY TalkIsSafe DEF TalkSafe

\* There is no connection at first.
LEMMA TalkStarts == TalkInit => TalkSafe
  BY NoTalkStep DEF TalkInit, TalkSafe

\* Whatever MPD, the user and the network do: lines, commands, idle mode and news stay in step.
THEOREM TalkIsSound == TalkSpec => []TalkSound
<1>1. TalkSpec => []TalkSafe
  BY TalkStarts, TalkStep, PTL DEF TalkSpec
<1> QED
  BY <1>1, TalkSafeSound, PTL

-----------------------------------------------------------------------------
(* Sockets *)

\* The numbers 1 to the size of K name the members of K, each one once.
LEMMA NthSmallestFacts ==
    ASSUME NEW n \in Nat, NEW K \in SUBSET (1..n)
    PROVE  /\ IsFiniteSet(K) /\ Cardinality(K) \in Nat
           /\ \A k \in 1..Cardinality(K) : NthSmallest(K, k) \in K
           /\ \A p \in K : \E k \in 1..Cardinality(K) : NthSmallest(K, k) = p
           /\ \A j, k \in 1..Cardinality(K) : NthSmallest(K, j) = NthSmallest(K, k) => j = k
<1> DEFINE N == Cardinality(K)
           Below(p) == {r \in K : r <= p}
           rank == [p \in K |-> Cardinality(Below(p))]
<1>1. IsFiniteSet(K) /\ N \in Nat
  <2>1. IsFiniteSet(1..n)
    <3>1. 1 \in Int /\ n \in Int
      OBVIOUS
    <3> QED
      BY <3>1, FS_Interval, Zenon
  <2> QED
    BY <2>1, FS_Subset, FS_CardinalityType
<1>2. ASSUME NEW p \in K
      PROVE  IsFiniteSet(Below(p)) /\ Cardinality(Below(p)) \in 1..N
  <2>1. Below(p) \in SUBSET K /\ p \in Below(p)
    OBVIOUS
  <2>2. IsFiniteSet(Below(p)) /\ Cardinality(Below(p)) <= N /\ Cardinality(Below(p)) \in Nat
    BY <1>1, <2>1, FS_Subset, FS_CardinalityType
  <2>3. Cardinality(Below(p)) # 0
    BY <2>1, <2>2, FS_EmptySet
  <2> QED
    BY <2>2, <2>3, <1>1
<1>3. ASSUME NEW p \in K, NEW r \in K, p < r
      PROVE  Cardinality(Below(p)) < Cardinality(Below(r))
  <2>1. Below(p) \in SUBSET Below(r) /\ r \in Below(r) /\ r \notin Below(p)
    <3>1. \A x \in K : x \in Int
      OBVIOUS
    <3>2. \A x \in K : x <= p => x <= r
      BY <1>3, <3>1
    <3>3. ~(r <= p) /\ r <= r
      BY <1>3, <3>1
    <3> QED
      BY <3>2, <3>3
  <2>2. Cardinality(Below(p)) <= Cardinality(Below(r))
        /\ Cardinality(Below(p)) # Cardinality(Below(r))
    BY <2>1, <1>2, FS_Subset
  <2> QED
    BY <2>2, <1>2
<1>4. ASSUME NEW p \in K, NEW r \in K, rank[p] = rank[r]
      PROVE  p = r
  BY <1>2, <1>3, <1>4
<1>5. rank \in Surjection(K, 1..N)
  <2>1. rank \in [K -> 1..N]
    BY <1>2
  <2>2. rank \in Injection(K, 1..N)
    BY <2>1, <1>4 DEF Injection, IsInjective
  <2>3. IsFiniteSet(1..N) /\ Cardinality(1..N) = N
    <3>1. 1 \in Int /\ N \in Int
      BY <1>1
    <3>2. IsFiniteSet(1..N) /\ Cardinality(1..N) = IF 1 > N THEN 0 ELSE N - 1 + 1
      BY <3>1, FS_Interval, Zenon
    <3> QED
      BY <3>2, <1>1
  <2> QED
    BY <2>2, <2>3, FS_Injection
<1>6. \A k \in 1..N : \E p \in K : Cardinality(Below(p)) = k
  BY <1>5 DEF Surjection
<1>7. ASSUME NEW k \in 1..N
      PROVE  NthSmallest(K, k) \in K /\ Cardinality(Below(NthSmallest(K, k))) = k
  BY <1>6 DEF NthSmallest
<1>8. ASSUME NEW p \in K
      PROVE  NthSmallest(K, Cardinality(Below(p))) = p
  <2>1. rank[NthSmallest(K, Cardinality(Below(p)))] = rank[p]
    BY <1>2, <1>7
  <2> QED
    BY <2>1, <1>2, <1>4, <1>7
<1> QED
  BY <1>1, <1>2, <1>7, <1>8

\* What is picked from a sequence is in it, at a position in K; all of it is; and if no two of
\* those positions have the same entry, nor have those of what is picked.
LEMMA PickedFacts ==
    ASSUME NEW S, NEW n \in Nat, NEW q \in [1..n -> S], NEW K \in SUBSET (1..n)
    PROVE  /\ Picked(q, K) \in Seq(S)
           /\ Range(Picked(q, K)) = {q[p] : p \in K}
           /\ (\A p, r \in K : q[p] = q[r] => p = r) => IsInjective(Picked(q, K))
<1>1. Cardinality(K) \in Nat /\ \A k \in 1..Cardinality(K) : NthSmallest(K, k) \in K
  BY NthSmallestFacts
<1>2. Picked(q, K) \in [1..Cardinality(K) -> S]
  BY <1>1 DEF Picked
<1>3. Picked(q, K) \in Seq(S)
  BY <1>1, <1>2, SeqDef
<1> DEFINE N == Cardinality(K)
           f(k) == NthSmallest(K, k)
<1>4. DOMAIN Picked(q, K) = 1..N /\ \A k \in 1..N : Picked(q, K)[k] = q[f(k)]
  BY DEF Picked
<1>5. /\ \A p \in K : \E k \in 1..N : f(k) = p
      /\ \A j, k \in 1..N : f(j) = f(k) => j = k
  BY NthSmallestFacts
<1> HIDE DEF N, f
<1>6. Range(Picked(q, K)) = {q[p] : p \in K}
  <2>1. Range(Picked(q, K)) = {q[f(k)] : k \in 1..N}
    BY <1>4 DEF Range
  <2>2. \A k \in 1..N : f(k) \in K
    BY <1>1 DEF N, f
  <2>3. ASSUME NEW p \in K
        PROVE  q[p] \in Range(Picked(q, K))
    <3>1. PICK k \in 1..N : f(k) = p
      BY <1>5
    <3>2. q[p] = q[f(k)]
      BY <3>1
    <3> QED
      BY <3>2, <2>1
  <2> QED
    BY <2>1, <2>2, <2>3
<1>7. ASSUME \A p, r \in K : q[p] = q[r] => p = r
      PROVE  IsInjective(Picked(q, K))
  <2>1. \A k \in 1..N : f(k) \in K
    BY <1>1 DEF N, f
  <2> QED
    BY <2>1, <1>4, <1>5, <1>7 DEF IsInjective
<1> QED
  BY <1>3, <1>6, <1>7

LEMMA WithoutFacts ==
    ASSUME NEW S, NEW q \in Seq(S), NEW X
    PROVE  /\ Without(q, X) \in Seq(S)
           /\ Range(Without(q, X)) = Range(q) \ X
           /\ IsInjective(q) => IsInjective(Without(q, X))
<1> DEFINE K == {i \in DOMAIN q : q[i] \notin X}
<1>1. Len(q) \in Nat /\ q \in [1..Len(q) -> S] /\ K \in SUBSET (1..Len(q)) /\ DOMAIN q = 1..Len(q)
  OBVIOUS
<1>2. Without(q, X) = Picked(q, K)
  BY DEF Without
<1>3. Range(q) \ X = {q[p] : p \in K}
  BY DEF Range
<1>4. IsInjective(q) => \A p, r \in K : q[p] = q[r] => p = r
  BY DEF IsInjective
<1> HIDE DEF K
<1> QED
  BY <1>1, <1>2, <1>3, <1>4, PickedFacts

\* The types of the sockets' state.
SocketRecords ==
    [event : [Events -> [fd : Descriptors \cup {Undefined}, scheduled : SUBSET Flags,
                         ready : SUBSET Flags, asof : BOOLEAN]],
     list : Seq(Events), queue : Seq(Events),
     poll : Seq([fd : Descriptors, events : SUBSET Flags]),
     items : UNION {[D -> [index : Nat, obj : Events]] : D \in SUBSET Descriptors},
     open : SUBSET Descriptors, phase : {"callbacks", "poll", "dispatch"}, quit : BOOLEAN]

\* Every open socket has one event; an event without a socket is not scheduled.
Owned(q) ==
    /\ \A e, f \in Events : q.event[e].fd = q.event[f].fd => e = f \/ q.event[e].fd = Undefined
    /\ \A d \in Descriptors : d \in q.open <=> \E e \in Events : q.event[e].fd = d
    /\ \A e \in Events : q.event[e].scheduled # {} => q.event[e].fd # Undefined

\* The backend finds the entry of a descriptor, and the descriptor of an entry.
Dense(q) ==
    /\ \A i \in DOMAIN q.poll : q.poll[i].fd \in DOMAIN q.items /\ q.items[q.poll[i].fd].index = i
    /\ \A d \in DOMAIN q.items : q.items[d].index \in DOMAIN q.poll /\ q.poll[q.items[d].index].fd = d

\* What it watches is what is scheduled.
WatchesOwn(q) ==
    /\ \A d \in DOMAIN q.items :
          LET e == q.items[d].obj
          IN  /\ q.event[e].fd = d /\ q.event[e].scheduled # {}
              /\ q.poll[q.items[d].index].events = q.event[e].scheduled
    /\ \A e \in Events : q.event[e].scheduled # {} => q.event[e].fd \in DOMAIN q.items

\* The two lists share out the scheduled events; what is in the second one was reported for the
\* socket that the event has.
Linked(q) ==
    /\ IsInjective(q.list) /\ IsInjective(q.queue)
    /\ \A e \in Events :
          /\ ~(e \in Range(q.list) /\ e \in Range(q.queue))
          /\ e \in Range(q.list) \/ e \in Range(q.queue) <=> q.event[e].scheduled # {}
          /\ e \in Range(q.queue) => q.event[e].asof

SocketsSafe(q) == q \in SocketRecords /\ Owned(q) /\ Dense(q) /\ WatchesOwn(q) /\ Linked(q)

-----------------------------------------------------------------------------
LEMMA GapFacts ==
    ASSUME NEW S, NEW q \in Seq(S), NEW i \in 1..Len(q)
    PROVE  /\ Gap(q, i) \in Seq(S) /\ Len(Gap(q, i)) = Len(q) - 1
           /\ \A j \in 1..(Len(q) - 1) : Gap(q, i)[j] = IF j = i THEN q[Len(q)] ELSE q[j]
<1> DEFINE n == Len(q)
           moved == [q EXCEPT ![i] = q[n]]
<1>1. n \in Nat /\ q[n] \in S /\ n >= 1
  BY ElementOfSeq
<1>2. moved \in Seq(S) /\ Len(moved) = n /\ \A j \in 1..n : moved[j] = IF j = i THEN q[n] ELSE q[j]
  BY <1>1, ExceptSeq
<1> HIDE DEF moved, n
<1>3. /\ SubSeq(moved, 1, n - 1) \in Seq(S)
      /\ Len(SubSeq(moved, 1, n - 1)) = IF 1 <= n - 1 THEN n - 1 - 1 + 1 ELSE 0
      /\ \A j \in 1..(n - 1 - 1 + 1) : SubSeq(moved, 1, n - 1)[j] = moved[1 + j - 1]
  <2>1. 1 \in Int /\ n - 1 \in Int /\ \A j \in 1..(n - 1) : moved[j] \in S
    BY <1>1, <1>2, ElementOfSeq
  <2> QED
    BY <2>1, SubSeqProperties
<1>4. Gap(q, i) = SubSeq(moved, 1, n - 1)
  BY <1>2 DEF Gap, moved, n
<1> QED
  BY <1>1, <1>2, <1>3, <1>4 DEF n

LEMMA AppendFacts ==
    ASSUME NEW S, NEW q \in Seq(S), NEW x \in S
    PROVE  /\ Append(q, x) \in Seq(S)
           /\ Range(Append(q, x)) = Range(q) \cup {x}
           /\ IsInjective(q) /\ x \notin Range(q) => IsInjective(Append(q, x))
<1>1. /\ Append(q, x) \in Seq(S) /\ Len(Append(q, x)) = Len(q) + 1
      /\ \A i \in 1..Len(q) : Append(q, x)[i] = q[i]
      /\ Append(q, x)[Len(q) + 1] = x
  BY AppendProperties
<1> QED
  BY <1>1 DEF Range, IsInjective

LEMMA TailFacts ==
    ASSUME NEW S, NEW q \in Seq(S), q # <<>>, IsInjective(q)
    PROVE  /\ Tail(q) \in Seq(S) /\ Head(q) \in Range(q)
           /\ IsInjective(Tail(q)) /\ Range(Tail(q)) = Range(q) \ {Head(q)}
<1>1. /\ Tail(q) \in Seq(S) /\ Len(Tail(q)) = Len(q) - 1 /\ Len(q) \in Nat \ {0}
      /\ \A i \in 1..Len(Tail(q)) : Tail(q)[i] = q[i + 1]
      /\ Head(q) = q[1]
  BY HeadTailProperties, EmptySeq
<1>2. DOMAIN q = 1..Len(q) /\ DOMAIN Tail(q) = 1..Len(Tail(q))
  BY <1>1
<1>3. Head(q) \in Range(q)
  BY <1>1, <1>2 DEF Range
<1>4. IsInjective(Tail(q))
  BY <1>1, <1>2 DEF IsInjective
<1>5. ASSUME NEW x \in Range(Tail(q))
      PROVE  x \in Range(q) /\ x # Head(q)
  <2>1. PICK i \in 1..Len(Tail(q)) : x = Tail(q)[i]
    BY <1>2 DEF Range
  <2>2. i + 1 \in 1..Len(q) /\ i + 1 # 1 /\ 1 \in 1..Len(q) /\ x = q[i + 1]
    BY <2>1, <1>1
  <2> QED
    BY <2>2, <1>1, <1>2 DEF Range, IsInjective
<1>6. ASSUME NEW x \in Range(q), x # Head(q)
      PROVE  x \in Range(Tail(q))
  <2>1. PICK i \in 1..Len(q) : x = q[i]
    BY <1>2 DEF Range
  <2>2. i - 1 \in 1..Len(Tail(q)) /\ x = Tail(q)[i - 1]
    BY <2>1, <1>1, <1>6
  <2> QED
    BY <2>2, <1>2 DEF Range
<1> QED
  BY <1>1, <1>3, <1>4, <1>5, <1>6

-----------------------------------------------------------------------------
\* Add(): a new last entry.
LEMMA AddKeeps ==
    ASSUME NEW q, SocketsSafe(q), NEW e \in Events, NEW flags \in SUBSET Flags, flags # {},
           q.event[e].fd # Undefined, q.event[e].scheduled = {}
    PROVE  SocketsSafe([AddFD(q, e, flags) EXCEPT !.event[e].scheduled = flags])
<1> DEFINE d == q.event[e].fd
           n == Len(q.poll)
           entry == [fd |-> d, events |-> flags]
           poll == Append(q.poll, entry)
           items == [k \in DOMAIN q.items \cup {d} |->
                        IF k = d THEN [index |-> n + 1, obj |-> e] ELSE q.items[k]]
           list == Append(q.list, e)
           event == [q.event EXCEPT ![e].scheduled = flags]
           t == [q EXCEPT !.poll = poll, !.items = items, !.list = list, !.event = event]
<1>0. [AddFD(q, e, flags) EXCEPT !.event[e].scheduled = flags] = t
  BY DEF AddFD, PollAdd, SocketsSafe, SocketRecords
<1>1. q \in SocketRecords /\ Owned(q) /\ Dense(q) /\ WatchesOwn(q) /\ Linked(q)
  BY DEF SocketsSafe
<1>2. d \in Descriptors /\ d \notin DOMAIN q.items
  BY <1>1 DEF SocketRecords, Owned, WatchesOwn
<1>3. /\ poll \in Seq([fd : Descriptors, events : SUBSET Flags]) /\ Len(poll) = n + 1
      /\ n \in Nat /\ DOMAIN q.poll = 1..n /\ DOMAIN poll = 1..(n + 1)
      /\ \A i \in 1..n : poll[i] = q.poll[i]
      /\ poll[n + 1] = entry
  <2>1. q.poll \in Seq([fd : Descriptors, events : SUBSET Flags])
    BY <1>1 DEF SocketRecords
  <2>2. entry \in [fd : Descriptors, events : SUBSET Flags]
    BY <1>2
  <2> HIDE DEF entry
  <2> QED
    BY <2>1, <2>2, AppendProperties
<1>4. /\ DOMAIN items = DOMAIN q.items \cup {d}
      /\ items[d] = [index |-> n + 1, obj |-> e]
      /\ \A k \in DOMAIN q.items : items[k] = q.items[k] /\ k # d
  BY <1>2
<1>5. /\ list \in Seq(Events) /\ IsInjective(list) /\ Range(list) = Range(q.list) \cup {e}
  BY <1>1, AppendFacts DEF SocketRecords, Linked
<1>6. /\ event \in [Events -> [fd : Descriptors \cup {Undefined}, scheduled : SUBSET Flags,
                               ready : SUBSET Flags, asof : BOOLEAN]]
      /\ \A f \in Events : /\ event[f].fd = q.event[f].fd /\ event[f].asof = q.event[f].asof
                           /\ event[f].scheduled = IF f = e THEN flags ELSE q.event[f].scheduled
  BY <1>1 DEF SocketRecords
<1>7. items \in UNION {[D -> [index : Nat, obj : Events]] : D \in SUBSET Descriptors}
  <2>1. q.items \in [DOMAIN q.items -> [index : Nat, obj : Events]] /\ DOMAIN q.items \subseteq Descriptors
    BY <1>1 DEF SocketRecords
  <2>2. items \in [DOMAIN q.items \cup {d} -> [index : Nat, obj : Events]]
    BY <2>1, <1>3
  <2> QED
    <3>1. DOMAIN q.items \cup {d} \in SUBSET Descriptors
      BY <2>1, <1>2
    <3> HIDE DEF items, d
    <3> QED
      BY <2>2, <3>1
<1> HIDE DEF poll, items, list, event, entry, n
<1>8. /\ t.poll = poll /\ t.items = items /\ t.list = list /\ t.event = event
      /\ t.queue = q.queue /\ t.open = q.open
      /\ t \in SocketRecords
  BY <1>1, <1>3, <1>5, <1>6, <1>7 DEF SocketRecords
<1> HIDE DEF t
<1>9. Owned(t)
  BY <1>1, <1>6, <1>8 DEF Owned
<1>10. Dense(t)
  BY <1>1, <1>3, <1>4, <1>8 DEF Dense, entry
<1>11. WatchesOwn(t)
  <2>1. ASSUME NEW k \in DOMAIN q.items
        PROVE  /\ event[items[k].obj].fd = k /\ event[items[k].obj].scheduled # {}
               /\ poll[items[k].index].events = event[items[k].obj].scheduled
    <3>1. items[k] = q.items[k] /\ q.items[k].obj \in Events /\ q.items[k].obj # e
      BY <1>1, <1>4 DEF SocketRecords, WatchesOwn, Dense
    <3>2. q.items[k].index \in 1..n
      BY <1>1, <1>3 DEF Dense
    <3> QED
      BY <3>1, <3>2, <1>1, <1>3, <1>6 DEF WatchesOwn
  <2>2. /\ event[items[d].obj].fd = d /\ event[items[d].obj].scheduled # {}
        /\ poll[items[d].index].events = event[items[d].obj].scheduled
    BY <1>3, <1>4, <1>6 DEF entry
  <2>3. \A f \in Events : event[f].scheduled # {} => event[f].fd \in DOMAIN items
    BY <1>1, <1>4, <1>6 DEF WatchesOwn
  <2> QED
    BY <2>1, <2>2, <2>3, <1>4, <1>8 DEF WatchesOwn
<1>12. Linked(t)
  BY <1>1, <1>5, <1>6, <1>8 DEF Linked
<1> QED
  BY <1>0, <1>8, <1>9, <1>10, <1>11, <1>12 DEF SocketsSafe

\* Modify(): the entry of the event gets its new flags.
LEMMA ModifyKeeps ==
    ASSUME NEW q, SocketsSafe(q), NEW e \in Events, NEW flags \in SUBSET Flags, flags # {},
           q.event[e].scheduled # {}
    PROVE  SocketsSafe([PollModify(q, q.event[e].fd, flags, e) EXCEPT !.event[e].scheduled = flags])
<1> DEFINE d == q.event[e].fd
           m == q.items[d].index
           poll == [q.poll EXCEPT ![m].events = flags]
           items == [q.items EXCEPT ![d].obj = e]
           event == [q.event EXCEPT ![e].scheduled = flags]
           t == [q EXCEPT !.poll = poll, !.items = items, !.event = event]
<1>0. [PollModify(q, d, flags, e) EXCEPT !.event[e].scheduled = flags] = t
  BY DEF PollModify, SocketsSafe, SocketRecords
<1>1. q \in SocketRecords /\ Owned(q) /\ Dense(q) /\ WatchesOwn(q) /\ Linked(q)
  BY DEF SocketsSafe
<1>2. d \in DOMAIN q.items /\ q.items[d].obj = e /\ m \in DOMAIN q.poll
  <2>1. d \in DOMAIN q.items /\ d # Undefined
    BY <1>1 DEF WatchesOwn, Owned
  <2>2. q.items[d].obj \in Events /\ q.event[q.items[d].obj].fd = d
    BY <2>1, <1>1 DEF SocketRecords, WatchesOwn
  <2> QED
    BY <2>1, <2>2, <1>1 DEF Owned, Dense
<1>3. items = q.items
  BY <1>1, <1>2 DEF SocketRecords
<1>4. /\ poll \in Seq([fd : Descriptors, events : SUBSET Flags]) /\ DOMAIN poll = DOMAIN q.poll
      /\ \A i \in DOMAIN poll : poll[i].fd = q.poll[i].fd
                                /\ poll[i].events = IF i = m THEN flags ELSE q.poll[i].events
  <2> DEFINE S == [fd : Descriptors, events : SUBSET Flags]
             x == [q.poll[m] EXCEPT !.events = flags]
  <2>1. q.poll \in Seq(S) /\ m \in 1..Len(q.poll) /\ DOMAIN q.poll = 1..Len(q.poll)
    BY <1>1, <1>2 DEF SocketRecords
  <2>2. q.poll[m] \in S
    BY <2>1, ElementOfSeq
  <2>3. x \in S /\ x.fd = q.poll[m].fd /\ x.events = flags
    BY <2>2
  <2>4. poll = [q.poll EXCEPT ![m] = x]
    OBVIOUS
  <2> HIDE DEF S, x, poll, m
  <2>5. /\ [q.poll EXCEPT ![m] = x] \in Seq(S) /\ Len([q.poll EXCEPT ![m] = x]) = Len(q.poll)
        /\ \A j \in 1..Len(q.poll) : [q.poll EXCEPT ![m] = x][j] = IF j = m THEN x ELSE q.poll[j]
    BY <2>1, <2>3, ExceptSeq
  <2>6. DOMAIN poll = 1..Len(q.poll)
    BY <2>4, <2>5, LenProperties
  <2>7. \A i \in 1..Len(q.poll) : poll[i] = IF i = m THEN x ELSE q.poll[i]
    BY <2>4, <2>5
  <2> QED
    BY <2>1, <2>3, <2>4, <2>5, <2>6, <2>7 DEF S
<1>5. /\ event \in [Events -> [fd : Descriptors \cup {Undefined}, scheduled : SUBSET Flags,
                               ready : SUBSET Flags, asof : BOOLEAN]]
      /\ \A f \in Events : /\ event[f].fd = q.event[f].fd /\ event[f].asof = q.event[f].asof
                           /\ event[f].scheduled = IF f = e THEN flags ELSE q.event[f].scheduled
  BY <1>1 DEF SocketRecords
<1> HIDE DEF poll, items, event, m
<1>6. /\ t.poll = poll /\ t.items = q.items /\ t.event = event
      /\ t.list = q.list /\ t.queue = q.queue /\ t.open = q.open
      /\ t \in SocketRecords
  BY <1>1, <1>3, <1>4, <1>5 DEF SocketRecords
<1> HIDE DEF t
<1>7. Owned(t)
  BY <1>1, <1>5, <1>6 DEF Owned
<1>8. Dense(t)
  <2>1. \A i \in DOMAIN q.poll : t.poll[i].fd = q.poll[i].fd
    BY <1>4, <1>6
  <2>2. DOMAIN t.poll = DOMAIN q.poll
    BY <1>4, <1>6
  <2> QED
    BY <2>1, <2>2, <1>1, <1>6 DEF Dense
<1>9. WatchesOwn(t)
  <2>1. ASSUME NEW k \in DOMAIN q.items
        PROVE  /\ event[q.items[k].obj].fd = k /\ event[q.items[k].obj].scheduled # {}
               /\ poll[q.items[k].index].events = event[q.items[k].obj].scheduled
    <3>1. q.items[k].obj \in Events /\ q.items[k].index \in DOMAIN poll
      BY <1>1, <1>4 DEF SocketRecords, Dense
    <3>2. q.items[k].obj = e <=> k = d
      BY <1>1, <1>2 DEF WatchesOwn
    <3>3. q.items[k].index = m <=> k = d
      BY <1>1, <1>2 DEF Dense, m
    <3> QED
      BY <3>1, <3>2, <3>3, <1>1, <1>4, <1>5 DEF WatchesOwn
  <2>2. \A f \in Events : event[f].scheduled # {} => event[f].fd \in DOMAIN q.items
    BY <1>1, <1>2, <1>5 DEF WatchesOwn
  <2> QED
    BY <2>1, <2>2, <1>6 DEF WatchesOwn
<1>10. Linked(t)
  BY <1>1, <1>5, <1>6 DEF Linked
<1> QED
  BY <1>0, <1>6, <1>7, <1>8, <1>9, <1>10 DEF SocketsSafe

\* Remove(): the last entry takes the place of the one that goes.
LEMMA RemoveKeeps ==
    ASSUME NEW q, SocketsSafe(q), NEW e \in Events, q.event[e].scheduled # {}
    PROVE  SocketsSafe([RemoveFD(q, e) EXCEPT !.event[e].scheduled = {}])
<1> DEFINE d == q.event[e].fd
           m == q.items[d].index
           n == Len(q.poll)
           lastfd == Last(q.poll).fd
           poll == Gap(q.poll, m)
           items == [k \in DOMAIN q.items \ {d} |->
                        IF k = lastfd THEN [q.items[k] EXCEPT !.index = m] ELSE q.items[k]]
           list == Without(q.list, {e})
           queue == Without(q.queue, {e})
           event == [q.event EXCEPT ![e].scheduled = {}]
           t == [q EXCEPT !.poll = poll, !.items = items, !.list = list, !.queue = queue,
                          !.event = event]
<1>0. [RemoveFD(q, e) EXCEPT !.event[e].scheduled = {}] = t
  BY DEF RemoveFD, PollRemove, SocketsSafe, SocketRecords
<1>1. q \in SocketRecords /\ Owned(q) /\ Dense(q) /\ WatchesOwn(q) /\ Linked(q)
  BY DEF SocketsSafe
<1>2. d \in DOMAIN q.items /\ q.items[d].obj = e
  <2>1. d \in DOMAIN q.items /\ d # Undefined
    BY <1>1 DEF WatchesOwn, Owned
  <2>2. q.items[d].obj \in Events /\ q.event[q.items[d].obj].fd = d
    BY <2>1, <1>1 DEF SocketRecords, WatchesOwn
  <2> QED
    BY <2>1, <2>2, <1>1 DEF Owned
<1>3. n \in Nat /\ DOMAIN q.poll = 1..n /\ m \in 1..n /\ q.poll[m].fd = d
      /\ lastfd = q.poll[n].fd /\ lastfd \in DOMAIN q.items /\ q.items[lastfd].index = n
  <2>1. q.poll \in Seq([fd : Descriptors, events : SUBSET Flags])
    BY <1>1 DEF SocketRecords
  <2>2. n \in Nat /\ DOMAIN q.poll = 1..n
    BY <2>1
  <2>3. m \in 1..n /\ q.poll[m].fd = d /\ n \in 1..n
    BY <2>2, <1>1, <1>2 DEF Dense
  <2>4. lastfd = q.poll[n].fd
    BY DEF Last
  <2> QED
    BY <2>2, <2>3, <2>4, <1>1 DEF Dense
<1>4. /\ poll \in Seq([fd : Descriptors, events : SUBSET Flags])
      /\ DOMAIN poll = 1..(n - 1)
      /\ \A i \in 1..(n - 1) : poll[i] = IF i = m THEN q.poll[n] ELSE q.poll[i]
  <2>1. q.poll \in Seq([fd : Descriptors, events : SUBSET Flags])
    BY <1>1 DEF SocketRecords
  <2> HIDE DEF m
  <2>2. m \in 1..Len(q.poll)
    BY <1>3
  <2>3. /\ poll \in Seq([fd : Descriptors, events : SUBSET Flags]) /\ Len(poll) = n - 1
        /\ \A i \in 1..(n - 1) : poll[i] = IF i = m THEN q.poll[n] ELSE q.poll[i]
    BY <2>1, <2>2, GapFacts
  <2> HIDE DEF poll
  <2> QED
    BY <2>3, LenProperties
<1>5. /\ DOMAIN items = DOMAIN q.items \ {d}
      /\ items \in [DOMAIN items -> [index : Nat, obj : Events]]
      /\ \A k \in DOMAIN items : items[k].obj = q.items[k].obj
                                 /\ items[k].index = IF k = lastfd THEN m ELSE q.items[k].index
  <2>1. q.items \in [DOMAIN q.items -> [index : Nat, obj : Events]]
    BY <1>1 DEF SocketRecords
  <2>2. m \in Nat
    BY <1>3
  <2> HIDE DEF m, lastfd, d
  <2>3. ASSUME NEW k \in DOMAIN q.items
        PROVE  LET moved == [q.items[k] EXCEPT !.index = m]
               IN  /\ moved \in [index : Nat, obj : Events]
                   /\ moved.obj = q.items[k].obj /\ moved.index = m
    BY <2>1, <2>2
  <2> QED
    BY <2>1, <2>3
<1>6. /\ list \in Seq(Events) /\ IsInjective(list) /\ Range(list) = Range(q.list) \ {e}
      /\ queue \in Seq(Events) /\ IsInjective(queue) /\ Range(queue) = Range(q.queue) \ {e}
  BY <1>1, WithoutFacts DEF SocketRecords, Linked
<1>7. /\ event \in [Events -> [fd : Descriptors \cup {Undefined}, scheduled : SUBSET Flags,
                               ready : SUBSET Flags, asof : BOOLEAN]]
      /\ \A f \in Events : /\ event[f].fd = q.event[f].fd /\ event[f].asof = q.event[f].asof
                           /\ event[f].scheduled = IF f = e THEN {} ELSE q.event[f].scheduled
  BY <1>1 DEF SocketRecords
<1>8. items \in UNION {[D -> [index : Nat, obj : Events]] : D \in SUBSET Descriptors}
  <2>1. DOMAIN q.items \subseteq Descriptors
    BY <1>1 DEF SocketRecords
  <2>2. DOMAIN items \in SUBSET Descriptors
    BY <2>1, <1>5
  <2> HIDE DEF items
  <2> QED
    BY <2>2, <1>5
<1> HIDE DEF poll, items, list, queue, event, m, n, lastfd
<1>9. /\ t.poll = poll /\ t.items = items /\ t.list = list /\ t.event = event
      /\ t.queue = queue /\ t.open = q.open
      /\ t \in SocketRecords
  BY <1>1, <1>4, <1>6, <1>7, <1>8 DEF SocketRecords
<1> HIDE DEF t
<1>10. Owned(t)
  BY <1>1, <1>7, <1>9 DEF Owned
<1>11. \A i, j \in 1..n : q.poll[i].fd = q.poll[j].fd => i = j
  BY <1>1, <1>3 DEF Dense
<1>12. ASSUME NEW k \in DOMAIN items
       PROVE  /\ items[k].index \in 1..(n - 1) /\ poll[items[k].index] = q.poll[q.items[k].index]
              /\ poll[items[k].index].fd = k
  <2>1. k \in DOMAIN q.items /\ k # d /\ q.items[k].index \in 1..n /\ q.poll[q.items[k].index].fd = k
    BY <1>1, <1>3, <1>5 DEF Dense
  <2>2. q.items[k].index # m
    BY <2>1, <1>3
  <2>3. CASE k = lastfd
    BY <2>1, <2>2, <2>3, <1>3, <1>4, <1>5
  <2>4. CASE k # lastfd
    <3>1. q.items[k].index # n
      BY <2>1, <2>4, <1>3
    <3> QED
      BY <2>1, <2>2, <2>4, <3>1, <1>3, <1>4, <1>5
  <2> QED
    BY <2>3, <2>4
<1>13. Dense(t)
  <2>1. ASSUME NEW i \in 1..(n - 1)
        PROVE  poll[i].fd \in DOMAIN items /\ items[poll[i].fd].index = i
    <3>1. CASE i = m
      <4>1. poll[i].fd = lastfd /\ lastfd # d
        BY <3>1, <2>1, <1>3, <1>4, <1>11
      <4> QED
        BY <4>1, <3>1, <1>3, <1>5
    <3>2. CASE i # m
      <4>1. poll[i] = q.poll[i] /\ i \in 1..n /\ i # n
        BY <3>2, <2>1, <1>3, <1>4
      <4>2. q.poll[i].fd # d /\ q.poll[i].fd # lastfd
        BY <4>1, <3>2, <1>3, <1>11
      <4>3. q.poll[i].fd \in DOMAIN q.items /\ q.items[q.poll[i].fd].index = i
        BY <4>1, <1>1, <1>3 DEF Dense
      <4> QED
        BY <4>1, <4>2, <4>3, <1>5
    <3> QED
      BY <3>1, <3>2
  <2> QED
    BY <2>1, <1>4, <1>9, <1>12 DEF Dense
<1>14. WatchesOwn(t)
  <2>1. ASSUME NEW k \in DOMAIN items
        PROVE  /\ event[items[k].obj].fd = k /\ event[items[k].obj].scheduled # {}
               /\ poll[items[k].index].events = event[items[k].obj].scheduled
    <3>1. k \in DOMAIN q.items /\ items[k].obj = q.items[k].obj /\ q.items[k].obj \in Events
      BY <1>1, <1>5 DEF SocketRecords
    <3>2. q.items[k].obj # e
      BY <3>1, <1>1, <1>5 DEF WatchesOwn
    <3> QED
      BY <3>1, <3>2, <1>1, <1>7, <1>12 DEF WatchesOwn
  <2>2. ASSUME NEW f \in Events, event[f].scheduled # {}
        PROVE  event[f].fd \in DOMAIN items
    <3>1. f # e /\ q.event[f].fd \in DOMAIN q.items
      BY <2>2, <1>1, <1>7 DEF WatchesOwn
    <3>2. q.event[f].fd # d
      BY <3>1, <2>2, <1>1, <1>7 DEF Owned
    <3> QED
      BY <3>1, <3>2, <1>5, <1>7
  <2> QED
    BY <2>1, <2>2, <1>9 DEF WatchesOwn
<1>15. Linked(t)
  BY <1>1, <1>6, <1>7, <1>9 DEF Linked
<1> QED
  BY <1>0, <1>9, <1>10, <1>13, <1>14, <1>15 DEF SocketsSafe

\* Schedule(): whatever it adds, changes or removes, the backend and the lists agree afterwards.
LEMMA ScheduleKeeps ==
    ASSUME NEW q, SocketsSafe(q), NEW e \in Events, NEW flags \in SUBSET Flags,
           q.event[e].fd # Undefined
    PROVE  LET t == ScheduleFlags(q, e, flags)
           IN  /\ SocketsSafe(t) /\ t.open = q.open
               /\ \A f \in Events : /\ t.event[f].fd = q.event[f].fd
                                    /\ t.event[f].asof = q.event[f].asof
                                    /\ f # e => t.event[f].scheduled = q.event[f].scheduled
               /\ flags = {} => t.event[e].scheduled = {}
<1> DEFINE new == IF flags = {} THEN {} ELSE flags \cup Implicit
           old == q.event[e].scheduled
           changed == IF old = {} THEN AddFD(q, e, new)
                      ELSE IF new = {} THEN RemoveFD(q, e)
                      ELSE PollModify(q, q.event[e].fd, new, e)
           set == [changed EXCEPT !.event[e].scheduled = new]
           t == ScheduleFlags(q, e, flags)
<1>1. q \in SocketRecords
  BY DEF SocketsSafe
<1>2. new \in SUBSET Flags /\ (new = {} <=> flags = {})
  BY DEF Implicit, Flags
<1>3. t = IF new = old THEN q ELSE set
  BY DEF ScheduleFlags
<1>4. CASE new = old
  BY <1>2, <1>3, <1>4
<1>5. CASE new # old
  <2>1. changed.event = q.event /\ changed.open = q.open
        /\ changed = [event |-> q.event, list |-> changed.list, queue |-> changed.queue,
                      poll |-> changed.poll, items |-> changed.items, open |-> q.open,
                      phase |-> q.phase, quit |-> q.quit]
    BY <1>1 DEF SocketRecords, AddFD, PollAdd, RemoveFD, PollRemove, PollModify
  <2>2. set.event = [q.event EXCEPT ![e].scheduled = new] /\ set.open = q.open
    BY <2>1
  <2>3. SocketsSafe(set)
    <3>1. CASE old = {}
      BY <3>1, <1>2, <1>5, AddKeeps
    <3>2. CASE old # {} /\ new = {}
      BY <3>2, RemoveKeeps
    <3>3. CASE old # {} /\ new # {}
      BY <3>3, <1>2, ModifyKeeps
    <3> QED
      BY <3>1, <3>2, <3>3
  <2>4. \A f \in Events : q.event[f] \in [fd : Descriptors \cup {Undefined},
                                          scheduled : SUBSET Flags, ready : SUBSET Flags, asof : BOOLEAN]
    BY <1>1 DEF SocketRecords
  <2>5. q.event \in [Events -> [fd : Descriptors \cup {Undefined}, scheduled : SUBSET Flags,
                                ready : SUBSET Flags, asof : BOOLEAN]]
    BY <1>1 DEF SocketRecords
  <2> HIDE DEF new, changed, t
  <2>6. \A f \in Events : /\ set.event[f].fd = q.event[f].fd /\ set.event[f].asof = q.event[f].asof
                          /\ set.event[f].scheduled = IF f = e THEN new ELSE q.event[f].scheduled
    BY <2>2, <2>5
  <2> HIDE DEF set
  <2> QED
    BY <2>2, <2>3, <2>6, <1>2, <1>3, <1>5 DEF t
<1> QED
  BY <1>4, <1>5

LEMMA ItemTypes ==
    ASSUME NEW q \in SocketRecords, NEW k \in DOMAIN q.items
    PROVE  q.items[k].obj \in Events /\ k \in Descriptors
<1>1. PICK D \in SUBSET Descriptors : q.items \in [D -> [index : Nat, obj : Events]]
  BY DEF SocketRecords
<1> QED
  BY <1>1

\* An event without a socket gets one, which nothing has been reported for.
LEMMA SocketGiven ==
    ASSUME DescriptorAssumption, NEW q, SocketsSafe(q), NEW e \in Events, NEW d \in Descriptors \ q.open,
           q.event[e].fd = Undefined
    PROVE  SocketsSafe([q EXCEPT !.event[e].fd = d, !.event[e].asof = FALSE, !.open = @ \cup {d}])
<1> DEFINE event == [q.event EXCEPT ![e] = [@ EXCEPT !.fd = d, !.asof = FALSE]]
           t == [q EXCEPT !.event = event, !.open = @ \cup {d}]
<1>0. [q EXCEPT !.event[e].fd = d, !.event[e].asof = FALSE, !.open = @ \cup {d}] = t
  BY DEF SocketsSafe, SocketRecords
<1>1. q \in SocketRecords /\ Owned(q) /\ Dense(q) /\ WatchesOwn(q) /\ Linked(q) /\ d # Undefined
  BY DEF SocketsSafe, DescriptorAssumption, Undefined
<1>2. /\ event \in [Events -> [fd : Descriptors \cup {Undefined}, scheduled : SUBSET Flags,
                               ready : SUBSET Flags, asof : BOOLEAN]]
      /\ \A f \in Events : /\ event[f].fd = IF f = e THEN d ELSE q.event[f].fd
                           /\ f # e => event[f].asof = q.event[f].asof
                           /\ event[f].scheduled = q.event[f].scheduled
  <2> DEFINE R == [fd : Descriptors \cup {Undefined}, scheduled : SUBSET Flags,
                   ready : SUBSET Flags, asof : BOOLEAN]
             x == [q.event[e] EXCEPT !.fd = d, !.asof = FALSE]
  <2>1. q.event \in [Events -> R]
    BY <1>1 DEF SocketRecords
  <2>2. x \in R /\ x.fd = d /\ x.scheduled = q.event[e].scheduled
    BY <2>1
  <2>3. event = [q.event EXCEPT ![e] = x]
    OBVIOUS
  <2> HIDE DEF x, R, event
  <2>4. event \in [Events -> R] /\ \A f \in Events : event[f] = IF f = e THEN x ELSE q.event[f]
    BY <2>1, <2>2, <2>3
  <2> QED
    BY <2>2, <2>4 DEF R
<1> HIDE DEF event
<1>3. /\ t.event = event /\ t.open = q.open \cup {d} /\ t.list = q.list /\ t.queue = q.queue
      /\ t.poll = q.poll /\ t.items = q.items /\ t \in SocketRecords
  BY <1>1, <1>2 DEF SocketRecords
<1> HIDE DEF t
<1>4. q.event[e].scheduled = {} /\ e \notin Range(q.queue)
  BY <1>1 DEF Owned, Linked
<1>5. Owned(t)
  <2>0. Undefined \notin Descriptors
    BY DEF DescriptorAssumption, Undefined
  <2>1. \A f \in Events : q.event[f].fd # d
    BY <1>1 DEF Owned
  <2>2. \A f, g \in Events : event[f].fd = event[g].fd => f = g \/ event[f].fd = Undefined
    BY <2>1, <1>1, <1>2 DEF Owned
  <2>3. ASSUME NEW x \in Descriptors
        PROVE  x \in q.open \cup {d} <=> \E f \in Events : event[f].fd = x
    <3>1. x \in q.open <=> \E f \in Events : q.event[f].fd = x
      BY <1>1 DEF Owned
    <3>2. CASE x = d
      BY <3>2, <1>2
    <3>3. CASE x # d
      <4>1. \A f \in Events : event[f].fd = x <=> q.event[f].fd = x
        BY <3>3, <2>1, <1>1, <1>2, <2>0
      <4> QED
        BY <3>1, <3>3, <4>1
    <3> QED
      BY <3>2, <3>3
  <2>4. \A f \in Events : event[f].scheduled # {} => event[f].fd # Undefined
    BY <1>1, <1>2 DEF Owned
  <2> QED
    BY <2>2, <2>3, <2>4, <1>3 DEF Owned
<1>6. Dense(t)
  BY <1>1, <1>3 DEF Dense
<1>7. WatchesOwn(t)
  <2>1. ASSUME NEW k \in DOMAIN q.items
        PROVE  /\ event[q.items[k].obj].fd = k /\ event[q.items[k].obj].scheduled # {}
               /\ q.poll[q.items[k].index].events = event[q.items[k].obj].scheduled
    <3>0. q.items[k].obj \in Events
      BY <1>1, ItemTypes
    <3>1. q.items[k].obj \in Events /\ q.items[k].obj # e
      BY <3>0, <1>1, <1>4 DEF WatchesOwn
    <3> QED
      BY <3>1, <1>1, <1>2 DEF WatchesOwn
  <2>2. \A f \in Events : event[f].scheduled # {} => event[f].fd \in DOMAIN q.items
    BY <1>1, <1>2, <1>4 DEF WatchesOwn
  <2> QED
    BY <2>1, <2>2, <1>3 DEF WatchesOwn
<1>8. Linked(t)
  BY <1>1, <1>2, <1>3, <1>4 DEF Linked
<1> QED
  BY <1>0, <1>3, <1>5, <1>6, <1>7, <1>8 DEF SocketsSafe

\* An event that is not scheduled loses its socket.
LEMMA SocketTaken ==
    ASSUME DescriptorAssumption, NEW q, SocketsSafe(q), NEW e \in Events, q.event[e].fd # Undefined,
           q.event[e].scheduled = {}
    PROVE  SocketsSafe([q EXCEPT !.event[e].fd = Undefined, !.open = @ \ {q.event[e].fd}])
<1> DEFINE event == [q.event EXCEPT ![e].fd = Undefined]
           d == q.event[e].fd
           t == [q EXCEPT !.event = event, !.open = @ \ {d}]
<1>0. [q EXCEPT !.event[e].fd = Undefined, !.open = @ \ {d}] = t
  BY DEF SocketsSafe, SocketRecords
<1>1. q \in SocketRecords /\ Owned(q) /\ Dense(q) /\ WatchesOwn(q) /\ Linked(q)
  BY DEF SocketsSafe
<1>2. /\ event \in [Events -> [fd : Descriptors \cup {Undefined}, scheduled : SUBSET Flags,
                               ready : SUBSET Flags, asof : BOOLEAN]]
      /\ \A f \in Events : /\ event[f].fd = IF f = e THEN Undefined ELSE q.event[f].fd
                           /\ event[f].asof = q.event[f].asof
                           /\ event[f].scheduled = q.event[f].scheduled
  BY <1>1 DEF SocketRecords
<1> HIDE DEF event
<1>3. /\ t.event = event /\ t.open = q.open \ {d} /\ t.list = q.list /\ t.queue = q.queue
      /\ t.poll = q.poll /\ t.items = q.items /\ t \in SocketRecords
  BY <1>1, <1>2 DEF SocketRecords
<1> HIDE DEF t
<1>4. Owned(t)
  <2>0. Undefined \notin Descriptors
    BY DEF DescriptorAssumption, Undefined
  <2>1. \A f, g \in Events : event[f].fd = event[g].fd => f = g \/ event[f].fd = Undefined
    BY <1>1, <1>2 DEF Owned
  <2>2. ASSUME NEW x \in Descriptors
        PROVE  x \in q.open \ {d} <=> \E f \in Events : event[f].fd = x
    <3>1. x \in q.open <=> \E f \in Events : q.event[f].fd = x
      BY <1>1 DEF Owned
    <3>2. CASE x = d
      <4>1. \A f \in Events : event[f].fd # d
        BY <1>1, <1>2 DEF Owned
      <4> QED
        BY <3>2, <4>1
    <3>3. CASE x # d
      <4>1. \A f \in Events : event[f].fd = x <=> q.event[f].fd = x
        BY <3>3, <2>0, <1>2
      <4> QED
        BY <3>1, <3>3, <4>1
    <3> QED
      BY <3>2, <3>3
  <2>3. \A f \in Events : event[f].scheduled # {} => event[f].fd # Undefined
    BY <1>1, <1>2 DEF Owned
  <2> QED
    BY <2>1, <2>2, <2>3, <1>3 DEF Owned
<1>5. Dense(t)
  BY <1>1, <1>3 DEF Dense
<1>6. WatchesOwn(t)
  <2>1. ASSUME NEW k \in DOMAIN q.items
        PROVE  /\ event[q.items[k].obj].fd = k /\ event[q.items[k].obj].scheduled # {}
               /\ q.poll[q.items[k].index].events = event[q.items[k].obj].scheduled
    <3>1. q.items[k].obj \in Events /\ q.items[k].obj # e
      BY <1>1, ItemTypes DEF WatchesOwn
    <3> QED
      BY <3>1, <1>1, <1>2 DEF WatchesOwn
  <2>2. \A f \in Events : event[f].scheduled # {} => event[f].fd \in DOMAIN q.items
    BY <1>1, <1>2 DEF WatchesOwn
  <2> QED
    BY <2>1, <2>2, <1>3 DEF WatchesOwn
<1>7. Linked(t)
  BY <1>1, <1>2, <1>3 DEF Linked
<1> QED
  BY <1>0, <1>3, <1>4, <1>5, <1>6, <1>7 DEF SocketsSafe

LEMMA CancelKeeps ==
    ASSUME NEW q, SocketsSafe(q), NEW e \in Events, q.event[e].fd # Undefined
    PROVE  LET t == CancelEvent(q, e)
           IN  /\ SocketsSafe(t) /\ t.open = q.open
               /\ \A f \in Events : t.event[f].fd = q.event[f].fd
               /\ t.event[e].scheduled = {}
<1>1. {} \in SUBSET Flags
  OBVIOUS
<1>2. CancelEvent(q, e) = ScheduleFlags(q, e, {})
  BY DEF CancelEvent
<1> QED
  BY <1>1, <1>2, ScheduleKeeps

LEMMA OpenStep ==
    ASSUME DescriptorAssumption, SocketsSafe(sockets), OpenSocket
    PROVE  SocketsSafe(sockets')
<1>1. PICK e \in Events, d \in Descriptors \ sockets.open :
        /\ sockets.event[e].fd = Undefined
        /\ sockets' = [sockets EXCEPT !.event[e].fd = d, !.event[e].asof = FALSE, !.open = @ \cup {d}]
  BY DEF OpenSocket
<1> QED
  BY <1>1, SocketGiven

LEMMA CloseStep ==
    ASSUME DescriptorAssumption, SocketsSafe(sockets), CloseSocket
    PROVE  SocketsSafe(sockets')
<1>1. PICK e \in Events :
        /\ sockets.event[e].fd # Undefined
        /\ sockets' = [CancelEvent(sockets, e) EXCEPT !.event[e].fd = Undefined,
                                                      !.open = @ \ {sockets.event[e].fd}]
  BY DEF CloseSocket
<1>2. /\ SocketsSafe(CancelEvent(sockets, e))
      /\ CancelEvent(sockets, e).event[e].fd = sockets.event[e].fd
      /\ CancelEvent(sockets, e).event[e].scheduled = {}
  BY <1>1, CancelKeeps
<1> QED
  BY <1>1, <1>2, SocketTaken

\* ReleaseSocket(): as if the socket were closed, and opened by the other event.
LEMMA HandOverStep ==
    ASSUME DescriptorAssumption, SocketsSafe(sockets), HandOver
    PROVE  SocketsSafe(sockets')
<1>1. PICK e \in Events, f \in Events :
        /\ sockets.event[e].fd # Undefined /\ sockets.event[f].fd = Undefined
        /\ sockets' = [CancelEvent(sockets, e) EXCEPT !.event[e].fd = Undefined,
                          !.event[f].fd = sockets.event[e].fd, !.event[f].asof = FALSE]
  BY DEF HandOver
<1> DEFINE d == sockets.event[e].fd
           c == CancelEvent(sockets, e)
           t == [c EXCEPT !.event[e].fd = Undefined, !.open = @ \ {d}]
           u == [t EXCEPT !.event[f].fd = d, !.event[f].asof = FALSE, !.open = @ \cup {d}]
<1>2. /\ SocketsSafe(c) /\ c.event[e].fd = d /\ c.event[f].fd = Undefined
      /\ c.event[e].scheduled = {}
  BY <1>1, CancelKeeps
<1>3. SocketsSafe(t)
  BY <1>1, <1>2, SocketTaken
<1> HIDE DEF c
<1>4. /\ c \in SocketRecords /\ d \in Descriptors /\ d \in c.open /\ e # f
      /\ sockets' = [c EXCEPT !.event[e].fd = Undefined, !.event[f].fd = d, !.event[f].asof = FALSE]
  <2>1. c \in SocketRecords /\ Owned(c)
    BY <1>2 DEF SocketsSafe
  <2>2. c.event[e].fd \in Descriptors \cup {Undefined}
    BY <2>1 DEF SocketRecords
  <2> QED
    BY <2>1, <2>2, <1>1, <1>2 DEF Owned, c
<1>5. t.event[f].fd = Undefined /\ d \notin t.open /\ t.open = c.open \ {d}
  BY <1>2, <1>4 DEF SocketRecords
<1>6. SocketsSafe(u)
  <2> HIDE DEF t
  <2> QED
    BY <1>3, <1>4, <1>5, SocketGiven
<1>7. u = sockets'
  <2>1. t.open \cup {d} = c.open
    BY <1>4, <1>5
  <2> QED
    BY <2>1, <1>4 DEF SocketRecords
<1> QED
  BY <1>6, <1>7

LEMMA ScheduleStep ==
    ASSUME SocketsSafe(sockets), ScheduleMore \/ ScheduleImplicit \/ CancelSome \/ CancelOnly
    PROVE  SocketsSafe(sockets')
<1>1. sockets \in SocketRecords
  BY DEF SocketsSafe
<1>2. \A e \in Events : sockets.event[e].scheduled \in SUBSET Flags
  BY <1>1 DEF SocketRecords
<1>3. PICK e \in Events, flags \in SUBSET Flags :
        sockets.event[e].fd # Undefined /\ sockets' = ScheduleFlags(sockets, e, flags)
  <2>1. CASE ScheduleMore
    <3>1. PICK e \in Events, flag \in {"read", "write"} :
            /\ sockets.event[e].fd # Undefined
            /\ sockets' = ScheduleFlags(sockets, e, sockets.event[e].scheduled \cup {flag})
      BY <2>1 DEF ScheduleMore
    <3>2. sockets.event[e].scheduled \cup {flag} \in SUBSET Flags
      BY <1>2 DEF Flags
    <3> QED
      BY <3>1, <3>2
  <2>2. CASE ScheduleImplicit
    <3>1. Implicit \in SUBSET Flags
      BY DEF Implicit, Flags
    <3> QED
      BY <2>2, <3>1 DEF ScheduleImplicit
  <2>3. CASE CancelSome
    <3>1. PICK e \in Events, flag \in {"read", "write"} :
            /\ sockets.event[e].fd # Undefined
            /\ sockets' = ScheduleFlags(sockets, e, sockets.event[e].scheduled \ ({flag} \cup Implicit))
      BY <2>3 DEF CancelSome
    <3>2. sockets.event[e].scheduled \ ({flag} \cup Implicit) \in SUBSET Flags
      BY <1>2
    <3> QED
      BY <3>1, <3>2
  <2>4. CASE CancelOnly
    <3>1. PICK e \in Events, flag \in {"read", "write"} :
            /\ sockets.event[e].fd # Undefined
            /\ sockets' = ScheduleFlags(sockets, e, sockets.event[e].scheduled \ {flag})
      BY <2>4 DEF CancelOnly
    <3>2. sockets.event[e].scheduled \ {flag} \in SUBSET Flags
      BY <1>2
    <3> QED
      BY <3>1, <3>2
  <2> QED
    BY <2>1, <2>2, <2>3, <2>4
<1> QED
  BY <1>3, ScheduleKeeps

\* A record that differs in nothing but the phase and the end of the loop
LEMMA PhaseKeeps ==
    ASSUME NEW q, SocketsSafe(q), NEW p \in {"callbacks", "poll", "dispatch"}, NEW b \in BOOLEAN,
           NEW t, t = [q EXCEPT !.phase = p, !.quit = b]
    PROVE  SocketsSafe(t)
<1>1. q \in SocketRecords
  BY DEF SocketsSafe
<1>2. /\ t.poll = q.poll /\ t.items = q.items /\ t.list = q.list /\ t.event = q.event
      /\ t.queue = q.queue /\ t.open = q.open /\ t \in SocketRecords
  BY <1>1 DEF SocketRecords
<1> QED
  BY <1>2 DEF SocketsSafe, Owned, Dense, WatchesOwn, Linked

LEMMA RestStep ==
    ASSUME SocketsSafe(sockets), Break \/ Sleep \/ DispatchNone
    PROVE  SocketsSafe(sockets')
<1>1. sockets \in SocketRecords
  BY DEF SocketsSafe
<1>2. CASE Break
  <2>1. sockets' = [sockets EXCEPT !.phase = sockets.phase, !.quit = TRUE]
        /\ sockets.phase \in {"callbacks", "poll", "dispatch"}
    BY <1>1, <1>2 DEF Break, SocketRecords
  <2> QED
    BY <2>1, PhaseKeeps
<1>3. CASE Sleep
  <2>1. sockets' = [sockets EXCEPT !.phase = "poll", !.quit = sockets.quit] /\ sockets.quit \in BOOLEAN
    BY <1>1, <1>3 DEF Sleep, SocketRecords
  <2> QED
    BY <2>1, PhaseKeeps
<1>4. CASE DispatchNone
  <2>1. sockets' = [sockets EXCEPT !.phase = "callbacks", !.quit = sockets.quit] /\ sockets.quit \in BOOLEAN
    BY <1>1, <1>4 DEF DispatchNone, SocketRecords
  <2> QED
    BY <2>1, PhaseKeeps
<1> QED
  BY <1>2, <1>3, <1>4

\* Dispatch(): the event goes back to the other list, whatever is wanted of it.
LEMMA DispatchStep ==
    ASSUME SocketsSafe(sockets), DispatchSocket
    PROVE  SocketsSafe(sockets')
<1> DEFINE e == Head(sockets.queue)
           list == Append(sockets.list, e)
           queue == Tail(sockets.queue)
           event == [sockets.event EXCEPT ![e].ready = {}]
           phase == IF Wanted(sockets, e) = {} THEN "dispatch" ELSE "callbacks"
           t == [sockets EXCEPT !.queue = queue, !.list = list, !.event = event, !.phase = phase]
<1>1. sockets \in SocketRecords /\ Owned(sockets) /\ Dense(sockets) /\ WatchesOwn(sockets)
      /\ Linked(sockets) /\ sockets.queue # <<>>
  BY DEF SocketsSafe, DispatchSocket
<1>2. sockets' = t
  BY <1>1 DEF DispatchSocket, SocketRecords
<1>3. /\ queue \in Seq(Events) /\ IsInjective(queue) /\ Range(queue) = Range(sockets.queue) \ {e}
      /\ e \in Range(sockets.queue) /\ e \in Events
  BY <1>1, TailFacts, HeadTailProperties DEF SocketRecords, Linked
<1>4. /\ list \in Seq(Events) /\ IsInjective(list) /\ Range(list) = Range(sockets.list) \cup {e}
  BY <1>1, <1>3, AppendFacts DEF SocketRecords, Linked
<1>5. /\ event \in [Events -> [fd : Descriptors \cup {Undefined}, scheduled : SUBSET Flags,
                               ready : SUBSET Flags, asof : BOOLEAN]]
      /\ \A f \in Events : /\ event[f].fd = sockets.event[f].fd /\ event[f].asof = sockets.event[f].asof
                           /\ event[f].scheduled = sockets.event[f].scheduled
  <2> DEFINE R == [fd : Descriptors \cup {Undefined}, scheduled : SUBSET Flags, ready : SUBSET Flags,
                   asof : BOOLEAN]
             old == sockets.event
  <2>1. old \in [Events -> R]
    BY <1>1 DEF SocketRecords
  <2>2. event = [old EXCEPT ![e] = [old[e] EXCEPT !.ready = {}]]
    OBVIOUS
  <2> HIDE DEF e, old
  <2>3. old[e] \in R
    BY <1>3, <2>1
  <2>4. /\ [old[e] EXCEPT !.ready = {}] \in R
        /\ [old[e] EXCEPT !.ready = {}].fd = old[e].fd
        /\ [old[e] EXCEPT !.ready = {}].asof = old[e].asof
        /\ [old[e] EXCEPT !.ready = {}].scheduled = old[e].scheduled
    BY <2>3
  <2> HIDE DEF event, R
  <2>5. event \in [Events -> R]
    BY <1>3, <2>1, <2>2, <2>4
  <2>6. \A f \in Events : /\ event[f].fd = old[f].fd /\ event[f].asof = old[f].asof
                           /\ event[f].scheduled = old[f].scheduled
    BY <1>3, <2>1, <2>2, <2>4
  <2> QED
    BY <2>5, <2>6 DEF old, R
<1> HIDE DEF list, queue, event
<1>6. /\ t.event = event /\ t.open = sockets.open /\ t.list = list /\ t.queue = queue
      /\ t.poll = sockets.poll /\ t.items = sockets.items /\ t \in SocketRecords
  BY <1>1, <1>3, <1>4, <1>5 DEF SocketRecords
<1> HIDE DEF t
<1>7. Owned(t)
  BY <1>1, <1>5, <1>6 DEF Owned
<1>8. Dense(t)
  BY <1>1, <1>6 DEF Dense
<1>9. \A k \in DOMAIN sockets.items : sockets.items[k].obj \in Events
  BY <1>1, ItemTypes
<1>10. WatchesOwn(t)
  BY <1>1, <1>5, <1>6, <1>9 DEF WatchesOwn
<1>11. Linked(t)
  BY <1>1, <1>3, <1>4, <1>5, <1>6 DEF Linked
<1> QED
  BY <1>2, <1>6, <1>7, <1>8, <1>10, <1>11 DEF SocketsSafe

LEMMA ConcatFacts ==
    ASSUME NEW S, NEW p \in Seq(S), NEW q \in Seq(S)
    PROVE  /\ p \o q \in Seq(S)
           /\ Range(p \o q) = Range(p) \cup Range(q)
           /\ IsInjective(p) /\ IsInjective(q) /\ Range(p) \cap Range(q) = {} => IsInjective(p \o q)
<1> DEFINE m == Len(p)
           n == Len(q)
           c == p \o q
<1>1. /\ c \in Seq(S) /\ Len(c) = m + n /\ m \in Nat /\ n \in Nat
      /\ \A i \in 1..(m + n) : c[i] = IF i <= m THEN p[i] ELSE q[i - m]
  BY ConcatProperties, LenProperties
<1>2. DOMAIN p = 1..m /\ DOMAIN q = 1..n /\ DOMAIN c = 1..(m + n)
  BY <1>1
<1> HIDE DEF m, n, c
<1>3. ASSUME NEW x \in Range(c)
      PROVE  x \in Range(p) \cup Range(q)
  <2>1. PICK i \in 1..(m + n) : x = c[i]
    BY <1>2 DEF Range
  <2>2. CASE i <= m
    BY <2>1, <2>2, <1>1, <1>2 DEF Range
  <2>3. CASE ~(i <= m)
    <3>1. i - m \in 1..n /\ x = q[i - m]
      BY <2>1, <2>3, <1>1
    <3> QED
      BY <3>1, <1>2 DEF Range
  <2> QED
    BY <2>2, <2>3
<1>4. ASSUME NEW x \in Range(p)
      PROVE  x \in Range(c)
  <2>1. PICK i \in 1..m : x = p[i]
    BY <1>2 DEF Range
  <2>2. i \in 1..(m + n) /\ x = c[i]
    BY <2>1, <1>1
  <2> QED
    BY <2>2, <1>2 DEF Range
<1>5. ASSUME NEW x \in Range(q)
      PROVE  x \in Range(c)
  <2>1. PICK i \in 1..n : x = q[i]
    BY <1>2 DEF Range
  <2>2. i + m \in 1..(m + n) /\ ~(i + m <= m) /\ i + m - m = i
    BY <2>1, <1>1
  <2>3. x = c[i + m]
    BY <2>1, <2>2, <1>1
  <2> QED
    BY <2>2, <2>3, <1>2 DEF Range
<1>6. ASSUME IsInjective(p), IsInjective(q), Range(p) \cap Range(q) = {},
             NEW i \in 1..(m + n), NEW j \in 1..(m + n), c[i] = c[j]
      PROVE  i = j
  <2>1. CASE i <= m /\ j <= m
    <3>1. i \in 1..m /\ j \in 1..m /\ p[i] = p[j]
      BY <1>1, <1>6, <2>1
    <3> QED
      BY <3>1, <1>2, <1>6 DEF IsInjective
  <2>2. CASE ~(i <= m) /\ ~(j <= m)
    <3>1. i - m \in 1..n /\ j - m \in 1..n /\ q[i - m] = q[j - m]
      BY <1>1, <1>6, <2>2
    <3>2. i - m = j - m
      BY <3>1, <1>2, <1>6 DEF IsInjective
    <3> QED
      BY <3>2, <1>1
  <2>3. CASE i <= m /\ ~(j <= m)
    <3>1. i \in 1..m /\ j - m \in 1..n /\ p[i] = q[j - m]
      BY <1>1, <1>6, <2>3
    <3> QED
      BY <3>1, <1>2, <1>6 DEF Range
  <2>4. CASE ~(i <= m) /\ j <= m
    <3>1. j \in 1..m /\ i - m \in 1..n /\ p[j] = q[i - m]
      BY <1>1, <1>6, <2>4
    <3> QED
      BY <3>1, <1>2, <1>6 DEF Range
  <2> QED
    BY <2>1, <2>2, <2>3, <2>4
<1>7. IsInjective(p) /\ IsInjective(q) /\ Range(p) \cap Range(q) = {} => IsInjective(c)
  BY <1>6, <1>2 DEF IsInjective
<1> QED
  BY <1>1, <1>3, <1>4, <1>5, <1>7 DEF c

\* Poll(): those found ready move from one list to the other, each once, and what was found is
\* for the socket that its event has.
LEMMA PollStep ==
    ASSUME SocketsSafe(sockets), PollSockets
    PROVE  SocketsSafe(sockets')
<1> DEFINE n == Len(sockets.poll)
           obj == [i \in DOMAIN sockets.poll |-> sockets.items[sockets.poll[i].fd].obj]
           Rec == [fd : Descriptors \cup {Undefined}, scheduled : SUBSET Flags,
                   ready : SUBSET Flags, asof : BOOLEAN]
<1>1. sockets \in SocketRecords /\ Owned(sockets) /\ Dense(sockets) /\ WatchesOwn(sockets)
      /\ Linked(sockets)
  BY DEF SocketsSafe
<1>2. PICK report \in Reports(sockets) :
        LET queue == Picked(obj, DOMAIN report)
            revents(e) == report[CHOOSE i \in DOMAIN report : sockets.items[sockets.poll[i].fd].obj = e]
        IN  sockets' = [sockets EXCEPT
                  !.event = [e \in Events |->
                                IF e \in Range(queue)
                                THEN [sockets.event[e] EXCEPT !.ready = revents(e), !.asof = TRUE]
                                ELSE sockets.event[e]],
                  !.list = Without(@, Range(queue)),
                  !.queue = Without(@, Range(queue)) \o queue,
                  !.phase = "dispatch"]
  BY DEF PollSockets
<1>3. DOMAIN report \in SUBSET (DOMAIN sockets.poll) /\ \A i \in DOMAIN report : report[i] \in SUBSET Flags
  <2>1. PICK found \in SUBSET (DOMAIN sockets.poll) : report \in [found -> SUBSET Flags \ {{}}]
    BY DEF Reports
  <2> QED
    BY <2>1
<1> DEFINE found == DOMAIN report
           new == Picked(obj, found)
           revents(e) == report[CHOOSE i \in found : sockets.items[sockets.poll[i].fd].obj = e]
           event == [e \in Events |-> IF e \in Range(new)
                                      THEN [sockets.event[e] EXCEPT !.ready = revents(e), !.asof = TRUE]
                                      ELSE sockets.event[e]]
           list == Without(sockets.list, Range(new))
           left == Without(sockets.queue, Range(new))
           t == [sockets EXCEPT !.event = event, !.list = list, !.queue = left \o new, !.phase = "dispatch"]
<1>4. sockets' = t
  BY <1>2
<1>5. /\ n \in Nat /\ DOMAIN sockets.poll = 1..n /\ obj \in [1..n -> Events]
      /\ \A i \in 1..n : obj[i] = sockets.items[sockets.poll[i].fd].obj
      /\ \A i, j \in 1..n : obj[i] = obj[j] => i = j
      /\ \A i \in 1..n : sockets.event[obj[i]].scheduled # {}
  <2>1. sockets.poll \in Seq([fd : Descriptors, events : SUBSET Flags])
    BY <1>1 DEF SocketRecords
  <2>2. n \in Nat /\ DOMAIN sockets.poll = 1..n
    BY <2>1
  <2>3. ASSUME NEW i \in 1..n
        PROVE  /\ obj[i] = sockets.items[sockets.poll[i].fd].obj /\ obj[i] \in Events
               /\ sockets.event[obj[i]].fd = sockets.poll[i].fd /\ sockets.event[obj[i]].scheduled # {}
    <3>1. sockets.poll[i].fd \in DOMAIN sockets.items
      BY <2>2, <1>1 DEF Dense
    <3> QED
      BY <3>1, <2>2, <1>1, ItemTypes DEF WatchesOwn
  <2>4. \A i, j \in 1..n : sockets.poll[i].fd = sockets.poll[j].fd => i = j
    BY <2>2, <1>1 DEF Dense
  <2>5. obj \in [1..n -> Events]
    BY <2>2, <2>3
  <2> HIDE DEF obj, n
  <2> QED
    BY <2>2, <2>3, <2>4, <2>5
<1>6. /\ new \in Seq(Events) /\ Range(new) = {obj[i] : i \in found} /\ IsInjective(new)
  <2>1. found \in SUBSET (1..n)
    BY <1>3, <1>5
  <2> HIDE DEF obj, n, found
  <2>2. \A p, r \in found : obj[p] = obj[r] => p = r
    BY <2>1, <1>5
  <2>3. n \in Nat /\ obj \in [1..n -> Events]
    BY <1>5
  <2>4. /\ Picked(obj, found) \in Seq(Events) /\ Range(Picked(obj, found)) = {obj[p] : p \in found}
        /\ (\A p, r \in found : obj[p] = obj[r] => p = r) => IsInjective(Picked(obj, found))
    BY <2>1, <2>3, PickedFacts, SMTT(60)
  <2> QED
    BY <2>2, <2>4
<1>7. /\ list \in Seq(Events) /\ IsInjective(list) /\ Range(list) = Range(sockets.list) \ Range(new)
      /\ left \in Seq(Events) /\ IsInjective(left) /\ Range(left) = Range(sockets.queue) \ Range(new)
  BY <1>1, WithoutFacts DEF SocketRecords, Linked
<1>8. /\ event \in [Events -> Rec]
      /\ \A e \in Events : /\ event[e].fd = sockets.event[e].fd
                           /\ event[e].asof = (e \in Range(new) \/ sockets.event[e].asof)
                           /\ event[e].scheduled = sockets.event[e].scheduled
  <2>1. sockets.event \in [Events -> Rec]
    BY <1>1 DEF SocketRecords
  <2>2. ASSUME NEW e \in Events, e \in Range(new)
        PROVE  revents(e) \in SUBSET Flags
    <3>1. \E i \in found : sockets.items[sockets.poll[i].fd].obj = e
      BY <2>2, <1>3, <1>5, <1>6
    <3> QED
      BY <3>1, <1>3
  <2> HIDE DEF new, revents
  <2>3. ASSUME NEW e \in Events
        PROVE  /\ event[e] \in Rec
               /\ event[e].fd = sockets.event[e].fd
               /\ event[e].asof = (e \in Range(new) \/ sockets.event[e].asof)
               /\ event[e].scheduled = sockets.event[e].scheduled
    <3>1. CASE e \in Range(new)
      <4>1. event[e] = [sockets.event[e] EXCEPT !.ready = revents(e), !.asof = TRUE]
        BY <3>1
      <4> HIDE DEF event
      <4> QED
        BY <4>1, <3>1, <2>1, <2>2
    <3>2. CASE e \notin Range(new)
      BY <3>2, <2>1
    <3> QED
      BY <3>1, <3>2
  <2>4. event \in [Events -> Rec]
    <3>1. DOMAIN event = Events /\ event = [e \in Events |-> event[e]]
      OBVIOUS
    <3> HIDE DEF event, Rec
    <3> QED
      BY <3>1, <2>3
  <2> QED
    BY <2>3, <2>4
<1> HIDE DEF new, list, left, event
<1>9. /\ left \o new \in Seq(Events) /\ IsInjective(left \o new)
      /\ Range(left \o new) = Range(sockets.queue) \cup Range(new)
  <2>1. Range(left) \cap Range(new) = {}
    BY <1>7
  <2> QED
    BY <2>1, <1>6, <1>7, ConcatFacts
<1>10. /\ t.event = event /\ t.open = sockets.open /\ t.list = list /\ t.queue = left \o new
       /\ t.poll = sockets.poll /\ t.items = sockets.items /\ t \in SocketRecords
  BY <1>1, <1>7, <1>8, <1>9 DEF SocketRecords
<1> HIDE DEF t
<1>11. Owned(t)
  BY <1>1, <1>8, <1>10 DEF Owned
<1>12. Dense(t)
  BY <1>1, <1>10 DEF Dense
<1>13. WatchesOwn(t)
  <2>1. \A k \in DOMAIN sockets.items : sockets.items[k].obj \in Events
    BY <1>1, ItemTypes
  <2> QED
    BY <2>1, <1>1, <1>8, <1>10 DEF WatchesOwn
<1>14. \A e \in Range(new) : sockets.event[e].scheduled # {}
  <2>1. found \subseteq 1..n
    BY <1>3, <1>5
  <2> HIDE DEF obj, n, found
  <2> QED
    BY <2>1, <1>5, <1>6
<1>15. Linked(t)
  <2>1. ASSUME NEW e \in Events
        PROVE  /\ ~(e \in Range(list) /\ e \in Range(left \o new))
               /\ e \in Range(list) \/ e \in Range(left \o new) <=> event[e].scheduled # {}
               /\ e \in Range(left \o new) => event[e].asof
    BY <1>1, <1>7, <1>8, <1>9, <1>14 DEF Linked
  <2> QED
    BY <2>1, <1>7, <1>9, <1>10 DEF Linked
<1> QED
  BY <1>4, <1>10, <1>11, <1>12, <1>13, <1>15 DEF SocketsSafe

LEMMA SocketsInitSafe ==
    ASSUME DescriptorAssumption, SocketsInit
    PROVE  SocketsSafe(sockets)
<1>1. /\ sockets.event = [e \in Events |-> NoEvent] /\ sockets.list = <<>> /\ sockets.queue = <<>>
      /\ sockets.poll = <<>> /\ sockets.items = <<>> /\ sockets.open = {}
  BY DEF SocketsInit
<1>2. sockets \in SocketRecords
  <2>1. <<>> \in UNION {[D -> [index : Nat, obj : Events]] : D \in SUBSET Descriptors}
    <3>1. <<>> \in [{} -> [index : Nat, obj : Events]] /\ {} \in SUBSET Descriptors
      OBVIOUS
    <3> QED
      BY <3>1
  <2>2. NoEvent \in [fd : Descriptors \cup {Undefined}, scheduled : SUBSET Flags,
                     ready : SUBSET Flags, asof : BOOLEAN]
    BY DEF NoEvent
  <2>3. <<>> \in Seq(Events) /\ <<>> \in Seq([fd : Descriptors, events : SUBSET Flags])
    OBVIOUS
  <2> QED
    BY <2>1, <2>2, <2>3 DEF SocketsInit, SocketRecords
<1>3. \A e \in Events : sockets.event[e].fd = Undefined /\ sockets.event[e].scheduled = {}
  BY <1>1 DEF NoEvent
<1>4. Range(<<>>) = {} /\ IsInjective(<<>>) /\ DOMAIN <<>> = {}
  BY DEF Range, IsInjective
<1>5. Owned(sockets)
  <2>1. Undefined \notin Descriptors
    BY DEF DescriptorAssumption, Undefined
  <2> QED
    BY <2>1, <1>1, <1>3 DEF Owned
<1>6. Dense(sockets) /\ WatchesOwn(sockets)
  BY <1>1, <1>3, <1>4 DEF Dense, WatchesOwn
<1>7. Linked(sockets)
  BY <1>1, <1>3, <1>4 DEF Linked
<1> QED
  BY <1>2, <1>5, <1>6, <1>7 DEF SocketsSafe

\* The set of what the backend watches and the lists, put as the property does
LEMMA SafeIsSound ==
    ASSUME DescriptorAssumption, SocketsSafe(sockets)
    PROVE  SocketsSound
<1>1. sockets \in SocketRecords /\ Owned(sockets) /\ Dense(sockets) /\ WatchesOwn(sockets)
      /\ Linked(sockets)
  BY DEF SocketsSafe
<1>2. Undefined \notin Descriptors
  BY DEF DescriptorAssumption, Undefined
<1>3. \A k \in DOMAIN sockets.items : sockets.items[k].obj \in Events /\ k \in Descriptors
  BY <1>1, ItemTypes
<1>4. \A e \in Events : sockets.event[e] \in [fd : Descriptors \cup {Undefined}, scheduled : SUBSET Flags,
                                              ready : SUBSET Flags, asof : BOOLEAN]
  BY <1>1 DEF SocketRecords
<1>5. /\ sockets.list \in Seq(Events) /\ sockets.queue \in Seq(Events)
      /\ sockets.poll \in Seq([fd : Descriptors, events : SUBSET Flags])
  BY <1>1 DEF SocketRecords
<1>6. SocketsTypeOK
  <2>1. DOMAIN sockets.items \subseteq sockets.open
    BY <1>1, <1>3 DEF WatchesOwn, Owned
  <2>2. \A d \in sockets.open : \E e \in Events : \A f \in Events : sockets.event[f].fd = d <=> f = e
    BY <1>1, <1>2 DEF Owned, SocketRecords
  <2>3. \A e \in Events : sockets.event[e].fd \in sockets.open \cup {Undefined}
    BY <1>1, <1>4 DEF Owned
  <2>4. Range(sockets.list) \cup Range(sockets.queue) \subseteq Events
    BY <1>5 DEF Range
  <2> QED
    BY <2>1, <2>2, <2>3, <2>4, <1>1, <1>4 DEF SocketsTypeOK, SocketRecords
<1>7. WatchesTheScheduled
  <2>1. DOMAIN sockets.items = {p.fd : p \in Range(sockets.poll)}
    <3>1. \A d \in DOMAIN sockets.items : \E i \in DOMAIN sockets.poll : sockets.poll[i].fd = d
      BY <1>1 DEF Dense
    <3>2. \A i \in DOMAIN sockets.poll : sockets.poll[i].fd \in DOMAIN sockets.items
      BY <1>1 DEF Dense
    <3> QED
      BY <3>1, <3>2 DEF Range
  <2>2. \A i \in DOMAIN sockets.poll : sockets.items[sockets.poll[i].fd].index = i
    BY <1>1 DEF Dense
  <2>3. ASSUME NEW i \in DOMAIN sockets.poll
        PROVE  \E e \in {f \in Events : sockets.event[f].scheduled # {}} :
                 <<sockets.poll[i].fd, sockets.poll[i].events, sockets.items[sockets.poll[i].fd].obj>>
                   = <<sockets.event[e].fd, sockets.event[e].scheduled, e>>
    <3> DEFINE e == sockets.items[sockets.poll[i].fd].obj
    <3>1. sockets.poll[i].fd \in DOMAIN sockets.items /\ sockets.items[sockets.poll[i].fd].index = i
      BY <1>1 DEF Dense
    <3>2. /\ e \in Events /\ sockets.event[e].scheduled # {} /\ sockets.event[e].fd = sockets.poll[i].fd
          /\ sockets.poll[i].events = sockets.event[e].scheduled
      BY <3>1, <1>1, <1>3 DEF WatchesOwn
    <3> QED
      BY <3>2
  <2>4. ASSUME NEW e \in Events, sockets.event[e].scheduled # {}
        PROVE  \E i \in DOMAIN sockets.poll :
                 <<sockets.poll[i].fd, sockets.poll[i].events, sockets.items[sockets.poll[i].fd].obj>>
                   = <<sockets.event[e].fd, sockets.event[e].scheduled, e>>
    <3> DEFINE d == sockets.event[e].fd
               i == sockets.items[d].index
    <3>1. d \in DOMAIN sockets.items /\ i \in DOMAIN sockets.poll /\ sockets.poll[i].fd = d /\ d # Undefined
      BY <2>4, <1>1 DEF WatchesOwn, Dense, Owned
    <3>2. sockets.items[d].obj = e
      BY <3>1, <1>1, <1>3 DEF WatchesOwn, Owned
    <3>3. sockets.poll[i].events = sockets.event[e].scheduled
      BY <3>1, <3>2, <1>1 DEF WatchesOwn
    <3> QED
      BY <3>1, <3>2, <3>3
  <2>5. Watched(sockets) = {<<sockets.event[e].fd, sockets.event[e].scheduled, e>> :
                               e \in {f \in Events : sockets.event[f].scheduled # {}}}
    <3> DEFINE W == {<<sockets.event[e].fd, sockets.event[e].scheduled, e>> :
                        e \in {f \in Events : sockets.event[f].scheduled # {}}}
    <3>1. ASSUME NEW x \in Watched(sockets)
          PROVE  x \in W
      <4>1. PICK i \in DOMAIN sockets.poll :
              x = <<sockets.poll[i].fd, sockets.poll[i].events, sockets.items[sockets.poll[i].fd].obj>>
        BY DEF Watched
      <4> QED
        BY <4>1, <2>3
    <3>2. ASSUME NEW x \in W
          PROVE  x \in Watched(sockets)
      <4>1. PICK e \in {f \in Events : sockets.event[f].scheduled # {}} :
              x = <<sockets.event[e].fd, sockets.event[e].scheduled, e>>
        OBVIOUS
      <4> QED
        BY <4>1, <2>4 DEF Watched
    <3> QED
      BY <3>1, <3>2
  <2> QED
    BY <2>1, <2>2, <2>5 DEF WatchesTheScheduled
<1>8. LinkedWhileScheduled
  <2>1. Range(sockets.list) \cap Range(sockets.queue) = {} /\ Range(sockets.list) \subseteq Events
        /\ Range(sockets.queue) \subseteq Events
    BY <1>1, <1>5 DEF Linked, Range
  <2>2. /\ IsInjective(sockets.list \o sockets.queue)
        /\ Range(sockets.list \o sockets.queue) = Range(sockets.list) \cup Range(sockets.queue)
    BY <2>1, <1>1, <1>5, ConcatFacts DEF Linked
  <2> QED
    BY <2>1, <2>2, <1>1 DEF Linked, LinkedWhileScheduled
<1>9. ReportIsOfThisSocket
  <2>1. Range(sockets.queue) \subseteq Events
    BY <1>5 DEF Range
  <2> QED
    BY <2>1, <1>1 DEF Linked, Owned, ReportIsOfThisSocket
<1> QED
  BY <1>6, <1>7, <1>8, <1>9 DEF SocketsSound

LEMMA SocketsStep ==
    ASSUME DescriptorAssumption, SocketsSafe(sockets), [SocketsNext]_sockets
    PROVE  SocketsSafe(sockets')
<1>1. CASE UNCHANGED sockets
  BY <1>1
<1>2. CASE OpenSocket
  BY <1>2, OpenStep
<1>3. CASE CloseSocket
  BY <1>3, CloseStep
<1>4. CASE HandOver
  BY <1>4, HandOverStep
<1>5. CASE ScheduleMore \/ ScheduleImplicit \/ CancelSome \/ CancelOnly
  BY <1>5, ScheduleStep
<1>6. CASE Break \/ Sleep \/ DispatchNone
  BY <1>6, RestStep
<1>7. CASE PollSockets
  BY <1>7, PollStep
<1>8. CASE DispatchSocket
  BY <1>8, DispatchStep
<1> QED
  BY <1>1, <1>2, <1>3, <1>4, <1>5, <1>6, <1>7, <1>8 DEF SocketsNext, LoopStep

\* The poll set and the queue of ready sockets agree with what is scheduled, for any number of
\* events and descriptors: whatever a callback closes, reopens or hands over, no socket is
\* watched for another event, and no old report is dispatched for a new socket.
THEOREM SocketsAreSound == SocketsSpec => []SocketsSound
<1>1. SocketsInit => SocketsSafe(sockets)
  BY DescriptorAssumption, SocketsInitSafe
<1>2. SocketsSafe(sockets) /\ [SocketsNext]_sockets => SocketsSafe(sockets)'
  BY DescriptorAssumption, SocketsStep
<1>3. SocketsSafe(sockets) => SocketsSound
  BY DescriptorAssumption, SafeIsSound
<1> QED
  BY <1>1, <1>2, <1>3, PTL DEF SocketsSpec
=============================================================================
