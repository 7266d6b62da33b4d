----------------------------- MODULE EventLoop -----------------------------
(***************************************************************************)
(* The event loop (event/Loop.cxx) with its coarse timers in a wheel       *)
(* (TimerWheel.cxx), its fine timers in an ordered list (TimerList.cxx)    *)
(* and its deferred and idle events (DeferEvent.cxx).                      *)
(*                                                                         *)
(* The loop has one thread.  While a callback runs (`running'), it may     *)
(* schedule and cancel anything, in particular the timers of the list that *)
(* is being traversed.  `pc' is the phase of EventLoop::Run().  The order  *)
(* within a list is left open.  EventLoop::Break() is not modelled.        *)
(***************************************************************************)
EXTENDS Integers, FiniteSets, FiniteSetsExt

CONSTANTS Coarse, Fine,  \* the timers
          Event,         \* the DeferEvents
          Socket, Nobody,
          Resolution,    \* the time one bucket stands for
          NBuckets,
          Delays,        \* bound: the durations timers are scheduled with
          Late,          \* bound: how late a poll may return
          Slow,          \* callbacks take time
          MaxTime        \* bound: the end of time

Timer == Coarse \cup Fine
Span == NBuckets * Resolution

ASSUME ConstantsAssumption ==
    /\ Coarse \cap Fine = {} /\ Event \cap Timer = {}
    /\ Socket # Nobody /\ {Socket, Nobody} \cap (Timer \cup Event) = {}
    /\ Resolution \in Nat \ {0} /\ NBuckets \in Nat \ {0, 1}
    /\ Delays \subseteq Nat /\ Late \subseteq Nat /\ 0 \in Late
    /\ Slow \in BOOLEAN
    /\ MaxTime \in Nat /\ Span <= MaxTime

VARIABLES
    time,      \* the steady clock
    cache,     \* steady_clock_cache, 0 when it is flushed
    due,       \* of each pending timer, else 0
    place,     \* the list each timer is in; in the wheel, `due' tells the bucket
    queued,    \* the list each DeferEvent is in
    lastTime,  \* TimerWheel::last_time
    empty,     \* TimerWheel::empty
    again,
    running,   \* whose callback is running
    pc,
    bucket, endBucket,  \* the local variables of TimerWheel::Run(), else 0
    timeout    \* of the next poll, a local variable of EventLoop::Run(); -1 for none

wheel == <<lastTime, empty, bucket, endBucket>>
vars == <<time, cache, due, place, queued, lastTime, empty, again, running, pc,
          bucket, endBucket, timeout>>

-----------------------------------------------------------------------------
(* Helpers.                                                                *)

BucketIndexAt(t) == (t \div Resolution) % NBuckets
GetBucketStartTime(t) == t - (t % Resolution)

NextBucketIndex(i) == (i + 1) % NBuckets

In(list) == {t \in Timer : place[t] = list}
InBucket(i) == {t \in In("wheel") : BucketIndexAt(due[t]) = i}

SteadyNow == IF cache = 0 THEN time ELSE cache

\* mutant: a whole bucket is missed
BucketsAheadFromNext(now) ==
    {k \in 1..NBuckets : InBucket((BucketIndexAt(now) + k) % NBuckets) # {}}

\* TimerWheel::GetNextDue: how many buckets, from that of now on, to walk to
\* the end of one that is not empty
BucketsAhead(now) ==
    {k \in 1..NBuckets : InBucket((BucketIndexAt(now) + k - 1) % NBuckets) # {}}

\* TimerWheel::GetSleep
GetSleep(now) ==
    IF empty \/ BucketsAhead(now) = {} THEN -1
    ELSE GetBucketStartTime(now) + Min(BucketsAhead(now)) * Resolution - now

GetEarlierTimeout(a, b) == IF b < 0 \/ (a >= 0 /\ a < b) THEN a ELSE b

\* the value returned by TimerList::Run()
FineTimeout == IF In("fine") = {} THEN -1 ELSE Min({due[t] : t \in In("fine")}) - cache

-----------------------------------------------------------------------------
(* What a callback may do.                                                 *)

\* mutant: the timeout is not computed again
AskAgainNot == UNCHANGED again

\* EventLoop::Insert
AskAgain == again' = TRUE

\* CoarseTimerEvent::Schedule, FineTimerEvent::Schedule and Insert(); a call of
\* ScheduleEarlier() does the same or nothing
Schedule(t) ==
    /\ running # Nobody
    /\ \E d \in Delays :
          /\ SteadyNow + d <= MaxTime
          /\ due' = [due EXCEPT ![t] = SteadyNow + d]
          /\ place' = [place EXCEPT ![t] = IF t \in Fine THEN "fine"
                                           ELSE IF d > 0 THEN "wheel" ELSE "ready"]
    /\ cache' = SteadyNow
    /\ empty' = (empty /\ t \in Fine)
    /\ AskAgain
    /\ UNCHANGED <<time, queued, lastTime, running, pc, bucket, endBucket, timeout>>

Unlink(t) ==
    /\ place' = [place EXCEPT ![t] = "none"]
    /\ due' = [due EXCEPT ![t] = 0]

Cancel(t) ==
    /\ running # Nobody
    /\ place[t] # "none"
    /\ Unlink(t)
    /\ UNCHANGED <<time, cache, queued, wheel, again, running, pc, timeout>>

\* DeferEvent::Schedule, ScheduleIdle, ScheduleNext (a no-op when pending), Cancel
Defer(e) ==
    /\ running # Nobody
    /\ \E list \in IF queued[e] = "none" THEN {"defer", "idle", "next"} ELSE {"none"} :
          queued' = [queued EXCEPT ![e] = list]
    /\ UNCHANGED <<time, cache, due, place, wheel, again, running, pc, timeout>>

\* The callback blocks, waiting for MPD.
Block ==
    /\ Slow /\ running # Nobody
    /\ time < MaxTime
    /\ time' = time + 1
    /\ UNCHANGED <<cache, due, place, queued, wheel, again, running, pc, timeout>>

Return ==
    /\ running # Nobody
    /\ running' = Nobody
    /\ UNCHANGED <<time, cache, due, place, queued, wheel, again, pc, timeout>>

Callback ==
    \/ Block \/ Return
    \/ \E t \in Timer : Schedule(t) \/ Cancel(t)
    \/ \E e \in Event : Defer(e)

-----------------------------------------------------------------------------
(* The loop.                                                               *)

\* the loop itself is at this phase
At(phase) == running = Nobody /\ pc = phase

RunTimer(t) ==
    /\ Unlink(t)
    /\ running' = t
    /\ UNCHANGED <<time, cache, queued, wheel, again, pc, timeout>>

\* A new iteration: HandleTimers() asks for the time, which the first one flushes.
Iterate ==
    /\ At("loop") \/ At("start")
    /\ again' = FALSE
    /\ cache' = IF pc = "start" THEN time ELSE SteadyNow
    /\ pc' = "fine"
    /\ UNCHANGED <<time, due, place, queued, wheel, running, timeout>>

\* TimerList::Run: the earliest timer, while it is due
RunFine ==
    /\ At("fine")
    /\ \E t \in In("fine") :
          /\ \A u \in In("fine") : due[t] <= due[u]
          /\ due[t] <= cache
          /\ RunTimer(t)

FineDone ==
    /\ At("fine")
    /\ \A t \in In("fine") : due[t] > cache
    /\ timeout' = FineTimeout
    /\ pc' = "ready"
    /\ UNCHANGED <<time, cache, due, place, queued, wheel, again, running>>

\* TimerWheel::Run: the "ready" list
RunReady ==
    /\ At("ready")
    /\ \E t \in In("ready") : RunTimer(t)

AllBuckets == cache < lastTime \/ cache >= lastTime + Span - Resolution

\* ... and which buckets to check
FindBuckets ==
    /\ At("ready")
    /\ In("ready") = {}
    /\ LET start == BucketIndexAt(lastTime)
       IN  IF ~AllBuckets /\ start = BucketIndexAt(cache)
             THEN pc' = "sleep" /\ UNCHANGED <<lastTime, bucket, endBucket>>
             ELSE /\ pc' = "buckets"
                  /\ bucket' = start
                  /\ endBucket' = IF AllBuckets THEN start ELSE BucketIndexAt(cache)
                  /\ lastTime' = GetBucketStartTime(cache)
    /\ UNCHANGED <<time, cache, due, place, queued, empty, again, running, timeout>>

\* TimerWheel::Run(List &): the timers are moved to a list of their own, which
\* is then traversed
TakeBucket ==
    /\ At("buckets")
    /\ place' = [t \in Timer |-> IF t \in InBucket(bucket) THEN "tmp" ELSE place[t]]
    /\ pc' = "bucket"
    /\ UNCHANGED <<time, cache, due, queued, wheel, again, running, timeout>>

\* mutant: every timer of the bucket is taken to be due
RunBucketBlindly ==
    /\ At("bucket")
    /\ \E t \in In("tmp") : RunTimer(t)

RunBucket ==
    /\ At("bucket")
    /\ \E t \in In("tmp") : due[t] <= cache /\ RunTimer(t)

KeepTimer ==
    /\ At("bucket")
    /\ \E t \in In("tmp") : due[t] > cache /\ place' = [place EXCEPT ![t] = "wheel"]
    /\ UNCHANGED <<time, cache, due, queued, wheel, again, running, pc, timeout>>

NextBucket ==
    /\ At("bucket")
    /\ In("tmp") = {}
    /\ LET next == NextBucketIndex(bucket)
       IN  IF next = endBucket
             THEN pc' = "sleep" /\ bucket' = 0 /\ endBucket' = 0
             ELSE pc' = "buckets" /\ bucket' = next /\ UNCHANGED endBucket
    /\ UNCHANGED <<time, cache, due, place, queued, lastTime, empty, again, running,
                   timeout>>

\* GetSleep(), and the rest of HandleTimers()
HandleTimers ==
    /\ At("sleep")
    /\ timeout' = GetEarlierTimeout(GetSleep(cache), timeout)
    /\ empty' = (empty \/ BucketsAhead(cache) = {})
    /\ pc' = "defer"
    /\ UNCHANGED <<time, cache, due, place, queued, lastTime, again, running, bucket,
                   endBucket>>

RunEvent(e) ==
    /\ queued' = [queued EXCEPT ![e] = "none"]
    /\ running' = e
    /\ UNCHANGED <<time, cache, due, place, wheel, again>>

RunDeferred ==
    /\ At("defer")
    /\ \E e \in Event : queued[e] = "defer" /\ RunEvent(e)
    /\ UNCHANGED <<pc, timeout>>

RunOneIdle ==
    /\ At("defer")
    /\ \A e \in Event : queued[e] # "defer"
    /\ \E e \in Event : queued[e] = "idle" /\ RunEvent(e)
    /\ pc' = "loop" /\ timeout' = -1

\* nothing left to do, or new timers to look at
BeforeWait ==
    /\ At("defer")
    /\ \A e \in Event : queued[e] \notin {"defer", "idle"}
    /\ IF again
         THEN pc' = "loop" /\ timeout' = -1
         ELSE /\ pc' = "wait"
              /\ timeout' = IF \E e \in Event : queued[e] = "next" THEN 0 ELSE timeout
    /\ UNCHANGED <<time, cache, due, place, queued, wheel, again, running>>

\* Wait(): the poll returns at the timeout, or with sockets that are ready.
Wait ==
    /\ At("wait")
    /\ \E t \in time..MaxTime, sockets \in BOOLEAN :
          /\ timeout < 0 => sockets
          /\ ~sockets => t - (time + timeout) \in Late
          /\ sockets /\ timeout >= 0 => t <= time + timeout
          /\ time' = t
          /\ pc' = IF sockets THEN "sockets" ELSE "loop"
    /\ cache' = 0 /\ timeout' = -1
    /\ queued' = [e \in Event |-> IF queued[e] = "next" THEN "idle" ELSE queued[e]]
    /\ UNCHANGED <<due, place, wheel, again, running>>

\* SocketEvent::Dispatch, for one or more sockets
Dispatch ==
    /\ At("sockets")
    /\ running' = Socket
    /\ pc' \in {"sockets", "loop"}
    /\ UNCHANGED <<time, cache, due, place, queued, wheel, again, timeout>>

-----------------------------------------------------------------------------
\* The first callback stands for what the program does before it runs the loop.
Init ==
    /\ time \in 1..Span /\ cache = 0
    /\ due = [t \in Timer |-> 0]
    /\ place = [t \in Timer |-> "none"]
    /\ queued = [e \in Event |-> "none"]
    /\ lastTime = 0 /\ empty = TRUE /\ again = FALSE
    /\ running = Socket /\ pc = "start"
    /\ bucket = 0 /\ endBucket = 0 /\ timeout = -1

Next ==
    \/ Callback
    \/ Iterate \/ RunFine \/ FineDone \/ RunReady \/ FindBuckets
    \/ TakeBucket \/ RunBucket \/ KeepTimer \/ NextBucket \/ HandleTimers
    \/ RunDeferred \/ RunOneIdle \/ BeforeWait \/ Wait \/ Dispatch

Spec == Init /\ [][Next]_vars

-----------------------------------------------------------------------------
(* Properties.                                                             *)

\* The types of the variables.
TypeOK ==
    /\ time \in 1..MaxTime /\ cache \in 0..time
    /\ due \in [Timer -> 0..MaxTime]
    /\ place \in [Timer -> {"none", "fine", "ready", "wheel", "tmp"}]
    /\ queued \in [Event -> {"none", "defer", "idle", "next"}]
    /\ lastTime \in 0..MaxTime /\ {empty, again} \subseteq BOOLEAN
    /\ running \in Timer \cup Event \cup {Socket, Nobody}
    /\ pc \in {"start", "loop", "fine", "ready", "buckets", "bucket", "sleep", "defer", "wait", "sockets"}
    /\ {bucket, endBucket} \subseteq 0..(NBuckets - 1)
    /\ timeout \in -1..MaxTime + Span

\* When t, due at the given time, has to fire at last: a coarse timer waits for the
\* end of its bucket ("all timers in the same bucket shall be combined",
\* TimerWheel.cxx:117).
Deadline(t, at) == IF t \in Fine THEN at ELSE GetBucketStartTime(at) + Resolution

\* The loop never sleeps on work: however callbacks have scheduled and
\* cancelled timers while the lists were traversed, the poll returns when the first
\* of them has to fire, measured by the clock the iteration has cached.
NeverOversleeps ==
    At("wait") =>
        /\ \A t \in Timer : place[t] # "none" =>
              /\ place[t] \in {"fine", "wheel"}
              /\ timeout >= 0 /\ cache + timeout <= Deadline(t, due[t])
        /\ \A e \in Event : queued[e] # "none" => queued[e] = "next" /\ timeout = 0

\* `empty' is believed by GetSleep() (TimerWheel.cxx:82), and no timer is left behind in a
\* bucket that will not be looked at before the wheel has turned.
WheelSound ==
    /\ empty => In("wheel") \cup In("tmp") = {}
    /\ pc \in {"loop", "fine", "ready", "defer", "wait", "sockets"} =>
          \A t \in In("wheel") : due[t] >= lastTime

\* No timer fires before it is due, although the "ready" list is run without a
\* look at the clock (TimerWheel.cxx:99) and buckets hold timers of later turns.
NeverEarly == [][\A t \in Timer : running' = t /\ running # t => due[t] <= time]_vars

\* The loop as a set of timers, whatever list they are in.
Timers == INSTANCE TimerSet
            WITH clock <- time,
                 pending <- [t \in Timer |-> IF place[t] = "none" THEN -1 ELSE due[t]],
                 firing <- IF running \in Timer THEN running ELSE Nobody

\* The wheel, the ordered list, the cached clock and the computed timeouts keep
\* the promise of TimerSet (CoarseTimerEvent.hxx:14, FineTimerEvent.hxx:16), when
\* callbacks take no time and the poll is not late.
ImplementsTimerSet == Timers!Spec

\* Nothing is slept over and nothing is left behind, wherever the clock has jumped to.
LoopSound == TypeOK /\ NeverOversleeps /\ WheelSound
=============================================================================
