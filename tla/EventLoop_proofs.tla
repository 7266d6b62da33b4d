-------------------------- MODULE EventLoop_proofs --------------------------
(***************************************************************************)
(* Theorems about EventLoop, for any sets of timers and events, any wheel  *)
(* and any delays: no timer fires early, none is slept over or left behind *)
(* in the wheel, and the loop implements TimerSet.                         *)
(***************************************************************************)
EXTENDS EventLoop, TLAPS, WellFoundedInduction

\* The part of TypeOK the proof needs.
ClockOK ==
    /\ time \in Nat /\ cache \in 0..time
    /\ due \in [Timer -> Nat]
    /\ place \in [Timer -> {"none", "fine", "ready", "wheel", "tmp"}]

\* The "ready" list is run without a look at the clock (TimerWheel.cxx:99):
\* what is in there must have been due when it was inserted.
ReadyIsDue == \A t \in In("ready") : due[t] <= time

IInv == ClockOK /\ ReadyIsDue

\* IInv holds before the loop starts.
LEMMA InitIInv == Init => IInv
<1> SUFFICES ASSUME Init PROVE IInv
  OBVIOUS
<1>1. Span \in Nat
  BY ConstantsAssumption DEF Span
<1> QED
  BY <1>1 DEF Init, IInv, ClockOK, ReadyIsDue, In

\* What SteadyNow() returns never lies in the future.
LEMMA SteadyNowInPast == ASSUME ClockOK PROVE SteadyNow \in 0..time
  BY DEF ClockOK, SteadyNow

\* A callback preserves IInv, whatever it schedules and cancels.
LEMMA CallbackIInv == IInv /\ Callback => IInv'
<1> SUFFICES ASSUME IInv, Callback PROVE IInv'
  OBVIOUS
<1> USE DEF IInv, ClockOK, ReadyIsDue, In
<1>1. CASE Block
  BY <1>1 DEF Block
<1>2. CASE Return
  BY <1>2 DEF Return
<1>3. ASSUME NEW t \in Timer, Schedule(t) PROVE IInv'
  <2>1. PICK d \in Delays :
           /\ due' = [due EXCEPT ![t] = SteadyNow + d]
           /\ place' = [place EXCEPT ![t] = IF t \in Fine THEN "fine"
                                            ELSE IF d > 0 THEN "wheel" ELSE "ready"]
    BY <1>3 DEF Schedule
  <2>2. SteadyNow \in 0..time
    BY SteadyNowInPast
  <2>3. d \in Nat
    BY ConstantsAssumption
  <2>4. time' = time /\ cache' = SteadyNow
    BY <1>3 DEF Schedule
  <2>5. ClockOK'
    BY <2>1, <2>2, <2>3, <2>4
  <2>6. ReadyIsDue'
    <3> SUFFICES ASSUME NEW u \in Timer, place'[u] = "ready" PROVE due'[u] <= time'
      OBVIOUS
    <3>1. CASE u = t
      BY <2>1, <2>2, <2>3, <2>4, <3>1
    <3>2. CASE u # t
      BY <2>1, <2>4, <3>2
    <3> QED
      BY <3>1, <3>2
  <2> QED
    BY <2>5, <2>6
<1>4. ASSUME NEW t \in Timer, Cancel(t) PROVE IInv'
  BY <1>4 DEF Cancel, Unlink
<1>5. ASSUME NEW e \in Event, Defer(e) PROVE IInv'
  BY <1>5 DEF Defer
<1> QED
  BY <1>1, <1>2, <1>3, <1>4, <1>5 DEF Callback

\* A step of the loop preserves IInv.
LEMMA StepIInv == IInv /\ [Next]_vars => IInv'
<1> SUFFICES ASSUME IInv, [Next]_vars PROVE IInv'
  OBVIOUS
<1>c. CASE Callback
  BY <1>c, CallbackIInv
<1> USE DEF IInv, ClockOK, ReadyIsDue, In
<1>1. CASE Iterate
  BY <1>1, SteadyNowInPast DEF Iterate
<1>2. CASE RunFine
  BY <1>2 DEF RunFine, RunTimer, Unlink
<1>3. CASE FineDone
  BY <1>3 DEF FineDone
<1>4. CASE RunReady
  BY <1>4 DEF RunReady, RunTimer, Unlink
<1>5. CASE FindBuckets
  BY <1>5 DEF FindBuckets
<1>6. CASE TakeBucket
  BY <1>6 DEF TakeBucket
<1>7. CASE RunBucket
  BY <1>7 DEF RunBucket, RunTimer, Unlink
<1>8. CASE KeepTimer
  BY <1>8 DEF KeepTimer
<1>9. CASE NextBucket
  BY <1>9 DEF NextBucket
<1>10. CASE HandleTimers
  BY <1>10 DEF HandleTimers
<1>11. CASE RunDeferred
  BY <1>11 DEF RunDeferred, RunEvent
<1>12. CASE RunOneIdle
  BY <1>12 DEF RunOneIdle, RunEvent
<1>13. CASE BeforeWait
  BY <1>13 DEF BeforeWait
<1>14. CASE Wait
  BY <1>14, ConstantsAssumption DEF Wait
<1>15. CASE Dispatch
  BY <1>15 DEF Dispatch
<1>16. CASE UNCHANGED vars
  BY <1>16 DEF vars
<1> QED
  BY <1>c, <1>1, <1>2, <1>3, <1>4, <1>5, <1>6, <1>7, <1>8, <1>9, <1>10, <1>11, <1>12,
     <1>13, <1>14, <1>15, <1>16 DEF Next

\* The clocks agree and the "ready" list holds what is due.
THEOREM SpecImpliesIInv == Spec => []IInv
BY InitIInv, StepIInv, PTL DEF Spec

\* A step that starts the callback of a timer finds it due.
LEMMA StepNeverEarly ==
    IInv /\ [Next]_vars => [\A t \in Timer : running' = t /\ running # t => due[t] <= time]_vars
<1> SUFFICES ASSUME IInv, [Next]_vars, NEW t \in Timer, running' = t, running # t
             PROVE  due[t] <= time
  OBVIOUS
<1>1. t \notin Event /\ t # Socket /\ t # Nobody
  BY ConstantsAssumption
<1> USE DEF IInv, ClockOK, ReadyIsDue
<1>2. CASE RunFine
  BY <1>2 DEF RunFine, RunTimer, In
<1>3. CASE RunReady
  BY <1>3 DEF RunReady, RunTimer
<1>4. CASE RunBucket
  BY <1>4 DEF RunBucket, RunTimer, In
<1>5. CASE Callback
  BY <1>1, <1>5 DEF Callback, Block, Return, Schedule, Cancel, Defer
<1>6. CASE RunDeferred \/ RunOneIdle \/ Dispatch
  BY <1>1, <1>6 DEF RunDeferred, RunOneIdle, RunEvent, Dispatch
<1>7. CASE \/ Iterate \/ FineDone \/ FindBuckets \/ TakeBucket \/ KeepTimer \/ NextBucket
           \/ HandleTimers \/ BeforeWait \/ Wait \/ UNCHANGED vars
  BY <1>7 DEF Iterate, FineDone, FindBuckets, TakeBucket, KeepTimer, NextBucket,
              HandleTimers, BeforeWait, Wait, vars
<1> QED
  BY <1>2, <1>3, <1>4, <1>5, <1>6, <1>7 DEF Next

\* No timer fires before it is due, whatever the callbacks schedule and
\* cancel while the lists are traversed, and however stale the clock is that
\* the loop has cached.
THEOREM NoTimerIsEarly == Spec => NeverEarly
<1>1. IInv /\ [Next]_vars => [\A t \in Timer : running' = t /\ running # t => due[t] <= time]_vars
  BY StepNeverEarly
<1> QED
  BY <1>1, SpecImpliesIInv, PTL DEF Spec, NeverEarly

-----------------------------------------------------------------------------
(* Arithmetic of multiples and remainders, and least elements.             *)

\* A number is a multiple and a remainder.
LEMMA Division ==
    ASSUME NEW a \in Nat, NEW n \in Nat \ {0}
    PROVE  a = n * (a \div n) + (a % n) /\ a % n \in 0..(n - 1) /\ a \div n \in Nat
OBVIOUS

\* ... in one way only.
LEMMA DivisionUnique ==
    ASSUME NEW n \in Nat \ {0}, NEW q \in Nat, NEW r \in 0..(n - 1), NEW a \in Nat,
           a = n * q + r
    PROVE  a % n = r /\ a \div n = q
OBVIOUS

\* Multiples are apart.
LEMMA MultiplesApart ==
    ASSUME NEW n \in Nat \ {0}, NEW q \in Int, NEW p \in Int, q < p
    PROVE  n * q + n <= n * p
OBVIOUS

\* The remainder of a number and a few more.
LEMMA ModPlus ==
    ASSUME NEW n \in Nat \ {0}, NEW i \in Nat, NEW k \in 0..(n - 1)
    PROVE  (i + k) % n = IF (i % n) + k < n THEN (i % n) + k ELSE (i % n) + k - n
<1> DEFINE q == i \div n
           r == i % n
<1>1. i = n * q + r /\ r \in 0..(n - 1) /\ q \in Nat
  BY Division
<1> HIDE DEF q, r
<1>2. CASE r + k < n
  <2>1. r + k \in 0..(n - 1) /\ i + k \in Nat /\ i + k = n * q + (r + k)
    BY <1>1, <1>2
  <2>2. (i + k) % n = r + k
    BY <1>1, <2>1, DivisionUnique
  <2> QED
    BY <1>1, <1>2, <2>2 DEF r
<1>3. CASE r + k >= n
  <2>1. r + k - n \in 0..(n - 1) /\ i + k \in Nat /\ q + 1 \in Nat
    BY <1>1, <1>3
  <2>2. i + k = n * (q + 1) + (r + k - n)
    BY <1>1, <1>3
  <2>3. (i + k) % n = r + k - n
    BY <2>1, <2>2, DivisionUnique
  <2> QED
    BY <1>1, <1>3, <2>3 DEF r
<1> QED
  BY <1>1, <1>2, <1>3 DEF r

\* Two numbers of one remainder are the same or a whole turn apart.
LEMMA SameRemainder ==
    ASSUME NEW n \in Nat \ {0}, NEW i \in Nat, NEW k \in Nat, i % n = k % n, i < k
    PROVE  i + n <= k
<1> DEFINE q == i \div n
           p == k \div n
           r == i % n
<1>1. i = n * q + r /\ k = n * p + r /\ r \in 0..(n - 1) /\ q \in Nat /\ p \in Nat
  BY Division
<1> HIDE DEF q, p, r
<1>2. q < p
  <2> SUFFICES ASSUME p <= q PROVE FALSE
    BY <1>1
  <2>1. p = q \/ n * p + n <= n * q
    BY <1>1, MultiplesApart
  <2> QED
    BY <1>1, <2>1
<1>3. n * q + n <= n * p
  BY <1>1, <1>2, MultiplesApart
<1> QED
  BY <1>1, <1>3

\* A set of natural numbers has a least element.
LEMMA NatHasLeast ==
    ASSUME NEW S \in SUBSET Nat, S # {}
    PROVE  \E m \in S : \A x \in S : x >= m
<1> DEFINE Less == OpToRel(<, Nat)
<1>1. IsWellFoundedOn(Less, Nat)
  BY NatLessThanWellFounded
<1>2. \A x, y \in Nat : x < y => <<x, y>> \in Less
  BY DEF OpToRel
<1> HIDE DEF Less
<1>3. \E m \in S : \A x \in S : <<x, m>> \notin Less
  BY <1>1, WFMin, Zenon
<1>4. \E m \in S : \A x \in S : ~(x < m)
  BY <1>2, <1>3, Zenon
<1> QED
  BY <1>4

\* What Min() returns.
LEMMA MinIsLeast ==
    ASSUME NEW S \in SUBSET Nat, S # {}
    PROVE  Min(S) \in S /\ \A x \in S : Min(S) <= x
BY NatHasLeast DEF Min

-----------------------------------------------------------------------------
(* The wheel.                                                              *)

\* How many buckets TimerWheel::Run() has still to visit before it comes to the i-th,
\* and before it ends.
Ahead(i) == IF i >= bucket THEN i - bucket ELSE i - bucket + NBuckets
ToGo == IF endBucket > bucket THEN endBucket - bucket ELSE endBucket - bucket + NBuckets

Sweeping == {"buckets", "bucket"}
AfterReady == Sweeping \cup {"sleep", "defer", "wait"}
AfterFine == AfterReady \cup {"ready"}

\* Only fine timers are in the ordered list, only coarse ones in the wheel.
KindOK ==
    \A t \in Timer :
        place[t] \in IF t \in Fine THEN {"none", "fine"} ELSE {"none", "ready", "wheel", "tmp"}

\* The wheel was never run in the future, and is run with the time the iteration has cached.
ClocksOK ==
    /\ lastTime <= time /\ (cache # 0 => lastTime <= cache)
    /\ pc \in AfterFine \cup {"fine"} => cache # 0
    /\ lastTime % Resolution = 0
    /\ pc \in Sweeping \cup {"sleep"} => lastTime = GetBucketStartTime(cache)

\* What is put where nobody will look in this iteration asks for another one.
ListsOK ==
    /\ pc # "bucket" => In("tmp") = {}
    /\ pc \in AfterReady /\ ~again => In("ready") = {}
    /\ pc = "wait" => ~again /\ running = Nobody
    /\ empty => In("wheel") = {} /\ In("tmp") = {}

\* A timer that should have fired before the bucket of lastTime is in a bucket that the
\* sweep has still to visit.
Swept ==
    \A t \in In("wheel") :
        due[t] < lastTime =>
            /\ pc \in Sweeping
            /\ Ahead(BucketIndexAt(due[t])) < ToGo
            /\ pc = "bucket" => Ahead(BucketIndexAt(due[t])) > 0

Heeds(t) == timeout >= 0 /\ cache + timeout <= Deadline(t, due[t])

\* The timeout computed so far is early enough, unless it will be computed again.
TimeoutOK ==
    /\ pc \in AfterFine /\ ~again => \A t \in In("fine") : Heeds(t)
    /\ pc \in {"defer", "wait"} /\ ~again => \A t \in In("wheel") : Heeds(t)
    /\ pc = "wait" => \A e \in Event : queued[e] # "none" => queued[e] = "next" /\ timeout = 0

LoopInv == TypeOK /\ KindOK /\ ClocksOK /\ ListsOK /\ Swept /\ TimeoutOK

\* The sizes of the wheel.
LEMMA WheelSize ==
    /\ Resolution \in Nat \ {0} /\ NBuckets \in Nat \ {0} /\ NBuckets > 1
    /\ Span \in Nat \ {0} /\ Span <= MaxTime /\ MaxTime \in Nat
    /\ Span = Resolution * NBuckets
<1>1. Resolution \in Nat \ {0} /\ NBuckets \in Nat \ {0} /\ NBuckets > 1
  BY ConstantsAssumption
<1>2. Resolution + Resolution <= Resolution * NBuckets
  BY <1>1
<1> QED
  BY <1>1, <1>2, ConstantsAssumption DEF Span

\* What the index and the start of a time's bucket are, with q counting buckets from
\* the beginning of time.
LEMMA BucketOf ==
    ASSUME NEW t \in Nat
    PROVE  \E q \in Nat : /\ q = t \div Resolution
                          /\ BucketIndexAt(t) = q % NBuckets
                          /\ BucketIndexAt(t) \in 0..(NBuckets - 1)
                          /\ GetBucketStartTime(t) = Resolution * q
                          /\ GetBucketStartTime(t) \in Nat
                          /\ GetBucketStartTime(t) <= t
                          /\ t < GetBucketStartTime(t) + Resolution
<1>1. t = Resolution * (t \div Resolution) + (t % Resolution)
      /\ t % Resolution \in 0..(Resolution - 1) /\ t \div Resolution \in Nat
  BY WheelSize, Division
<1>2. (t \div Resolution) % NBuckets \in 0..(NBuckets - 1)
  BY <1>1, WheelSize, Division
<1>3. GetBucketStartTime(t) = Resolution * (t \div Resolution)
  <2> DEFINE q == t \div Resolution
             r == t % Resolution
  <2>1. t = Resolution * q + r /\ r \in Nat /\ q \in Nat
    BY <1>1, WheelSize
  <2>2. GetBucketStartTime(t) = t - r
    BY DEF GetBucketStartTime
  <2> HIDE DEF q, r
  <2>3. GetBucketStartTime(t) = Resolution * q
    BY <2>1, <2>2, WheelSize
  <2> QED
    BY <2>3 DEF q
<1>4. GetBucketStartTime(t) \in Nat /\ GetBucketStartTime(t) <= t
      /\ t < GetBucketStartTime(t) + Resolution
  BY <1>1, WheelSize DEF GetBucketStartTime
<1> QED
  BY <1>1, <1>2, <1>3, <1>4, Zenon DEF BucketIndexAt

\* Later times have later buckets.
LEMMA BucketsInOrder ==
    ASSUME NEW t \in Nat, NEW u \in Nat, NEW q \in Nat, NEW p \in Nat,
           t < Resolution * q + Resolution, Resolution * p <= u, u <= t
    PROVE  p <= q
<1> SUFFICES ASSUME q < p PROVE FALSE
  OBVIOUS
<1>1. Resolution * q + Resolution <= Resolution * p
  BY WheelSize, MultiplesApart
<1>2. Resolution * q \in Nat /\ Resolution * p \in Nat /\ Resolution \in Nat
  BY WheelSize
<1> QED
  BY <1>1, <1>2

\* The start of a bucket is a multiple of the resolution.
LEMMA StartIsMultiple ==
    ASSUME NEW t \in Nat
    PROVE  GetBucketStartTime(t) % Resolution = 0
<1>1. PICK q \in Nat : GetBucketStartTime(t) = Resolution * q /\ GetBucketStartTime(t) \in Nat
  BY BucketOf
<1> DEFINE s == GetBucketStartTime(t)
<1>2. s \in Nat /\ s = Resolution * q
  BY <1>1
<1> HIDE DEF s
<1>3. 0 \in 0..(Resolution - 1) /\ s = Resolution * q + 0
  BY <1>2, WheelSize
<1>4. s % Resolution = 0
  BY <1>2, <1>3, WheelSize, DivisionUnique
<1> QED
  BY <1>4 DEF s

\* SteadyNow() returns a time between the last run of the wheel and now.
LEMMA SteadyNowType ==
    ASSUME TypeOK, ClocksOK
    PROVE  /\ SteadyNow \in 1..time /\ lastTime <= SteadyNow
           /\ cache # 0 => SteadyNow = cache
BY DEF TypeOK, ClocksOK, SteadyNow

-----------------------------------------------------------------------------
(* Each step preserves LoopInv.                                            *)

\* Before the loop starts.
LEMMA InitLoopInv == Init => LoopInv
<1> SUFFICES ASSUME Init PROVE LoopInv
  OBVIOUS
<1> USE DEF Init
<1>1. TypeOK
  <2>1. 1..Span \subseteq 1..MaxTime /\ 0 \in 0..MaxTime /\ 0 \in 0..(NBuckets - 1)
        /\ -1 \in -1..(MaxTime + Span)
    BY WheelSize
  <2>2. time \in 1..MaxTime /\ 0 \in 0..time
    BY <2>1
  <2> QED
    BY <2>1, <2>2 DEF TypeOK
<1>2. KindOK /\ ListsOK /\ Swept /\ TimeoutOK
  BY DEF KindOK, ListsOK, Swept, TimeoutOK, In, AfterFine, AfterReady, Sweeping
<1>3. ClocksOK
  <2>1. 0 % Resolution = 0
    BY WheelSize
  <2> QED
    BY <2>1 DEF ClocksOK, AfterFine, AfterReady, Sweeping
<1> QED
  BY <1>1, <1>2, <1>3 DEF LoopInv

\* A timer that is scheduled again is later than the last run of the wheel and makes
\* the loop compute its timeout again.
LEMMA ScheduleLoopInv == ASSUME LoopInv, NEW t \in Timer, Schedule(t) PROVE LoopInv'
<1> USE DEF LoopInv
<1>1. PICK d \in Delays :
         /\ SteadyNow + d <= MaxTime
         /\ due' = [due EXCEPT ![t] = SteadyNow + d]
         /\ place' = [place EXCEPT ![t] = IF t \in Fine THEN "fine"
                                          ELSE IF d > 0 THEN "wheel" ELSE "ready"]
  BY DEF Schedule
<1>2. /\ SteadyNow \in 1..time /\ lastTime <= SteadyNow /\ (cache # 0 => SteadyNow = cache)
      /\ d \in Nat /\ SteadyNow + d \in 0..MaxTime
  BY <1>1, SteadyNowType, WheelSize, ConstantsAssumption DEF TypeOK
<1>3. /\ cache' = SteadyNow /\ again' = TRUE /\ (empty' = (empty /\ t \in Fine))
      /\ time' = time /\ pc' = pc /\ running' = running /\ running # Nobody
      /\ UNCHANGED <<queued, lastTime, bucket, endBucket, timeout>>
  BY DEF Schedule, AskAgain
<1>4. TypeOK'
  BY <1>1, <1>2, <1>3 DEF TypeOK
<1>5. KindOK'
  BY <1>1, <1>3, <1>4 DEF KindOK, TypeOK
<1>6. ClocksOK'
  BY <1>2, <1>3 DEF ClocksOK, TypeOK, AfterFine, AfterReady, Sweeping, GetBucketStartTime
<1>7. ListsOK'
  BY <1>1, <1>2, <1>3 DEF ListsOK, TypeOK, In
<1>8. Swept'
  <2> SUFFICES ASSUME NEW u \in Timer, place'[u] = "wheel", due'[u] < lastTime'
               PROVE  /\ pc' \in Sweeping
                      /\ Ahead(BucketIndexAt(due[u]))' < ToGo'
                      /\ pc' = "bucket" => Ahead(BucketIndexAt(due[u]))' > 0
    BY DEF Swept, In
  <2>1. u # t
    BY <1>1, <1>2, <1>3 DEF TypeOK
  <2>2. place[u] = "wheel" /\ due'[u] = due[u] /\ due[u] < lastTime
    BY <1>1, <1>3, <2>1 DEF TypeOK
  <2> QED
    BY <1>3, <2>2 DEF Swept, In, Ahead, ToGo
<1>9. TimeoutOK'
  BY <1>3 DEF TimeoutOK, ListsOK
<1> QED
  BY <1>4, <1>5, <1>6, <1>7, <1>8, <1>9

\* Taking a timer from its list leaves the rest as it is.
LEMMA UnlinkLoopInv ==
    ASSUME LoopInv, NEW t \in Timer, Unlink(t),
           UNCHANGED <<time, cache, queued, wheel, again, pc, timeout>>,
           pc # "wait", running' \in Timer \cup Event \cup {Socket, Nobody}
    PROVE  LoopInv'
<1> USE DEF LoopInv, Unlink, wheel
<1>1. TypeOK'
  BY WheelSize DEF TypeOK
<1>2. \A u \in Timer : place'[u] \in {"none", place[u]} /\ (place'[u] # "none" => due'[u] = due[u])
  BY DEF TypeOK
<1>3. KindOK'
  BY <1>2 DEF KindOK
<1>4. ClocksOK'
  BY DEF ClocksOK, AfterFine, AfterReady, Sweeping, GetBucketStartTime
<1>5. ListsOK'
  BY <1>2 DEF ListsOK, In
<1>6. Swept'
  BY <1>2 DEF Swept, In, Ahead, ToGo
<1>7. TimeoutOK'
  BY <1>2 DEF TimeoutOK, In, Heeds
<1> QED
  BY <1>1, <1>3, <1>4, <1>5, <1>6, <1>7

\* The steps that change neither the timers nor the wheel nor the clock.
LEMMA CallbackLoopInv == ASSUME LoopInv, Callback PROVE LoopInv'
<1> USE DEF LoopInv
<1>0. running # Nobody /\ pc # "wait"
  BY DEF Callback, Block, Return, Schedule, Cancel, Defer, ListsOK
<1>1. CASE Block
  <2>1. TypeOK' /\ ClocksOK'
    BY <1>1, WheelSize DEF Block, TypeOK, ClocksOK, wheel, AfterFine, AfterReady, Sweeping,
                           GetBucketStartTime
  <2>2. KindOK' /\ ListsOK' /\ Swept' /\ TimeoutOK'
    BY <1>0, <1>1 DEF Block, KindOK, ListsOK, Swept, TimeoutOK, wheel, In, Ahead, ToGo, Heeds
  <2> QED
    BY <2>1, <2>2
<1>2. CASE Return
  <2>1. TypeOK' /\ ClocksOK'
    BY <1>2 DEF Return, TypeOK, ClocksOK, wheel, AfterFine, AfterReady, Sweeping,
                GetBucketStartTime
  <2>2. KindOK' /\ ListsOK' /\ Swept' /\ TimeoutOK'
    BY <1>0, <1>2 DEF Return, KindOK, ListsOK, Swept, TimeoutOK, wheel, In, Ahead, ToGo, Heeds
  <2> QED
    BY <2>1, <2>2
<1>3. ASSUME NEW t \in Timer, Schedule(t) PROVE LoopInv'
  BY <1>3, ScheduleLoopInv
<1>4. ASSUME NEW t \in Timer, Cancel(t) PROVE LoopInv'
  <2>1. running' \in Timer \cup Event \cup {Socket, Nobody}
    BY <1>4 DEF Cancel, TypeOK
  <2> QED
    BY <1>0, <1>4, <2>1, UnlinkLoopInv DEF Cancel
<1>5. ASSUME NEW e \in Event, Defer(e) PROVE LoopInv'
  <2>1. TypeOK' /\ ClocksOK'
    BY <1>5 DEF Defer, TypeOK, ClocksOK, wheel, AfterFine, AfterReady, Sweeping,
                GetBucketStartTime
  <2>2. KindOK' /\ ListsOK' /\ Swept' /\ TimeoutOK'
    BY <1>0, <1>5 DEF Defer, KindOK, ListsOK, Swept, TimeoutOK, wheel, In, Ahead, ToGo, Heeds
  <2> QED
    BY <2>1, <2>2
<1> QED
  BY <1>1, <1>2, <1>3, <1>4, <1>5 DEF Callback

\* The steps of Run() that pass from one phase to the next.
LEMMA IterateLoopInv == ASSUME LoopInv, Iterate PROVE LoopInv'
<1> USE DEF LoopInv
<1>1. /\ pc' = "fine" /\ cache' \in 1..time /\ lastTime <= cache' /\ pc \in {"loop", "start"}
      /\ UNCHANGED <<time, due, place, queued, wheel, running, timeout>> /\ again' = FALSE
  BY SteadyNowType DEF Iterate, At, TypeOK, ClocksOK
<1>2. TypeOK' /\ KindOK'
  <2>1. cache' \in 0..time
    BY <1>1 DEF TypeOK
  <2>2. TypeOK'
    BY <1>1, <2>1 DEF TypeOK, wheel
  <2> QED
    BY <1>1, <2>2 DEF KindOK, wheel
<1>3. ClocksOK'
  BY <1>1 DEF ClocksOK, TypeOK, wheel, AfterFine, AfterReady, Sweeping
<1>4. ListsOK' /\ Swept' /\ TimeoutOK'
  BY <1>1 DEF ListsOK, Swept, TimeoutOK, In, wheel, AfterFine, AfterReady, Sweeping
<1> QED
  BY <1>2, <1>3, <1>4

\* The timeout of the ordered list is not later than its earliest timer.
LEMMA FineDoneLoopInv == ASSUME LoopInv, FineDone PROVE LoopInv'
<1> USE DEF LoopInv
<1>1. /\ pc = "fine" /\ pc' = "ready" /\ timeout' = FineTimeout
      /\ \A t \in In("fine") : due[t] > cache
      /\ UNCHANGED <<time, cache, due, place, queued, wheel, again, running>>
  BY DEF FineDone, At
<1>2. /\ timeout' \in -1..MaxTime
      /\ \A t \in In("fine") : timeout' >= 0 /\ cache + timeout' <= due[t]
  <2> DEFINE S == {due[t] : t \in In("fine")}
  <2>1. S \in SUBSET Nat /\ S \subseteq 0..MaxTime /\ cache \in Nat
    BY WheelSize DEF TypeOK, In
  <2>2. CASE In("fine") = {}
    BY <1>1, <2>2, WheelSize DEF FineTimeout
  <2>3. CASE In("fine") # {}
    <3>1. S # {}
      BY <2>3
    <3>2. timeout' = Min(S) - cache
      BY <1>1, <2>3 DEF FineTimeout
    <3> HIDE DEF S
    <3>3. Min(S) \in S /\ \A x \in S : Min(S) <= x
      BY <2>1, <3>1, MinIsLeast
    <3>4. Min(S) \in 0..MaxTime /\ Min(S) > cache
      BY <1>1, <2>1, <3>3 DEF S
    <3>5. \A t \in In("fine") : Min(S) <= due[t]
      BY <3>3 DEF S
    <3> QED
      BY <2>1, <3>2, <3>4, <3>5, WheelSize DEF TypeOK, In
  <2> QED
    BY <2>2, <2>3
<1>3. TypeOK'
  BY <1>1, <1>2, WheelSize DEF TypeOK, wheel
<1>4. KindOK' /\ ListsOK' /\ Swept'
  BY <1>1 DEF KindOK, ListsOK, Swept, In, wheel, AfterReady, Sweeping
<1>5. ClocksOK'
  BY <1>1 DEF ClocksOK, wheel, AfterFine, AfterReady, Sweeping
<1>6. TimeoutOK'
  <2>1. \A t \in In("fine") : t \in Fine
    BY DEF In, KindOK
  <2> QED
    BY <1>1, <1>2, <2>1 DEF TimeoutOK, In, Heeds, Deadline, AfterFine, AfterReady, Sweeping
<1> QED
  BY <1>3, <1>4, <1>5, <1>6

\* A timer due between two runs of the wheel is in one of the buckets from that of the
\* earlier run to that before the later one, when these are less than a turn apart.
LEMMA SweepCoversGap ==
    ASSUME NEW last \in Nat, NEW now \in Nat, NEW at \in Nat, last % Resolution = 0,
           now < last + Span - Resolution,
           last <= at, at < GetBucketStartTime(now), last <= now,
           NEW i, i = BucketIndexAt(last),
           NEW k, k = BucketIndexAt(now),
           NEW j, j = BucketIndexAt(at)
    PROVE  (IF j >= i THEN j - i ELSE j - i + NBuckets)
              < (IF k > i THEN k - i ELSE k - i + NBuckets)
<1>1. PICK p \in Nat : /\ BucketIndexAt(last) = p % NBuckets
                       /\ GetBucketStartTime(last) = Resolution * p
                       /\ i \in 0..(NBuckets - 1)
  BY BucketOf
<1>2. PICK q \in Nat : /\ BucketIndexAt(now) = q % NBuckets
                       /\ GetBucketStartTime(now) = Resolution * q
                       /\ k \in 0..(NBuckets - 1)
                       /\ GetBucketStartTime(now) <= now
                       /\ now < GetBucketStartTime(now) + Resolution
  BY BucketOf
<1>3. PICK r \in Nat : /\ BucketIndexAt(at) = r % NBuckets
                       /\ GetBucketStartTime(at) = Resolution * r
                       /\ j \in 0..(NBuckets - 1)
                       /\ GetBucketStartTime(at) <= at
                       /\ at < GetBucketStartTime(at) + Resolution
  BY BucketOf
<1>4. last = Resolution * p
  BY <1>1, WheelSize DEF GetBucketStartTime
<1>5. p <= r
  BY <1>3, <1>4, BucketsInOrder
<1>6. r < q
  <2> SUFFICES ASSUME q <= r PROVE FALSE
    OBVIOUS
  <2>1. q = r \/ Resolution * q + Resolution <= Resolution * r
    BY WheelSize, MultiplesApart
  <2> QED
    BY <1>2, <1>3, <2>1, WheelSize
<1>7. q < p + NBuckets
  <2> SUFFICES ASSUME p + NBuckets <= q PROVE FALSE
    BY WheelSize
  <2>1. Resolution * (p + NBuckets) = Resolution * p + Resolution * NBuckets
    BY WheelSize
  <2>2. p + NBuckets = q \/ Resolution * (p + NBuckets) + Resolution <= Resolution * q
    BY WheelSize, MultiplesApart
  <2> QED
    BY <1>2, <1>4, <2>1, <2>2, WheelSize
<1>8. r - p \in 0..(NBuckets - 1) /\ q - p \in 1..(NBuckets - 1) /\ r - p < q - p
      /\ NBuckets \in Nat \ {0}
  BY <1>5, <1>6, <1>7, WheelSize
<1> DEFINE m == r - p
           n == q - p
<1>9. /\ m \in 0..(NBuckets - 1) /\ n \in 1..(NBuckets - 1) /\ m < n
      /\ r = p + m /\ q = p + n
  BY <1>8
<1> HIDE DEF m, n
<1>10. j = IF i + m < NBuckets THEN i + m ELSE i + m - NBuckets
  <2>1. m \in 0..(NBuckets - 1)
    BY <1>9
  <2>2. (p + m) % NBuckets
           = IF (p % NBuckets) + m < NBuckets THEN (p % NBuckets) + m
             ELSE (p % NBuckets) + m - NBuckets
    BY <1>8, <2>1, ModPlus
  <2> QED
    BY <1>1, <1>3, <1>9, <2>2
<1>11. k = IF i + n < NBuckets THEN i + n ELSE i + n - NBuckets
  <2>1. n \in 0..(NBuckets - 1)
    BY <1>9
  <2>2. (p + n) % NBuckets
           = IF (p % NBuckets) + n < NBuckets THEN (p % NBuckets) + n
             ELSE (p % NBuckets) + n - NBuckets
    BY <1>8, <2>1, ModPlus
  <2> QED
    BY <1>1, <1>2, <1>9, <2>2
<1> QED
  BY <1>1, <1>8, <1>9, <1>10, <1>11

\* Two times less than a turn apart whose buckets have the same index are in one bucket.
LEMMA SameIndexSameBucket ==
    ASSUME NEW last \in Nat, NEW now \in Nat, last % Resolution = 0,
           last <= now, now < last + Span - Resolution,
           BucketIndexAt(last) = BucketIndexAt(now)
    PROVE  last = GetBucketStartTime(now)
<1>1. PICK p \in Nat : /\ BucketIndexAt(last) = p % NBuckets
                       /\ GetBucketStartTime(last) = Resolution * p
  BY BucketOf
<1>2. PICK q \in Nat : /\ BucketIndexAt(now) = q % NBuckets
                       /\ GetBucketStartTime(now) = Resolution * q
                       /\ GetBucketStartTime(now) <= now
                       /\ now < GetBucketStartTime(now) + Resolution
  BY BucketOf
<1>3. last = Resolution * p
  BY <1>1, WheelSize DEF GetBucketStartTime
<1>4. p <= q
  BY <1>2, <1>3, BucketsInOrder
<1>5. p < q => p + NBuckets <= q
  BY <1>1, <1>2, WheelSize, SameRemainder
<1>6. ~(p < q)
  <2> SUFFICES ASSUME p + NBuckets <= q PROVE FALSE
    BY <1>5
  <2>1. Resolution * (p + NBuckets) = Resolution * p + Resolution * NBuckets
    BY WheelSize
  <2>2. p + NBuckets = q \/ Resolution * (p + NBuckets) + Resolution <= Resolution * q
    BY WheelSize, MultiplesApart
  <2> QED
    BY <1>2, <1>3, <2>1, <2>2, WheelSize
<1> QED
  BY <1>2, <1>3, <1>4, <1>6

\* A sweep begins with every bucket between the last run of the wheel and now, and there
\* is none when nothing is between them.
LEMMA FindBucketsLoopInv == ASSUME LoopInv, FindBuckets PROVE LoopInv'
<1> USE DEF LoopInv
<1> DEFINE start == BucketIndexAt(lastTime)
<1>1. /\ pc = "ready" /\ running = Nobody /\ In("ready") = {}
      /\ UNCHANGED <<time, cache, due, place, queued, empty, again, running, timeout>>
  BY DEF FindBuckets, At
<1>2. /\ cache \in Nat /\ lastTime \in Nat /\ cache # 0 /\ lastTime <= cache /\ cache <= time
      /\ time <= MaxTime /\ lastTime % Resolution = 0
  BY <1>1 DEF TypeOK, ClocksOK, AfterFine
<1>3. /\ start \in 0..(NBuckets - 1) /\ BucketIndexAt(cache) \in 0..(NBuckets - 1)
      /\ GetBucketStartTime(cache) \in Nat /\ GetBucketStartTime(cache) <= cache
  BY <1>2, BucketOf
<1>4. CASE ~AllBuckets /\ start = BucketIndexAt(cache)
  <2>1. pc' = "sleep" /\ UNCHANGED <<lastTime, bucket, endBucket>>
    BY <1>4 DEF FindBuckets
  <2>2. lastTime = GetBucketStartTime(cache)
    BY <1>2, <1>4, SameIndexSameBucket, WheelSize DEF AllBuckets
  <2>3. TypeOK' /\ KindOK'
    BY <1>1, <2>1 DEF TypeOK, KindOK
  <2>4. ClocksOK'
    BY <1>1, <2>1, <2>2 DEF ClocksOK, GetBucketStartTime, AfterFine
  <2>5. ListsOK' /\ TimeoutOK'
    BY <1>1, <2>1 DEF ListsOK, TimeoutOK, In, Heeds, AfterFine, AfterReady, Sweeping
  <2>6. Swept'
    BY <1>1, <2>1 DEF Swept, In, Sweeping
  <2> QED
    BY <2>3, <2>4, <2>5, <2>6
<1>5. CASE AllBuckets \/ start # BucketIndexAt(cache)
  <2>1. /\ pc' = "buckets" /\ bucket' = start
        /\ endBucket' = (IF AllBuckets THEN start ELSE BucketIndexAt(cache))
        /\ lastTime' = GetBucketStartTime(cache)
    BY <1>5 DEF FindBuckets
  <2>2. TypeOK' /\ KindOK'
    <3>1. lastTime' \in 0..MaxTime /\ {bucket', endBucket'} \subseteq 0..(NBuckets - 1)
      BY <1>2, <1>3, <2>1, WheelSize DEF TypeOK
    <3>2. TypeOK'
      BY <1>1, <2>1, <3>1 DEF TypeOK
    <3> QED
      BY <1>1, <3>2 DEF KindOK
  <2>3. ClocksOK'
    <3>1. lastTime' % Resolution = 0
      BY <1>2, <2>1, StartIsMultiple
    <3>2. GetBucketStartTime(cache)' = GetBucketStartTime(cache)
      BY <1>1 DEF GetBucketStartTime
    <3>3. lastTime' <= time' /\ lastTime' <= cache'
      BY <1>1, <1>2, <1>3, <2>1 DEF TypeOK
    <3> QED
      BY <1>1, <1>2, <2>1, <3>1, <3>2, <3>3 DEF ClocksOK
  <2>4. ListsOK' /\ TimeoutOK'
    BY <1>1, <2>1 DEF ListsOK, TimeoutOK, In, Heeds, AfterFine, AfterReady, Sweeping
  <2>5. Swept'
    <3> SUFFICES ASSUME NEW t \in Timer, place[t] = "wheel", due[t] < lastTime'
                 PROVE  Ahead(BucketIndexAt(due[t]))' < ToGo'
      BY <1>1, <2>1 DEF Swept, In, Sweeping
    <3>1. due[t] \in Nat /\ lastTime <= due[t]
      BY <1>1, <1>2 DEF TypeOK, Swept, In, Sweeping
    <3> DEFINE j == BucketIndexAt(due[t])
    <3>2. j \in 0..(NBuckets - 1)
      BY <3>1, BucketOf
    <3>3. Ahead(j)' = IF j >= start THEN j - start ELSE j - start + NBuckets
      BY <1>1, <2>1 DEF Ahead
    <3>4. CASE AllBuckets
      <4>1. ToGo' = NBuckets
        BY <1>3, <2>1, <3>4, WheelSize DEF ToGo
      <4> HIDE DEF j, start
      <4>2. Ahead(j)' < NBuckets
        BY <1>3, <3>2, <3>3, WheelSize
      <4>3. Ahead(j)' = Ahead(BucketIndexAt(due[t]))'
        BY <1>1 DEF j, BucketIndexAt
      <4> QED
        BY <4>1, <4>2, <4>3
    <3>5. CASE ~AllBuckets
      <4> DEFINE k == BucketIndexAt(cache)
      <4>1. ToGo' = IF k > start THEN k - start ELSE k - start + NBuckets
        BY <2>1, <3>5 DEF ToGo
      <4>2. cache < lastTime + Span - Resolution
        BY <1>2, <3>5, WheelSize DEF AllBuckets
      <4>3. due[t] < GetBucketStartTime(cache)
        BY <2>1
      <4>4. (IF j >= start THEN j - start ELSE j - start + NBuckets)
               < (IF k > start THEN k - start ELSE k - start + NBuckets)
        BY <1>2, <3>1, <4>2, <4>3, SweepCoversGap
      <4>5. Ahead(j)' = Ahead(BucketIndexAt(due[t]))'
        BY <1>1 DEF BucketIndexAt
      <4> QED
        BY <3>3, <4>1, <4>4, <4>5
    <3> QED
      BY <3>4, <3>5
  <2> QED
    BY <2>2, <2>3, <2>4, <2>5
<1> QED
  BY <1>4, <1>5

\* The timers of a bucket are moved to a list of their own.
LEMMA TakeBucketLoopInv == ASSUME LoopInv, TakeBucket PROVE LoopInv'
<1> USE DEF LoopInv
<1>1. /\ pc = "buckets" /\ pc' = "bucket"
      /\ place' = [t \in Timer |-> IF t \in InBucket(bucket) THEN "tmp" ELSE place[t]]
      /\ UNCHANGED <<time, cache, due, queued, wheel, again, running, timeout>>
  BY DEF TakeBucket, At
<1>2. TypeOK'
  BY <1>1 DEF TypeOK, wheel
<1>3. KindOK'
  BY <1>1 DEF KindOK, InBucket, In
<1>4. ClocksOK'
  BY <1>1 DEF ClocksOK, GetBucketStartTime, AfterFine, AfterReady, Sweeping, wheel
<1>5. ListsOK'
  BY <1>1 DEF ListsOK, InBucket, In, wheel, AfterReady, Sweeping
<1>6. Swept'
  <2> SUFFICES ASSUME NEW t \in Timer, place'[t] = "wheel", due[t] < lastTime
               PROVE  /\ Ahead(BucketIndexAt(due[t]))' < ToGo'
                      /\ Ahead(BucketIndexAt(due[t]))' > 0
    BY <1>1 DEF Swept, In, Sweeping, wheel
  <2>1. place[t] = "wheel" /\ BucketIndexAt(due[t]) # bucket /\ due[t] \in Nat
    BY <1>1 DEF InBucket, In, TypeOK
  <2>2. Ahead(BucketIndexAt(due[t])) < ToGo
    BY <2>1 DEF Swept, In
  <2>3. BucketIndexAt(due[t]) \in 0..(NBuckets - 1) /\ bucket \in 0..(NBuckets - 1)
    BY <2>1, BucketOf DEF TypeOK
  <2>4. Ahead(BucketIndexAt(due[t])) > 0
    BY <2>1, <2>3, WheelSize DEF Ahead
  <2>5. /\ Ahead(BucketIndexAt(due[t]))' = Ahead(BucketIndexAt(due[t])) /\ ToGo' = ToGo
    BY <1>1 DEF Ahead, ToGo, BucketIndexAt, wheel
  <2> QED
    BY <2>2, <2>4, <2>5
<1>7. TimeoutOK'
  BY <1>1 DEF TimeoutOK, InBucket, In, Heeds, AfterFine, AfterReady, Sweeping
<1> QED
  BY <1>2, <1>3, <1>4, <1>5, <1>6, <1>7

\* A timer of a later turn goes back to its bucket.
LEMMA KeepTimerLoopInv == ASSUME LoopInv, KeepTimer PROVE LoopInv'
<1> USE DEF LoopInv
<1>1. /\ pc = "bucket"
      /\ UNCHANGED <<time, cache, due, queued, wheel, again, running, pc, timeout>>
  BY DEF KeepTimer, At
<1>2. PICK t \in Timer : place[t] = "tmp" /\ due[t] > cache
                         /\ place' = [place EXCEPT ![t] = "wheel"]
  BY DEF KeepTimer, In
<1>3. TypeOK' /\ KindOK'
  BY <1>1, <1>2 DEF TypeOK, KindOK, wheel
<1>4. ClocksOK'
  BY <1>1 DEF ClocksOK, GetBucketStartTime, AfterFine, AfterReady, Sweeping, wheel
<1>5. ListsOK'
  BY <1>1, <1>2 DEF ListsOK, In, wheel, AfterReady, Sweeping, TypeOK
<1>6. Swept'
  <2>1. due[t] >= lastTime
    BY <1>1, <1>2 DEF ClocksOK, TypeOK, AfterFine, AfterReady, Sweeping
  <2>2. \A u \in Timer : place'[u] = "wheel" => u = t \/ place[u] = "wheel"
    BY <1>2 DEF TypeOK
  <2> SUFFICES ASSUME NEW u \in Timer, place'[u] = "wheel", due[u] < lastTime
               PROVE  /\ Ahead(BucketIndexAt(due[u])) < ToGo
                      /\ Ahead(BucketIndexAt(due[u])) > 0
    BY <1>1 DEF Swept, In, Sweeping, wheel, Ahead, ToGo, BucketIndexAt
  <2>3. u # t
    BY <2>1 DEF TypeOK
  <2> QED
    BY <1>1, <2>2, <2>3 DEF Swept, In
<1>7. TimeoutOK'
  BY <1>1, <1>2 DEF TimeoutOK, In, Heeds, AfterFine, AfterReady, Sweeping, TypeOK
<1> QED
  BY <1>3, <1>4, <1>5, <1>6, <1>7

\* The sweep goes on with the next bucket, or has left nothing behind.
LEMMA NextBucketLoopInv == ASSUME LoopInv, NextBucket PROVE LoopInv'
<1> USE DEF LoopInv
<1>1. /\ pc = "bucket" /\ running = Nobody /\ In("tmp") = {}
      /\ UNCHANGED <<time, cache, due, place, queued, lastTime, empty, again, running, timeout>>
  BY DEF NextBucket, At
<1> DEFINE next == NextBucketIndex(bucket)
<1>2. /\ bucket \in 0..(NBuckets - 1) /\ endBucket \in 0..(NBuckets - 1)
      /\ next = IF bucket + 1 < NBuckets THEN bucket + 1 ELSE 0
  <2>1. bucket \in Nat /\ bucket \in 0..(NBuckets - 1) /\ endBucket \in 0..(NBuckets - 1)
        /\ 1 \in 0..(NBuckets - 1) /\ NBuckets \in Nat \ {0}
    BY WheelSize DEF TypeOK
  <2>2. bucket = NBuckets * 0 + bucket
    BY <2>1, WheelSize
  <2>3. bucket % NBuckets = bucket
    BY <2>1, <2>2, WheelSize, DivisionUnique
  <2>4. (bucket + 1) % NBuckets
           = IF (bucket % NBuckets) + 1 < NBuckets THEN (bucket % NBuckets) + 1
             ELSE (bucket % NBuckets) + 1 - NBuckets
    BY <2>1, ModPlus
  <2> QED
    BY <2>1, <2>3, <2>4 DEF NextBucketIndex
<1>3. \/ next = endBucket /\ pc' = "sleep" /\ bucket' = 0 /\ endBucket' = 0
      \/ next # endBucket /\ pc' = "buckets" /\ bucket' = next /\ endBucket' = endBucket
  BY DEF NextBucket
<1>4. TypeOK' /\ KindOK'
  <2>1. next \in 0..(NBuckets - 1) /\ 0 \in 0..(NBuckets - 1)
    BY <1>2, WheelSize
  <2> HIDE DEF next
  <2>2. TypeOK'
    BY <1>1, <1>2, <1>3, <2>1 DEF TypeOK
  <2> QED
    BY <1>1, <2>2 DEF KindOK
<1> HIDE DEF next
<1>5. ClocksOK'
  BY <1>1, <1>3 DEF ClocksOK, GetBucketStartTime, AfterFine, AfterReady, Sweeping
<1>6. ListsOK'
  BY <1>1, <1>3 DEF ListsOK, In, AfterReady, Sweeping
<1>7. Swept'
  <2>1. ASSUME NEW t \in Timer, place[t] = "wheel", due[t] < lastTime
        PROVE  /\ Ahead(BucketIndexAt(due[t])) < ToGo
               /\ Ahead(BucketIndexAt(due[t])) > 0
               /\ BucketIndexAt(due[t]) \in 0..(NBuckets - 1)
    <3>1. due[t] \in Nat
      BY DEF TypeOK
    <3> QED
      BY <1>1, <2>1, <3>1, BucketOf DEF Swept, In
  <2>2. CASE next = endBucket
    <3>1. ToGo = 1
      BY <1>2, <2>2, WheelSize DEF ToGo
    <3>2. \A t \in Timer : place[t] = "wheel" => ~(due[t] < lastTime)
      <4> SUFFICES ASSUME NEW t \in Timer, place[t] = "wheel", due[t] < lastTime PROVE FALSE
        OBVIOUS
      <4>1. Ahead(BucketIndexAt(due[t])) \in Int
        BY <1>2, <2>1, WheelSize DEF Ahead
      <4> QED
        BY <2>1, <3>1, <4>1
    <3> QED
      BY <1>1, <3>2 DEF Swept, In
  <2>3. CASE next # endBucket
    <3> SUFFICES ASSUME NEW t \in Timer, place[t] = "wheel", due[t] < lastTime
                 PROVE  Ahead(BucketIndexAt(due[t]))' < ToGo'
      BY <1>1, <1>3, <2>3 DEF Swept, In, Sweeping
    <3> DEFINE j == BucketIndexAt(due[t])
    <3>1. j \in 0..(NBuckets - 1) /\ Ahead(j) < ToGo /\ Ahead(j) > 0
      BY <2>1
    <3>2. Ahead(BucketIndexAt(due[t]))' = IF j >= next THEN j - next ELSE j - next + NBuckets
      BY <1>1, <1>3, <2>3 DEF Ahead, BucketIndexAt
    <3>3. ToGo' = IF endBucket > next THEN endBucket - next ELSE endBucket - next + NBuckets
      BY <1>3, <2>3 DEF ToGo
    <3> HIDE DEF j
    <3> QED
      BY <1>2, <2>3, <3>1, <3>2, <3>3, WheelSize DEF Ahead, ToGo
  <2> QED
    BY <2>2, <2>3
<1>8. TimeoutOK'
  BY <1>1, <1>3 DEF TimeoutOK, In, Heeds, AfterFine, AfterReady, Sweeping
<1> QED
  BY <1>4, <1>5, <1>6, <1>7, <1>8

\* GetNextDue() finds the bucket of every timer that is in the wheel and was not due before
\* the bucket of now, at its end at last.
LEMMA WalkFindsBucket ==
    ASSUME NEW now \in Nat, NEW at \in Nat, GetBucketStartTime(now) <= at
    PROVE  \E n \in 1..NBuckets :
              /\ (BucketIndexAt(now) + n - 1) % NBuckets = BucketIndexAt(at)
              /\ GetBucketStartTime(now) + n * Resolution <= GetBucketStartTime(at) + Resolution
<1>1. PICK q \in Nat : /\ BucketIndexAt(now) = q % NBuckets
                       /\ BucketIndexAt(now) \in 0..(NBuckets - 1)
                       /\ GetBucketStartTime(now) = Resolution * q
  BY BucketOf
<1>2. PICK r \in Nat : /\ BucketIndexAt(at) = r % NBuckets
                       /\ GetBucketStartTime(at) = Resolution * r
                       /\ at < GetBucketStartTime(at) + Resolution
  BY BucketOf
<1>3. q <= r
  BY <1>1, <1>2, BucketsInOrder
<1> DEFINE d == r - q
           m == d % NBuckets
           i == BucketIndexAt(now)
<1>4. d \in Nat /\ r = q + d
  BY <1>3
<1>5. /\ d = NBuckets * (d \div NBuckets) + m /\ m \in 0..(NBuckets - 1)
      /\ d \div NBuckets \in Nat
  BY <1>4, WheelSize, Division
<1>6. q = NBuckets * (q \div NBuckets) + i /\ q \div NBuckets \in Nat
  BY <1>1, WheelSize, Division
<1>7. (i + m) % NBuckets = r % NBuckets
  <2> DEFINE a == q \div NBuckets
             b == d \div NBuckets
             s == (i + m) % NBuckets
             c == (i + m) \div NBuckets
  <2>1. a \in Nat /\ b \in Nat /\ i \in Nat /\ m \in Nat /\ NBuckets \in Nat \ {0}
    BY <1>1, <1>5, <1>6, WheelSize
  <2>2. i + m = NBuckets * c + s /\ s \in 0..(NBuckets - 1) /\ c \in Nat
    <3> HIDE DEF i, m
    <3>1. i + m \in Nat
      BY <2>1
    <3> QED
      BY <2>1, <3>1, Division
  <2>3. r = (NBuckets * a + i) + (NBuckets * b + m)
    BY <1>4, <1>5, <1>6
  <2> HIDE DEF a, b, c, s, i, m
  <2>4. NBuckets * (a + b + c) = NBuckets * a + NBuckets * b + NBuckets * c
    BY <2>1, <2>2
  <2>5. r = NBuckets * (a + b + c) + s /\ a + b + c \in Nat
    BY <2>1, <2>2, <2>3, <2>4
  <2>6. r % NBuckets = s
    BY <2>1, <2>2, <2>5, DivisionUnique
  <2> QED
    BY <2>6 DEF s
<1>8. Resolution * q + (m + 1) * Resolution <= Resolution * r + Resolution
  <2>1. m <= d /\ m \in Nat
    BY <1>4, <1>5, WheelSize
  <2> HIDE DEF m, d
  <2>2. d = m \/ Resolution * m + Resolution <= Resolution * d
    BY <1>4, <2>1, WheelSize, MultiplesApart
  <2>3. Resolution * r = Resolution * q + Resolution * d
    BY <1>4, WheelSize
  <2>4. (m + 1) * Resolution = Resolution * m + Resolution
    BY <2>1, WheelSize
  <2>5. {Resolution * m, Resolution * d, Resolution * q, Resolution} \subseteq Nat
    BY <1>4, <2>1, WheelSize
  <2> QED
    BY <2>2, <2>3, <2>4, <2>5
<1>9. m + 1 \in 1..NBuckets /\ i + (m + 1) - 1 = i + m
  BY <1>1, <1>5, WheelSize
<1> QED
  BY <1>1, <1>2, <1>7, <1>8, <1>9

\* The wheel's timeout is not later than the end of the first bucket with a timer.
LEMMA SleepIsShort ==
    ASSUME LoopInv, pc = "sleep"
    PROVE  /\ GetSleep(cache) \in -1..Span
           /\ \A t \in In("wheel") : /\ GetSleep(cache) >= 0
                                     /\ cache + GetSleep(cache) <= Deadline(t, due[t])
           /\ BucketsAhead(cache) = {} => In("wheel") = {}
<1> USE DEF LoopInv
<1>1. /\ cache \in Nat /\ lastTime = GetBucketStartTime(cache) /\ lastTime \in Nat
      /\ cache < lastTime + Resolution /\ lastTime <= cache
  <2>1. cache \in Nat /\ lastTime = GetBucketStartTime(cache)
    BY DEF TypeOK, ClocksOK
  <2> QED
    BY <2>1, BucketOf
<1> DEFINE S == BucketsAhead(cache)
           start == GetBucketStartTime(cache)
<1>2. S \in SUBSET Nat /\ S \subseteq 1..NBuckets
  BY WheelSize DEF BucketsAhead
<1>3. ASSUME NEW t \in In("wheel")
      PROVE  \E n \in S : /\ start + n * Resolution <= Deadline(t, due[t])
                          /\ n \in 1..NBuckets /\ Deadline(t, due[t]) \in Nat
  <2>1. t \in Timer /\ due[t] \in Nat /\ t \notin Fine /\ start <= due[t]
    BY <1>1 DEF In, TypeOK, KindOK, Swept, Sweeping
  <2>2. PICK n \in 1..NBuckets :
           /\ (BucketIndexAt(cache) + n - 1) % NBuckets = BucketIndexAt(due[t])
           /\ start + n * Resolution <= GetBucketStartTime(due[t]) + Resolution
    BY <1>1, <2>1, WalkFindsBucket
  <2>3. n \in S
    BY <2>1, <2>2 DEF BucketsAhead, InBucket
  <2>4. GetBucketStartTime(due[t]) + Resolution \in Nat
    <3>1. GetBucketStartTime(due[t]) \in Nat
      BY <2>1, BucketOf
    <3> QED
      BY <3>1, WheelSize
  <2> QED
    BY <2>1, <2>2, <2>3, <2>4 DEF Deadline
<1>4. S = {} => In("wheel") = {}
  BY <1>3
<1>5. CASE empty \/ S = {}
  <2>1. In("wheel") = {}
    BY <1>4, <1>5 DEF ListsOK
  <2>2. GetSleep(cache) = -1
    BY <1>5 DEF GetSleep
  <2> QED
    BY <2>1, <2>2, WheelSize
<1>6. CASE ~empty /\ S # {}
  <2>1. GetSleep(cache) = start + Min(S) * Resolution - cache
    BY <1>6 DEF GetSleep
  <2>2. Min(S) \in S /\ \A x \in S : Min(S) <= x
    <3> HIDE DEF S
    <3> QED
      BY <1>2, <1>6, MinIsLeast
  <2> DEFINE m == Min(S)
             w == m * Resolution
  <2>3. m \in 1..NBuckets
    BY <1>2, <2>2
  <2>4. w \in Nat /\ w >= Resolution /\ w <= Span
    <3> HIDE DEF m
    <3>1. m = 1 \/ Resolution * 1 + Resolution <= Resolution * m
      BY <2>3, WheelSize, MultiplesApart
    <3>2. m = NBuckets \/ Resolution * m + Resolution <= Resolution * NBuckets
      BY <2>3, WheelSize, MultiplesApart
    <3>3. m * Resolution = Resolution * m /\ m * Resolution \in Nat /\ Resolution \in Nat
      BY <2>3, WheelSize
    <3> QED
      BY <3>1, <3>2, <3>3, WheelSize
  <2>5. GetSleep(cache) = start + w - cache
    BY <2>1
  <2>6. ASSUME NEW t \in In("wheel")
        PROVE  start + w <= Deadline(t, due[t]) /\ Deadline(t, due[t]) \in Nat
    <3>1. PICK n \in S : /\ start + n * Resolution <= Deadline(t, due[t])
                         /\ n \in 1..NBuckets /\ Deadline(t, due[t]) \in Nat
      BY <1>3
    <3>2. m <= n
      BY <2>2
    <3> HIDE DEF m, S
    <3>3. m = n \/ Resolution * m + Resolution <= Resolution * n
      BY <2>3, <3>1, <3>2, WheelSize, MultiplesApart
    <3>4. m * Resolution = Resolution * m /\ n * Resolution = Resolution * n
          /\ {m * Resolution, n * Resolution} \subseteq Nat
      BY <2>3, <3>1, WheelSize
    <3>5. w <= n * Resolution
      BY <3>3, <3>4, WheelSize
    <3> QED
      BY <1>1, <2>4, <3>1, <3>4, <3>5
  <2> HIDE DEF w, S, m
  <2>7. start + w - cache \in 0..Span
    BY <1>1, <2>4, WheelSize
  <2> QED
    BY <1>1, <1>6, <2>4, <2>5, <2>6, <2>7 DEF S
<1> QED
  BY <1>5, <1>6

\* The smaller of two timeouts serves both.
LEMMA EarlierTimeout ==
    ASSUME NEW a \in Int, NEW b \in Int, a >= -1, b >= -1
    PROVE  LET e == GetEarlierTimeout(a, b)
           IN  e \in {a, b} /\ (a >= 0 => 0 <= e /\ e <= a) /\ (b >= 0 => 0 <= e /\ e <= b)
BY DEF GetEarlierTimeout

\* HandleTimers() has a timeout that is early enough for every timer.
LEMMA HandleTimersLoopInv == ASSUME LoopInv, HandleTimers PROVE LoopInv'
<1> USE DEF LoopInv
<1> DEFINE sleep == GetSleep(cache)
<1>1. /\ pc = "sleep" /\ pc' = "defer" /\ running = Nobody
      /\ timeout' = GetEarlierTimeout(sleep, timeout)
      /\ (empty' = (empty \/ BucketsAhead(cache) = {}))
      /\ UNCHANGED <<time, cache, due, place, queued, lastTime, again, running, bucket, endBucket>>
  BY DEF HandleTimers, At
<1>2. /\ sleep \in -1..Span
      /\ \A t \in In("wheel") : sleep >= 0 /\ cache + sleep <= Deadline(t, due[t])
      /\ BucketsAhead(cache) = {} => In("wheel") = {}
  BY <1>1, SleepIsShort
<1> HIDE DEF sleep
<1>3. timeout \in -1..MaxTime + Span /\ cache \in Nat
  BY DEF TypeOK
<1>4. /\ timeout' \in {sleep, timeout}
      /\ sleep >= 0 => 0 <= timeout' /\ timeout' <= sleep
      /\ timeout >= 0 => 0 <= timeout' /\ timeout' <= timeout
  BY <1>1, <1>2, <1>3, EarlierTimeout, WheelSize
<1>5. TypeOK' /\ KindOK'
  <2>1. timeout' \in -1..MaxTime + Span /\ empty' \in BOOLEAN
    BY <1>1, <1>2, <1>3, <1>4, WheelSize
  <2>2. TypeOK'
    BY <1>1, <2>1 DEF TypeOK
  <2> QED
    BY <1>1, <2>2 DEF KindOK
<1>6. ClocksOK'
  BY <1>1 DEF ClocksOK, AfterFine, AfterReady, Sweeping
<1>7. ListsOK' /\ Swept'
  BY <1>1, <1>2 DEF ListsOK, Swept, In, AfterReady, Sweeping
<1>8. \A t \in Timer : Deadline(t, due[t]) \in Int
  BY BucketOf, WheelSize DEF Deadline, TypeOK
<1>9. TimeoutOK'
  <2>1. ASSUME NEW t \in In("fine"), ~again PROVE timeout' >= 0 /\ cache + timeout' <= Deadline(t, due[t])
    <3>1. timeout >= 0 /\ cache + timeout <= Deadline(t, due[t]) /\ t \in Timer
      BY <1>1, <2>1 DEF TimeoutOK, Heeds, AfterFine, AfterReady, In
    <3> QED
      BY <1>2, <1>3, <1>4, <1>8, <3>1
  <2>2. ASSUME NEW t \in In("wheel") PROVE timeout' >= 0 /\ cache + timeout' <= Deadline(t, due[t])
    <3>1. sleep >= 0 /\ cache + sleep <= Deadline(t, due[t]) /\ t \in Timer
      BY <1>2 DEF In
    <3> QED
      BY <1>2, <1>3, <1>4, <1>8, <3>1
  <2>3. \A t \in Timer : Deadline(t, due[t])' = Deadline(t, due[t])
    BY <1>1 DEF Deadline, GetBucketStartTime
  <2> QED
    BY <1>1, <2>1, <2>2, <2>3 DEF TimeoutOK, Heeds, In
<1> QED
  BY <1>5, <1>6, <1>7, <1>9

\* A step of the loop that calls an event, or nothing, and leaves the timers alone.
LEMMA QuietLoopInv ==
    ASSUME LoopInv, RunDeferred \/ RunOneIdle \/ Dispatch
    PROVE  LoopInv'
<1> USE DEF LoopInv
<1>1. /\ UNCHANGED <<time, cache, due, place, wheel, again>>
      /\ \/ pc = "defer" /\ pc' = "defer" /\ timeout' = timeout
         \/ pc \in {"defer", "sockets"} /\ pc' \in {"loop", "sockets"} /\ timeout' \in {-1, timeout}
      /\ running' \in Timer \cup Event \cup {Socket, Nobody}
      /\ queued' \in [Event -> {"none", "defer", "idle", "next"}]
  BY DEF RunDeferred, RunOneIdle, Dispatch, RunEvent, At, TypeOK
<1>2. TypeOK'
  BY <1>1, WheelSize DEF TypeOK, wheel
<1>3. KindOK' /\ ListsOK' /\ Swept'
  BY <1>1 DEF KindOK, ListsOK, Swept, In, wheel, AfterReady, Sweeping
<1>4. ClocksOK'
  BY <1>1 DEF ClocksOK, wheel, AfterFine, AfterReady, Sweeping
<1>5. TimeoutOK'
  BY <1>1 DEF TimeoutOK, In, Heeds, wheel, AfterFine, AfterReady, Sweeping
<1> QED
  BY <1>2, <1>3, <1>4, <1>5

\* The loop polls only when nothing is left to do and nothing new was scheduled.
LEMMA BeforeWaitLoopInv == ASSUME LoopInv, BeforeWait PROVE LoopInv'
<1> USE DEF LoopInv
<1>1. /\ pc = "defer" /\ running = Nobody
      /\ \A e \in Event : queued[e] \notin {"defer", "idle"}
      /\ UNCHANGED <<time, cache, due, place, queued, wheel, again, running>>
      /\ \/ again /\ pc' = "loop" /\ timeout' = -1
         \/ /\ ~again /\ pc' = "wait"
            /\ timeout' = IF \E e \in Event : queued[e] = "next" THEN 0 ELSE timeout
  BY DEF BeforeWait, At, TypeOK
<1>2. TypeOK'
  BY <1>1, WheelSize DEF TypeOK, wheel
<1>3. KindOK' /\ ListsOK' /\ Swept'
  BY <1>1 DEF KindOK, ListsOK, Swept, In, wheel, AfterReady, Sweeping
<1>4. ClocksOK'
  BY <1>1 DEF ClocksOK, wheel, AfterFine, AfterReady, Sweeping
<1>5. \A t \in Timer : Deadline(t, due[t]) \in Int /\ Deadline(t, due[t])' = Deadline(t, due[t])
  BY <1>1, BucketOf, WheelSize DEF Deadline, TypeOK, GetBucketStartTime
<1>6. cache \in Nat /\ timeout \in Int
  BY WheelSize DEF TypeOK
<1>7. TimeoutOK'
  BY <1>1, <1>5, <1>6 DEF TimeoutOK, TypeOK, In, Heeds, AfterFine, AfterReady, Sweeping
<1> QED
  BY <1>2, <1>3, <1>4, <1>7

\* The poll moves the clock and lets the loop begin again.
LEMMA WaitLoopInv == ASSUME LoopInv, Wait PROVE LoopInv'
<1> USE DEF LoopInv
<1>1. /\ pc = "wait" /\ pc' \in {"sockets", "loop"} /\ time' \in time..MaxTime
      /\ cache' = 0 /\ timeout' = -1
      /\ queued' = [e \in Event |-> IF queued[e] = "next" THEN "idle" ELSE queued[e]]
      /\ UNCHANGED <<due, place, wheel, again, running>>
  BY DEF Wait, At
<1>2. time' \in Nat /\ time <= time' /\ lastTime \in Nat /\ time \in Nat
  BY <1>1 DEF TypeOK
<1>3. TypeOK'
  BY <1>1, <1>2, WheelSize DEF TypeOK, wheel
<1>4. KindOK' /\ ListsOK' /\ Swept' /\ TimeoutOK'
  BY <1>1 DEF KindOK, ListsOK, Swept, TimeoutOK, In, wheel, AfterFine, AfterReady, Sweeping
<1>5. ClocksOK'
  BY <1>1, <1>2 DEF ClocksOK, wheel, AfterFine, AfterReady, Sweeping
<1> QED
  BY <1>3, <1>4, <1>5

\* Every step of the program preserves LoopInv.
LEMMA StepLoopInv == LoopInv /\ [Next]_vars => LoopInv'
<1> SUFFICES ASSUME LoopInv, [Next]_vars PROVE LoopInv'
  OBVIOUS
<1>1. CASE Callback
  BY <1>1, CallbackLoopInv
<1>2. CASE RunFine \/ RunReady \/ RunBucket
  <2>1. PICK t \in Timer : RunTimer(t) /\ pc # "wait"
    BY <1>2 DEF RunFine, RunReady, RunBucket, In, At
  <2> QED
    BY <2>1, UnlinkLoopInv DEF RunTimer
<1>3. CASE RunDeferred \/ RunOneIdle \/ Dispatch
  BY <1>3, QuietLoopInv
<1>4. CASE \/ Iterate \/ FineDone \/ FindBuckets \/ TakeBucket \/ KeepTimer \/ NextBucket
           \/ HandleTimers \/ BeforeWait \/ Wait
  BY <1>4, IterateLoopInv, FineDoneLoopInv, FindBucketsLoopInv, TakeBucketLoopInv,
     KeepTimerLoopInv, NextBucketLoopInv, HandleTimersLoopInv, BeforeWaitLoopInv, WaitLoopInv
<1>5. CASE UNCHANGED vars
  BY <1>5 DEF vars, LoopInv, TypeOK, KindOK, ClocksOK, ListsOK, Swept, TimeoutOK, In, Heeds,
              Ahead, ToGo
<1> QED
  BY <1>1, <1>2, <1>3, <1>4, <1>5 DEF Next

\* LoopInv says what LoopSound says.
LEMMA LoopInvIsSound == LoopInv => LoopSound
<1> SUFFICES ASSUME LoopInv PROVE LoopSound
  OBVIOUS
<1> USE DEF LoopInv
<1>1. NeverOversleeps
  <2> SUFFICES ASSUME pc = "wait", running = Nobody PROVE NeverOversleeps
    BY DEF NeverOversleeps, At
  <2>1. ASSUME NEW t \in Timer, place[t] # "none" PROVE place[t] \in {"fine", "wheel"}
    BY <2>1 DEF ListsOK, TypeOK, In, AfterReady
  <2> QED
    BY <2>1 DEF NeverOversleeps, TimeoutOK, ListsOK, Heeds, In, AfterFine, AfterReady
<1>2. WheelSound
  <2>1. \A t \in In("wheel") : due[t] \in Nat /\ lastTime \in Nat
    BY DEF In, TypeOK
  <2> QED
    BY <2>1 DEF WheelSound, ListsOK, Swept, Sweeping
<1> QED
  BY <1>1, <1>2 DEF LoopSound

\* Nothing is slept over and nothing is left behind in the wheel: whatever the size of the
\* wheel, the delays, the lateness of polls and the time callbacks take, and whatever they
\* schedule and cancel while TimerWheel::Run() sweeps.
THEOREM LoopIsSound == Spec => []LoopSound
BY InitLoopInv, StepLoopInv, LoopInvIsSound, PTL DEF Spec

-----------------------------------------------------------------------------
(* EventLoop implements TimerSet, when callbacks take no time and polls    *)
(* are not late.                                                           *)

\* What the abstract loop sees of the timers.
Pending == [t \in Timer |-> IF place[t] = "none" THEN -1 ELSE due[t]]
Firing == IF running \in Timer THEN running ELSE Nobody

\* The cached clock is right, unless it has been flushed.
CacheFresh == cache \in {0, time}

\* A step of the loop keeps the cached clock right: only the poll takes time.
LEMMA StepCacheFresh ==
    ASSUME ~Slow, LoopInv, CacheFresh, [Next]_vars
    PROVE  CacheFresh'
<1> USE DEF CacheFresh
<1>1. SteadyNow = time \/ SteadyNow = cache
  BY DEF SteadyNow
<1>2. CASE Callback
  BY <1>1, <1>2 DEF Callback, Block, Return, Schedule, SteadyNow, Cancel, Defer
<1>3. CASE Iterate
  BY <1>3 DEF Iterate, SteadyNow
<1>4. CASE Wait
  BY <1>4 DEF Wait
<1>5. CASE \/ RunFine \/ FineDone \/ RunReady \/ FindBuckets \/ TakeBucket \/ RunBucket \/ KeepTimer
           \/ NextBucket \/ HandleTimers \/ RunDeferred \/ RunOneIdle \/ BeforeWait \/ Dispatch
           \/ UNCHANGED vars
  BY <1>5 DEF RunFine, FineDone, RunReady, FindBuckets, TakeBucket, RunBucket, RunTimer, KeepTimer,
              NextBucket, HandleTimers, RunDeferred, RunOneIdle, RunEvent, BeforeWait, Dispatch, vars
<1> QED
  BY <1>2, <1>3, <1>4, <1>5 DEF Next

\* An initial state of the loop is one of the abstract loop.
LEMMA InitRefines == Init => Timers!Init
<1> SUFFICES ASSUME Init PROVE Timers!Init
  OBVIOUS
<1>1. Socket \notin Timer /\ time \in Nat
  BY ConstantsAssumption DEF Init
<1> QED
  BY <1>1 DEF Init, Timers!Init, Timers!Stopped

\* Steps that move timers between lists, or none, are not seen.
LEMMA Unseen ==
    ASSUME UNCHANGED <<time, Pending, Firing>>
    PROVE  UNCHANGED <<time, [t \in Timer |-> IF place[t] = "none" THEN -1 ELSE due[t]],
                       IF running \in Timer THEN running ELSE Nobody>>
BY DEF Pending, Firing

\* A timer that is run fires.
LEMMA RunTimerFires ==
    ASSUME LoopInv, NEW t \in Timer, RunTimer(t), running = Nobody, place[t] # "none",
           due[t] <= time
    PROVE  Timers!Fire(t)
<1>1. Nobody \notin Timer /\ due[t] # -1
  BY ConstantsAssumption DEF LoopInv, TypeOK
<1>2. Pending' = [Pending EXCEPT ![t] = -1]
  BY DEF Pending, RunTimer, Unlink, LoopInv, TypeOK
<1>3. time' = time /\ running' = t
  BY DEF RunTimer
<1> QED
  BY <1>1, <1>2, <1>3 DEF Timers!Fire, Timers!IsPending, Timers!Stopped, Pending

\* A step of the loop is a step of the abstract loop, or not seen by it.
LEMMA StepRefines ==
    ASSUME ~Slow, Late = {0}, IInv, LoopInv, CacheFresh, [Next]_vars
    PROVE  Timers!Next \/ UNCHANGED <<time, Pending, Firing>>
<1> USE DEF LoopInv
<1>0. Nobody \notin Timer /\ Socket \notin Timer /\ \A e \in Event : e \notin Timer
  BY ConstantsAssumption
<1>1. ASSUME NEW t \in Timer, Schedule(t) PROVE Timers!Schedule(t)
  <2>1. PICK d \in Nat :
           /\ due' = [due EXCEPT ![t] = time + d]
           /\ place' = [place EXCEPT ![t] = IF t \in Fine THEN "fine"
                                            ELSE IF d > 0 THEN "wheel" ELSE "ready"]
    <3>1. SteadyNow = time
      BY DEF SteadyNow, CacheFresh
    <3> QED
      BY <1>1, <3>1, ConstantsAssumption DEF Schedule
  <2>2. UNCHANGED <<time, running>>
    BY <1>1 DEF Schedule
  <2>3. Pending' = [Pending EXCEPT ![t] = time + d]
    BY <2>1 DEF Pending, TypeOK
  <2>4. Pending'[t] = time + d /\ time + d >= time
    BY <2>3 DEF Pending, TypeOK
  <2>5. Pending'[t] >= time /\ Pending' = [Pending EXCEPT ![t] = Pending'[t]]
    BY <2>3, <2>4
  <2> QED
    BY <2>2, <2>5, Zenon DEF Timers!Schedule, Pending
<1>2. ASSUME NEW t \in Timer, Cancel(t) PROVE Timers!Cancel(t)
  <2>1. Pending' = [Pending EXCEPT ![t] = -1] /\ UNCHANGED <<time, running>>
    BY <1>2 DEF Cancel, Unlink, Pending, TypeOK
  <2>2. Pending[t] # -1
    BY <1>2 DEF Cancel, Pending, TypeOK
  <2> QED
    BY <2>1, <2>2 DEF Timers!Cancel, Timers!IsPending, Timers!Stopped, Pending
<1>3. CASE Return
  BY <1>0, <1>3 DEF Return, Timers!Next, Timers!Return
<1>4. ASSUME NEW e \in Event, Defer(e) PROVE UNCHANGED <<time, Pending, Firing>>
  BY <1>4 DEF Defer, Pending, Firing
<1>5. CASE Callback
  BY <1>1, <1>2, <1>3, <1>4, <1>5 DEF Callback, Block, Timers!Next
<1>6. CASE RunFine \/ RunReady \/ RunBucket
  <2>1. PICK t \in Timer : RunTimer(t) /\ running = Nobody /\ place[t] # "none" /\ due[t] <= time
    <3>1. CASE RunFine
      BY <3>1 DEF RunFine, At, In, TypeOK
    <3>2. CASE RunReady
      BY <3>2 DEF RunReady, At, In, IInv, ReadyIsDue
    <3>3. CASE RunBucket
      BY <3>3 DEF RunBucket, At, In, TypeOK
    <3> QED
      BY <1>6, <3>1, <3>2, <3>3
  <2> QED
    BY <2>1, RunTimerFires DEF Timers!Next
<1>7. CASE RunDeferred \/ RunOneIdle \/ Dispatch
  BY <1>0, <1>7 DEF RunDeferred, RunOneIdle, RunEvent, Dispatch, At, Pending, Firing
<1>8. CASE TakeBucket
  <2>1. place' = [t \in Timer |-> IF t \in InBucket(bucket) THEN "tmp" ELSE place[t]]
        /\ UNCHANGED <<time, due, running>>
    BY <1>8 DEF TakeBucket
  <2>2. \A t \in InBucket(bucket) : place[t] # "none"
    BY DEF InBucket, In
  <2> QED
    BY <2>1, <2>2 DEF Pending, Firing
<1>9. CASE KeepTimer
  BY <1>9 DEF KeepTimer, In, Pending, Firing, TypeOK
<1>10. CASE \/ Iterate \/ FineDone \/ FindBuckets \/ NextBucket \/ HandleTimers \/ BeforeWait
            \/ UNCHANGED vars
  BY <1>10 DEF Iterate, FineDone, FindBuckets, NextBucket, HandleTimers, BeforeWait, vars, Pending, Firing
<1>11. CASE Wait
  <2>1. At("wait") /\ UNCHANGED <<due, place, running>>
    BY <1>11 DEF Wait
  <2>2. cache = time
    BY <2>1 DEF At, CacheFresh, ClocksOK, AfterFine, AfterReady
  <2>3. time' \in Nat /\ time' >= time /\ (timeout >= 0 => time' <= time + timeout)
    BY <1>11, WheelSize DEF Wait, TypeOK
  <2>4. ASSUME NEW t \in Timer, place[t] # "none" PROVE time' <= Deadline(t, due[t])
    <3>1. timeout >= 0 /\ time + timeout <= Deadline(t, due[t])
      BY <2>1, <2>2, <2>4, LoopInvIsSound DEF LoopSound, NeverOversleeps
    <3>2. Deadline(t, due[t]) \in Int /\ timeout \in Int /\ time \in Nat
      BY BucketOf, WheelSize DEF Deadline, TypeOK
    <3> QED
      BY <2>3, <3>1, <3>2
  <2>5. Timers!Sleep
    BY <1>0, <2>1, <2>3, <2>4 DEF At, Timers!Sleep, Timers!IsPending, Timers!Stopped, TypeOK
  <2> QED
    BY <2>5 DEF Timers!Next
<1> QED
  BY <1>5, <1>6, <1>7, <1>8, <1>9, <1>10, <1>11 DEF Next

\* The wheel with its buckets, the ordered list, the cached clock and the computed timeouts
\* are a set of timers of which none fires early and none is slept over.
THEOREM LoopRefinesTimerSet ==
    ASSUME ~Slow, Late = {0}
    PROVE  Spec => ImplementsTimerSet
<1>1. Init => CacheFresh
  BY DEF Init, CacheFresh
<1>2. LoopInv /\ CacheFresh /\ [Next]_vars => CacheFresh'
  BY StepCacheFresh
<1>3. IInv /\ LoopInv /\ CacheFresh /\ [Next]_vars
         => [Timers!Next]_<<time, [t \in Timer |-> IF place[t] = "none" THEN -1 ELSE due[t]],
                            IF running \in Timer THEN running ELSE Nobody>>
  BY StepRefines, Unseen
<1> QED
  BY <1>1, <1>2, <1>3, InitRefines, InitLoopInv, StepLoopInv, SpecImpliesIInv, PTL
     DEF Spec, ImplementsTimerSet, Timers!Spec
=============================================================================
