-------------------------- MODULE QueueSync_proofs --------------------------
(***************************************************************************)
(* Proofs about QueueSync, for any set of songs, any bounds, any commands. *)
(*                                                                         *)
(* The inductive invariant is Inv: the types and ReplicaInv.  The types    *)
(* need ReplicaInv ("plchanges" yields songs only because a new position   *)
(* is always behind the known ones), so the two are proved together.       *)
(***************************************************************************)
EXTENDS QueueSync, FiniteSetTheorems, TLAPS

Inv == TypeOK /\ ReplicaInv

-----------------------------------------------------------------------------
(* Queues.                                                                 *)

\* A queue is a sequence of songs without repetitions.
LEMMA QueueFacts ==
    ASSUME NEW q \in Queues
    PROVE  /\ q \in Seq(Song)
           /\ Len(q) \in Nat /\ DOMAIN q = 1..Len(q)
           /\ \A i \in 1..Len(q) : q[i] \in Song
           /\ \A i, j \in 1..Len(q) : q[i] = q[j] => i = j
<1>1. PICK n \in 0..MaxLength : q \in [1..n -> Song]
  BY DEF Queues
<1>2. MaxLength \in Nat
  BY ConstantsAssumption
<1>3. n \in Nat
  BY <1>1, <1>2
<1>4. q \in Seq(Song) /\ Len(q) = n /\ DOMAIN q = 1..n
  BY <1>1, <1>3
<1> QED
  BY <1>1, <1>3, <1>4 DEF Queues

\* PosOf finds a song of the sequence, and -1 for any other.
LEMMA PosOfFacts ==
    ASSUME NEW q \in Seq(Song), NEW s
    PROVE  /\ PosOf(q, s) \in Int
           /\ s \in Songs(q) =>
                /\ PosOf(q, s) + 1 \in 1..Len(q)
                /\ q[PosOf(q, s) + 1] = s
           /\ s \notin Songs(q) => PosOf(q, s) = -1
<1>1. CASE s \notin Songs(q)
  BY <1>1 DEF PosOf
<1>2. CASE s \in Songs(q)
  <2>1. \E i \in DOMAIN q : q[i] = s
    BY <1>2 DEF Songs
  <2> DEFINE i == CHOOSE i \in DOMAIN q : q[i] = s
  <2>2. i \in DOMAIN q /\ q[i] = s
    BY <2>1
  <2>3. PosOf(q, s) = i - 1
    BY <1>2 DEF PosOf
  <2>4. i \in 1..Len(q)
    BY <2>2
  <2> HIDE DEF i
  <2> QED
    BY <1>2, <2>2, <2>3, <2>4
<1> QED
  BY <1>1, <1>2

\* GetChecked returns a song or null.
LEMMA GetCheckedType ==
    ASSUME NEW q \in Seq(Song), NEW pos \in Int
    PROVE  GetChecked(q, pos) \in Song \cup {NoSong}
  BY DEF GetChecked

\* ... and so does the end of Update().
LEMMA UpdateCurrentType ==
    ASSUME NEW q \in Seq(Song), NEW old \in Song \cup {NoSong}, NEW st \in Statuses
    PROVE  UpdateCurrent(q, old, st) \in Song \cup {NoSong}
<1>1. st.pos \in Int
  BY DEF Statuses
<1> QED
  BY <1>1, GetCheckedType DEF UpdateCurrent

\* The songs before, at and behind a position in a closed-form deletion.
LEMMA WithoutRangeFacts ==
    ASSUME NEW q \in Seq(Song), NEW lo \in Nat, NEW hi \in Nat,
           lo <= hi, hi <= Len(q)
    PROVE  /\ WithoutRange(q, lo, hi) \in Seq(Song)
           /\ Len(WithoutRange(q, lo, hi)) = Len(q) - (hi - lo)
<1> DEFINE n == Len(q) - (hi - lo)
           f == [p \in 1..n |-> IF p <= lo THEN q[p] ELSE q[p + (hi - lo)]]
<1>1. n \in Nat
  OBVIOUS
<1>2. f \in [1..n -> Song]
  OBVIOUS
<1>3. WithoutRange(q, lo, hi) = f
  BY DEF WithoutRange
<1> HIDE DEF f, n
<1>4. f \in Seq(Song) /\ Len(f) = n
  BY <1>1, <1>2
<1> QED
  BY <1>3, <1>4 DEF n

\* MpdQueue::Move() shifts the songs exactly as MPD's "move" does.
LEMMA MoveIsServerMove ==
    ASSUME NEW q \in Seq(Song), NEW dest \in Nat, NEW src \in Nat,
           dest < Len(q), src < Len(q), dest # src
    PROVE  Move(q, dest, src) = ServerMove(q, dest, src)
<1> DEFINE rest == WithoutRange(q, src, src + 1)
           m(p) == IF p = dest + 1 THEN q[src + 1]
                   ELSE IF src < dest /\ src + 1 <= p /\ p <= dest THEN q[p + 1]
                   ELSE IF dest < src /\ dest + 2 <= p /\ p <= src + 1 THEN q[p - 1]
                   ELSE q[p]
           s(p) == IF p <= dest THEN rest[p]
                   ELSE IF p = dest + 1 THEN q[src + 1]
                   ELSE rest[p - 1]
<1>1. \A p \in 1..(Len(q) - 1) : rest[p] = IF p <= src THEN q[p] ELSE q[p + 1]
  BY DEF WithoutRange
<1>2. ASSUME NEW p \in 1..Len(q)
      PROVE  m(p) = s(p)
  <2> HIDE DEF rest
  <2>1. CASE p <= dest
    BY <2>1, <1>1
  <2>2. CASE p = dest + 1
    BY <2>2
  <2>3. CASE p > dest + 1
    BY <2>3, <1>1
  <2> QED
    BY <2>1, <2>2, <2>3
<1>3. Move(q, dest, src) = [p \in 1..Len(q) |-> m(p)]
  BY DEF Move
<1>4. ServerMove(q, dest, src) = [p \in 1..Len(q) |-> s(p)]
  BY DEF ServerMove
<1> HIDE DEF m, s
<1> QED
  BY <1>2, <1>3, <1>4
-----------------------------------------------------------------------------
(* "plchanges".                                                            *)

\* Counting through an interval.
LEMMA NthSmallestOfInterval ==
    ASSUME NEW a \in Int, NEW b \in Int, NEW n \in 1..(b - a + 1)
    PROVE  NthSmallest(a..b, n) = a + n - 1
<1>1. \A p \in a..b : Cardinality({r \in a..b : r <= p}) = p - a + 1
  <2> SUFFICES ASSUME NEW p \in a..b
               PROVE  Cardinality({r \in a..b : r <= p}) = p - a + 1
    OBVIOUS
  <2>1. {r \in a..b : r <= p} = a..p
    OBVIOUS
  <2>2. Cardinality(a..p) = p - a + 1
    BY FS_Interval
  <2> QED
    BY <2>1, <2>2
<1>2. a + n - 1 \in a..b
  OBVIOUS
<1>3. \A p \in a..b : Cardinality({r \in a..b : r <= p}) = n <=> p = a + n - 1
  BY <1>1
<1> QED
  BY <1>2, <1>3 DEF NthSmallest

\* When the replica covers its version and the length in the status covers
\* the status's version, the changes bring the replica to that version.
LEMMA AppliedChangesCorrect ==
    ASSUME TypeOK, status \in Statuses,
           Covers(version, items),
           \A p \in 1..Len(squeue) : sstamp[p] <= status.version => p <= status.length,
           version <= status.version,
           status.version = sversion => status.length = Len(squeue)
    PROVE  /\ AppliedChanges \in Seq(Song)
           /\ Covers(status.version, AppliedChanges)
           /\ status.version = sversion => Len(AppliedChanges) = Len(squeue)
<1> DEFINE n == Len(items)
           m == Len(squeue)
           new == {p \in Changes(version) : p > n}
           k == Smaller(n + Cardinality(new), status.length)
           song(p) == IF p > n THEN squeue[NthSmallest(new, p - n)]
                      ELSE IF p \in Changes(version) THEN squeue[p]
                      ELSE items[p]
<1>1. /\ squeue \in Seq(Song) /\ m \in Nat
      /\ \A p \in 1..m : squeue[p] \in Song
  BY QueueFacts DEF TypeOK
<1>2. /\ n \in Nat /\ version \in Nat /\ sversion \in Nat
      /\ \A p \in 1..n : items[p] \in Song
      /\ \A p \in 1..m : sstamp[p] \in Nat
  BY ConstantsAssumption, SMTT(60) DEF TypeOK
<1>3. status.length \in Nat /\ status.version \in Nat
  BY DEF Statuses
<1>4. new = (n + 1)..m
  <2>1. \A p \in 1..m : p > n => sstamp[p] > version
    BY <1>1, <1>2 DEF Covers
  <2> QED
    BY <1>1, <1>2, <2>1 DEF Changes
<1>5. Cardinality(new) = IF n < m THEN m - n ELSE 0
  <2>1. Cardinality((n + 1)..m) = IF n + 1 > m THEN 0 ELSE m - (n + 1) + 1
    <3>1. n + 1 \in Int /\ m \in Int
      BY <1>1, <1>2
    <3> HIDE DEF n, m
    <3> QED
      BY <3>1, FS_Interval, Zenon
  <2>2. Cardinality((n + 1)..m) = IF n < m THEN m - n ELSE 0
    BY <1>1, <1>2, <2>1
  <2> QED
    BY <1>4, <2>2
<1>6. \A p \in (n + 1)..m : NthSmallest(new, p - n) = p
  <2> SUFFICES ASSUME NEW p \in (n + 1)..m
               PROVE  NthSmallest((n + 1)..m, p - n) = p
    BY <1>4
  <2>1. p - n \in 1..(m - (n + 1) + 1)
    BY <1>1, <1>2
  <2>2. NthSmallest((n + 1)..m, p - n) = (n + 1) + (p - n) - 1
    BY <1>1, <1>2, <2>1, NthSmallestOfInterval
  <2> QED
    BY <1>1, <1>2, <2>2
<1>7. AppliedChanges = [p \in 1..k |-> song(p)]
  BY DEF AppliedChanges
<1>8. /\ k \in Nat
      /\ n < m => k = Smaller(m, status.length)
      /\ ~(n < m) => k = Smaller(n, status.length)
  <2>1. CASE n < m
    BY <1>1, <1>2, <1>3, <1>5, <2>1 DEF Smaller
  <2>2. CASE ~(n < m)
    BY <1>1, <1>2, <1>3, <1>5, <2>2 DEF Smaller
  <2> QED
    BY <2>1, <2>2
<1>9. \A p \in 1..k : p > n => p \in (n + 1)..m
  BY <1>1, <1>2, <1>3, <1>8 DEF Smaller
<1>10. \A p \in 1..k : p <= n /\ p \in Changes(version) => p \in 1..m
  BY DEF Changes
<1> HIDE DEF new, k
<1>11. \A p \in 1..k : song(p) \in Song
  BY <1>1, <1>2, <1>6, <1>8, <1>9, <1>10
<1>12. \A p \in 1..k : p \in 1..m /\ (p > n \/ p \in Changes(version)) => song(p) = squeue[p]
  BY <1>1, <1>2, <1>6, <1>8, <1>9
<1> HIDE DEF song
<1>13. AppliedChanges \in Seq(Song) /\ Len(AppliedChanges) = k
  <2>1. [p \in 1..k |-> song(p)] \in [1..k -> Song]
    BY <1>11
  <2> QED
    BY <1>7, <1>8, <2>1
<1>14. ASSUME NEW p \in 1..m, sstamp[p] <= status.version
       PROVE  p <= k /\ AppliedChanges[p] = squeue[p]
  <2>1. p <= status.length
    BY <1>14
  <2>2. p <= k
    BY <1>1, <1>2, <1>3, <1>8, <2>1 DEF Smaller
  <2>3. p \in 1..k
    BY <1>8, <2>2
  <2>4. CASE p > n \/ p \in Changes(version)
    BY <1>7, <1>12, <2>2, <2>3, <2>4
  <2>5. CASE p <= n /\ p \notin Changes(version)
    <3>1. sstamp[p] <= version
      BY <1>1, <1>2, <2>5 DEF Changes
    <3>2. items[p] = squeue[p]
      BY <3>1 DEF Covers
    <3>3. AppliedChanges[p] = items[p]
      BY <1>2, <1>7, <2>3, <2>5 DEF song
    <3> QED
      BY <2>2, <3>2, <3>3
  <2> QED
    BY <1>1, <1>2, <2>4, <2>5
<1>15. status.version = sversion => k = m
  BY <1>1, <1>2, <1>3, <1>8 DEF Smaller
<1> QED
  BY <1>13, <1>14, <1>15 DEF Covers
-----------------------------------------------------------------------------
(* Steps of the server and commands of the client.                         *)

\* A change of the queue keeps the types, and a position whose new stamp is
\* not newer than the old version is a position that did not change.
LEMMA ServerSetStep ==
    ASSUME TypeOK, NEW q, NEW n \in Nat \ {0}, ServerSet(q, n)
    PROVE  /\ squeue' = q /\ squeue' \in Queues
           /\ sversion' = sversion + n /\ sversion' \in 1..MaxVersion
           /\ sstamp' \in [1..Len(squeue') -> 1..sversion']
           /\ scur' \in Song \cup {NoSong}
           /\ changed' \in BOOLEAN
           /\ \A p \in 1..Len(squeue') : sstamp'[p] <= sversion =>
                /\ p \in 1..Len(squeue)
                /\ squeue'[p] = squeue[p]
                /\ sstamp'[p] = sstamp[p]
<1>1. /\ squeue' = q /\ squeue' \in Queues /\ sversion' = sversion + n
      /\ changed' \in BOOLEAN /\ scur' \in Song \cup {NoSong}
  BY DEF ServerSet, TypeOK
<1>2. sversion \in Nat /\ sversion >= 1 /\ sversion' \in 1..MaxVersion
  BY ConstantsAssumption DEF ServerSet, TypeOK
<1>3. Len(q) \in Nat /\ Len(squeue) \in Nat
  BY <1>1, QueueFacts DEF TypeOK
<1>4. sstamp' = [p \in 1..Len(q) |->
                    IF p <= Len(squeue) /\ q[p] = squeue[p] THEN sstamp[p]
                    ELSE sversion + n]
  BY DEF ServerSet
<1>5. \A p \in 1..Len(squeue) : sstamp[p] \in 1..sversion
  BY DEF TypeOK
<1>6. sstamp' \in [1..Len(squeue') -> 1..sversion']
  BY <1>1, <1>2, <1>3, <1>4, <1>5
<1>7. ASSUME NEW p \in 1..Len(squeue'), sstamp'[p] <= sversion
      PROVE  p \in 1..Len(squeue) /\ squeue'[p] = squeue[p] /\ sstamp'[p] = sstamp[p]
  BY <1>1, <1>2, <1>3, <1>4, <1>7
<1> QED
  BY <1>1, <1>2, <1>6, <1>7

\* So a replica that the client does not touch keeps covering its version,
\* which is now an old one.
LEMMA ReplicaKept ==
    ASSUME Inv, link, NEW q, NEW n \in Nat \ {0}, ServerSet(q, n),
           UNCHANGED <<items, version>>
    PROVE  /\ version' < sversion'
           /\ Covers(version, items)'
<1>1. version \in Nat /\ sversion \in Nat /\ version <= sversion /\ Covers(version, items)
  BY ConstantsAssumption DEF Inv, TypeOK, ReplicaInv
<1>2. version' < sversion'
  BY <1>1, ServerSetStep DEF Inv
<1>3. ASSUME NEW p \in 1..Len(squeue'), sstamp'[p] <= version
      PROVE  p <= Len(items) /\ items[p] = squeue'[p]
  <2>1. /\ \A r \in 1..Len(squeue') : sstamp'[r] \in 1..sversion'
        /\ \A r \in 1..Len(squeue') : sstamp'[r] <= sversion =>
                r \in 1..Len(squeue) /\ squeue'[r] = squeue[r] /\ sstamp'[r] = sstamp[r]
        /\ sversion' \in Nat
    BY ServerSetStep, ConstantsAssumption DEF Inv
  <2>2. sstamp'[p] <= sversion
    BY <1>1, <1>3, <2>1
  <2> QED
    BY <1>1, <1>3, <2>1, <2>2 DEF Covers
<1> QED
  BY <1>2, <1>3 DEF Covers

\* The reply to "status" is a status.
LEMMA StatusType ==
    ASSUME TypeOK
    PROVE  /\ ServerStatus \in Statuses
           /\ ServerStatus.version = sversion
           /\ ServerStatus.length = Len(squeue)
           /\ \A q \in Queues, n \in Nat : StatusAfter(q, n) \in Statuses
<1>1. squeue \in Seq(Song) /\ sversion \in Nat /\ Len(squeue) \in Nat
  BY QueueFacts, ConstantsAssumption DEF TypeOK
<1>2. ServerStatus \in Statuses
  BY <1>1, PosOfFacts DEF ServerStatus, Statuses
<1>3. ASSUME NEW q \in Queues, NEW n \in Nat
      PROVE  StatusAfter(q, n) \in Statuses
  <2>1. q \in Seq(Song) /\ Len(q) \in Nat
    BY QueueFacts
  <2>2. PosOf(q, IF scur \in Songs(q) THEN scur ELSE NoSong) \in Int
    BY <2>1, PosOfFacts
  <2> QED
    BY <1>1, <2>1, <2>2 DEF StatusAfter, Statuses
<1> QED
  BY <1>2, <1>3 DEF ServerStatus

\* A command with a cheap route preserves the invariant, provided the edit of
\* the replica is the edit of the server whenever the route is taken.
LEMMA QueueCommandStep ==
    ASSUME Inv, NEW q, NEW n \in Nat \ {0}, NEW expected, NEW edited,
           QueueCommand(q, n, expected, edited), Return,
           conn, link,
           current' \in Song \cup {NoSong},
           CheapRoute(q, n, expected) => edited = q
    PROVE  Inv'
<1>1. ServerSet(q, n) /\ status' = StatusAfter(q, n) /\ q \in Queues
  BY DEF QueueCommand, ServerSet
<1>2. TypeOK /\ version \in Nat /\ sversion \in Nat
  BY ConstantsAssumption DEF Inv, TypeOK
<1>3. status' \in Statuses
  BY <1>1, <1>2, StatusType
<1>4. /\ squeue' = q /\ squeue' \in Queues
      /\ sversion' = sversion + n /\ sversion' \in 1..MaxVersion
      /\ sstamp' \in [1..Len(squeue') -> 1..sversion']
      /\ scur' \in Song \cup {NoSong}
      /\ changed' \in BOOLEAN
  BY <1>1, <1>2, ServerSetStep
<1>5. pc' = "ready" /\ cmd' = NoCommand /\ UNCHANGED <<link, permitted, conn, idle>>
  BY DEF Return
<1>6. cmd' \in CommandRecords
  BY <1>5 DEF CommandRecords, NoCommand
<1>7. CASE CheapRoute(q, n, expected)
  <2>1. items' = squeue' /\ version' = sversion'
    BY <1>4, <1>7 DEF QueueCommand
  <2>2. items' \in Seq(Song) /\ version' \in Nat
    BY <1>2, <1>4, <2>1, QueueFacts
  <2>3. TypeOK'
    BY <1>2, <1>3, <1>4, <1>5, <1>6, <2>2 DEF TypeOK
  <2>4. Covers(version, items)'
    BY <2>1 DEF Covers
  <2>5. ReplicaInv'
    BY <1>4, <1>5, <2>1, <2>2, <2>4 DEF ReplicaInv
  <2> QED
    BY <2>3, <2>5 DEF Inv
<1>8. CASE ~CheapRoute(q, n, expected)
  <2>1. UNCHANGED <<items, version>>
    BY <1>8 DEF QueueCommand
  <2>2. version' < sversion' /\ Covers(version, items)'
    BY <1>1, <2>1, ReplicaKept
  <2>3. TypeOK'
    BY <1>2, <1>3, <1>4, <1>5, <1>6, <2>1 DEF TypeOK
  <2>4. ReplicaInv'
    BY <1>2, <1>4, <1>5, <2>1, <2>2 DEF ReplicaInv
  <2> QED
    BY <2>3, <2>4 DEF Inv
<1> QED
  BY <1>7, <1>8

\* A replica that covers the current version and has the current length is
\* the server's queue.
LEMMA InvImpliesInSync == Inv => InSync
<1> SUFFICES ASSUME Inv, UpToDate
             PROVE  items = squeue
  BY DEF InSync
<1>1. Len(items) = Len(squeue) /\ Covers(version, items) /\ version = sversion
  BY DEF Inv, ReplicaInv, UpToDate
<1>2. squeue \in Seq(Song) /\ items \in Seq(Song) /\ Len(squeue) \in Nat
  BY QueueFacts DEF Inv, TypeOK
<1>3. \A p \in 1..Len(squeue) : sstamp[p] <= version
  BY <1>1, ConstantsAssumption DEF Inv, TypeOK
<1>4. \A p \in 1..Len(squeue) : items[p] = squeue[p]
  BY <1>1, <1>3 DEF Covers
<1> QED
  BY <1>1, <1>2, <1>4

\* The cheap route is only taken from a replica that is up to date.
LEMMA CheapRouteFromSync ==
    ASSUME Inv, conn, link, NEW q, NEW n \in Nat, NEW expected, CheapRoute(q, n, expected)
    PROVE  items = squeue /\ Len(q) = expected
<1>1. version = sversion
  BY ConstantsAssumption DEF Inv, TypeOK, CheapRoute
<1> QED
  BY <1>1, InvImpliesInSync DEF InSync, UpToDate, CheapRoute

\* RunAdd appends the song that MPD has appended.
LEMMA RunAddStep == ASSUME Inv, RunAdd PROVE Inv'
<1>1. conn /\ link /\ Return /\ current' = current
  BY DEF RunAdd, Sends
<1>2. PICK s \in Song \ Songs(squeue) :
        LET q == Append(squeue, s)
        IN  QueueCommand(q, 1, Len(items) + 1, Append(items, q[Len(items) + 1]))
  BY DEF RunAdd
<1> DEFINE q == Append(squeue, s)
           expected == Len(items) + 1
           edited == Append(items, q[Len(items) + 1])
<1>3. squeue \in Seq(Song) /\ Len(squeue) \in Nat
  BY QueueFacts DEF Inv, TypeOK
<1>4. q[Len(squeue) + 1] = s
  BY <1>3
<1>5. CheapRoute(q, 1, expected) => edited = q
  BY <1>1, <1>4, CheapRouteFromSync
<1>6. current' \in Song \cup {NoSong}
  BY <1>1 DEF Inv, TypeOK
<1>7. QueueCommand(q, 1, expected, edited)
  BY <1>2
<1> HIDE DEF q, expected, edited
<1> QED
  BY <1>1, <1>5, <1>6, <1>7, QueueCommandStep

\* RunDelete removes the song MPD removes, by id.
LEMMA RunDeleteStep == ASSUME Inv, RunDelete PROVE Inv'
<1> DEFINE s == items[cmd.lo + 1]
           k == PosOf(squeue, s)
           q == WithoutRange(squeue, k, k + 1)
           edited == WithoutRange(items, cmd.lo, cmd.hi)
<1>1. conn /\ link /\ Return /\ cmd.op = "delete"
  BY DEF RunDelete, Sends
<1>2. cmd.lo \in Nat /\ cmd.hi = cmd.lo + 1 /\ cmd.lo < Len(items)
  BY <1>1 DEF RunDelete, Inv, TypeOK, CommandRecords
<1>3. /\ QueueCommand(q, 1, Len(items) - 1, edited)
      /\ current' = IF CheapRoute(q, 1, Len(items) - 1) /\ current = s
                      THEN NoSong ELSE current
  BY DEF RunDelete
<1>4. CheapRoute(q, 1, Len(items) - 1) => edited = q
  <2> SUFFICES ASSUME items = squeue
               PROVE  k = cmd.lo
    BY <1>1, <1>2, CheapRouteFromSync
  <2>1. /\ squeue \in Seq(Song) /\ Len(squeue) \in Nat
        /\ \A i, j \in 1..Len(squeue) : squeue[i] = squeue[j] => i = j
        /\ DOMAIN squeue = 1..Len(squeue)
    BY QueueFacts DEF Inv, TypeOK
  <2>2. cmd.lo + 1 \in 1..Len(squeue) /\ s = squeue[cmd.lo + 1]
    BY <1>2, <2>1
  <2>3. s \in Songs(squeue)
    BY <2>1, <2>2 DEF Songs
  <2>4. k + 1 \in 1..Len(squeue) /\ squeue[k + 1] = s /\ k \in Int
    BY <2>1, <2>3, PosOfFacts
  <2> HIDE DEF k, s
  <2> QED
    BY <1>2, <2>1, <2>2, <2>4
<1>5. current' \in Song \cup {NoSong}
  BY <1>3 DEF Inv, TypeOK
<1> HIDE DEF q, edited
<1> QED
  BY <1>1, <1>3, <1>4, <1>5, QueueCommandStep

\* RunDeleteRange removes the same positions as MPD when the route is taken.
LEMMA RunDeleteRangeStep == ASSUME Inv, RunDeleteRange PROVE Inv'
<1> DEFINE end == Smaller(cmd.hi, Len(squeue))
           q == WithoutRange(squeue, cmd.lo, end)
           expected == Len(items) - (cmd.hi - cmd.lo)
           edited == WithoutRange(items, cmd.lo, cmd.hi)
<1>1. conn /\ link /\ Return /\ cmd.op = "delete" /\ cmd.lo < Len(squeue)
  BY DEF RunDeleteRange, Sends
<1>2. cmd.lo \in Nat /\ cmd.hi \in Nat
  BY <1>1 DEF Inv, TypeOK, CommandRecords
<1>3. QueueCommand(q, 1, expected, edited)
  BY DEF RunDeleteRange
<1>4. current' \in Song \cup {NoSong}
  BY DEF RunDeleteRange, Inv, TypeOK
<1>5. CheapRoute(q, 1, expected) => edited = q
  <2> SUFFICES ASSUME items = squeue, Len(q) = expected
               PROVE  end = cmd.hi
    BY <1>1, CheapRouteFromSync
  <2>1. squeue \in Seq(Song) /\ Len(squeue) \in Nat
    BY QueueFacts DEF Inv, TypeOK
  <2>2. CASE cmd.hi <= Len(squeue)
    BY <1>2, <2>1, <2>2 DEF Smaller
  <2>3. CASE cmd.hi > Len(squeue)
    <3>1. end = Len(squeue)
      BY <1>2, <2>1, <2>3 DEF Smaller
    <3>2. Len(q) = cmd.lo
      <4>1. Len(WithoutRange(squeue, cmd.lo, Len(squeue)))
              = Len(squeue) - (Len(squeue) - cmd.lo)
        <5>1. /\ cmd.lo \in Nat /\ cmd.lo <= Len(squeue)
              /\ Len(squeue) <= Len(squeue)
          BY <1>1, <1>2, <2>1
        <5> QED
          BY <2>1, <5>1, WithoutRangeFacts, Zenon
      <4> QED
        BY <1>2, <2>1, <3>1, <4>1
    <3> QED
      BY <1>1, <1>2, <2>1, <2>3, <3>2
  <2> QED
    BY <1>2, <2>1, <2>2, <2>3
<1> HIDE DEF q, edited, expected
<1> QED
  BY <1>1, <1>3, <1>4, <1>5, QueueCommandStep

\* RunDeleteUri removes the same songs as MPD when the route is taken.
LEMMA RunDeleteUriStep == ASSUME Inv, RunDeleteUri PROVE Inv'
<1> DEFINE S == {s \in Songs(items) : UriOf[s] = cmd.uri}
           n == Cardinality({p \in DOMAIN items : items[p] \in S})
           q == WithoutSongs(squeue, S)
           edited == WithoutSongs(items, S)
<1>1. conn /\ link /\ Return /\ current' = current
  BY DEF RunDeleteUri, Sends
<1>2. S # {} /\ Cardinality(S) = n /\ QueueCommand(q, n, Len(items) - n, edited)
  BY DEF RunDeleteUri
<1>3. n \in Nat \ {0}
  <2> DEFINE P == {p \in DOMAIN items : items[p] \in S}
  <2>1. items \in Seq(Song) /\ Len(items) \in Nat /\ DOMAIN items = 1..Len(items)
    BY DEF Inv, TypeOK
  <2>2. IsFiniteSet(1..Len(items))
    BY <2>1, FS_Interval
  <2>3. P \in SUBSET (1..Len(items))
    BY <2>1
  <2>4. IsFiniteSet(P)
    BY <2>2, <2>3, FS_Subset
  <2>5. PICK s \in S : TRUE
    BY <1>2
  <2>6. PICK p \in DOMAIN items : items[p] = s
    BY <2>5 DEF Songs
  <2>7. P # {}
    BY <2>5, <2>6
  <2> HIDE DEF P
  <2>8. Cardinality(P) \in Nat /\ Cardinality(P) # 0
    BY <2>4, <2>7, FS_CardinalityType, FS_EmptySet
  <2> QED
    BY <2>8 DEF P
<1>4. CheapRoute(q, n, Len(items) - n) => edited = q
  BY <1>1, <1>3, CheapRouteFromSync
<1>5. current' \in Song \cup {NoSong}
  BY <1>1 DEF Inv, TypeOK
<1> HIDE DEF n, q, edited
<1> QED
  BY <1>1, <1>2, <1>3, <1>4, <1>5, QueueCommandStep

\* RunMove: the two moves agree (MoveIsServerMove).
LEMMA RunMoveStep == ASSUME Inv, RunMove PROVE Inv'
<1> DEFINE q == ServerMove(squeue, cmd.dest, cmd.src)
           edited == Move(items, cmd.dest, cmd.src)
<1>1. conn /\ link /\ Return /\ current' = current /\ cmd.op = "move"
  BY DEF RunMove, Sends
<1>2. /\ cmd.dest \in Nat /\ cmd.src \in Nat /\ cmd.dest # cmd.src
      /\ cmd.dest < Len(squeue) /\ cmd.src < Len(squeue)
  BY <1>1 DEF RunMove, Inv, TypeOK, CommandRecords
<1>3. QueueCommand(q, 1, Len(items), edited)
  BY DEF RunMove
<1>4. squeue \in Seq(Song)
  BY QueueFacts DEF Inv, TypeOK
<1>5. CheapRoute(q, 1, Len(items)) => edited = q
  BY <1>1, <1>2, <1>4, CheapRouteFromSync, MoveIsServerMove
<1>6. current' \in Song \cup {NoSong}
  BY <1>1 DEF Inv, TypeOK
<1> HIDE DEF q, edited
<1> QED
  BY <1>1, <1>3, <1>5, <1>6, QueueCommandStep

\* RunClearQueue leaves both queues empty.
LEMMA RunClearQueueStep == ASSUME Inv, RunClearQueue PROVE Inv'
<1>1. conn /\ link /\ Return /\ ServerSet(<<>>, 1)
  BY DEF RunClearQueue, Sends
<1>2. TypeOK /\ sversion \in Nat
  BY ConstantsAssumption DEF Inv, TypeOK
<1>3. /\ squeue' = <<>> /\ squeue' \in Queues
      /\ sversion' = sversion + 1 /\ sversion' \in 1..MaxVersion
      /\ sstamp' \in [1..Len(squeue') -> 1..sversion']
      /\ scur' \in Song \cup {NoSong}
      /\ changed' \in BOOLEAN
  BY <1>1, <1>2, ServerSetStep
<1>4. status' \in Statuses
  BY <1>2, <1>3, StatusType DEF RunClearQueue
<1>5. /\ pc' = "ready" /\ cmd' = NoCommand /\ UNCHANGED <<link, permitted, conn, idle>>
      /\ items' = <<>> /\ version' = sversion' /\ current' = NoSong
  BY <1>1, <1>3 DEF Return, RunClearQueue
<1>6. TypeOK'
  <2>1. cmd' \in CommandRecords
    BY <1>5 DEF CommandRecords, NoCommand
  <2>2. version' \in Nat /\ items' \in Seq(Song)
    BY <1>2, <1>3, <1>5
  <2> QED
    BY <1>2, <1>3, <1>4, <1>5, <2>1, <2>2 DEF TypeOK
<1>7. ReplicaInv'
  <2>1. Covers(version, items)'
    BY <1>3 DEF Covers
  <2>2. version' <= sversion'
    BY <1>2, <1>3, <1>5
  <2> QED
    BY <1>1, <1>3, <1>5, <2>1, <2>2 DEF ReplicaInv
<1> QED
  BY <1>6, <1>7 DEF Inv

\* The queue changes behind the client's back, while it has no request
\* pending or waits for the queue with a status in its hands.
LEMMA ForeignEditStep ==
    ASSUME Inv, NEW q, NEW n \in Nat \ {0}, ServerSet(q, n),
           UNCHANGED <<link, permitted, conn, idle, replicaVars>>,
           pc' \in {"ready", pc}, cmd' \in CommandRecords
    PROVE  Inv'
<1>1. TypeOK /\ ReplicaInv /\ sversion \in Nat /\ version \in Nat
  BY ConstantsAssumption DEF Inv, TypeOK
<1>2. UNCHANGED <<items, version, status, current>>
  BY DEF replicaVars
<1>3. /\ squeue' \in Queues
      /\ sversion' = sversion + n /\ sversion' \in 1..MaxVersion
      /\ sstamp' \in [1..Len(squeue') -> 1..sversion']
      /\ scur' \in Song \cup {NoSong}
      /\ changed' \in BOOLEAN
      /\ \A p \in 1..Len(squeue') : sstamp'[p] <= sversion =>
                /\ p \in 1..Len(squeue) /\ sstamp'[p] = sstamp[p]
  BY <1>1, ServerSetStep
<1>4. TypeOK'
  BY <1>1, <1>2, <1>3 DEF TypeOK
<1>5. link => version' < sversion' /\ Covers(version, items)'
  BY <1>2, ReplicaKept
<1>6. ASSUME link, pc = "queue"
      PROVE  /\ version <= status.version /\ status.version < sversion'
             /\ \A p \in 1..Len(squeue') : sstamp'[p] <= status.version => p <= status.length
  <2>1. /\ status \in Statuses
        /\ version <= status.version /\ status.version <= sversion
        /\ \A p \in 1..Len(squeue) : sstamp[p] <= status.version => p <= status.length
    BY <1>1, <1>6 DEF ReplicaInv, TypeOK
  <2>2. status.version \in Nat
    BY <2>1 DEF Statuses
  <2>3. \A p \in 1..Len(squeue') : sstamp'[p] \in Nat
    BY <1>3, ConstantsAssumption
  <2>4. ASSUME NEW p \in 1..Len(squeue'), sstamp'[p] <= status.version
        PROVE  p <= status.length
    <3>1. sstamp'[p] <= sversion
      BY <1>1, <2>1, <2>2, <2>3, <2>4
    <3> QED
      BY <1>3, <2>1, <2>4, <3>1
  <2> QED
    BY <1>1, <1>3, <2>1, <2>2, <2>4
<1>7. ReplicaInv'
  <2>1. (~conn => items = <<>> /\ version = 0 /\ ~link)'
    BY <1>1, <1>2 DEF ReplicaInv
  <2>2. (link => /\ version <= sversion
                 /\ Covers(version, items)
                 /\ version = sversion => Len(items) = Len(squeue))'
    BY <1>1, <1>2, <1>3, <1>5
  <2>3. (pc = "queue" => status # Null)'
    BY <1>1, <1>2 DEF ReplicaInv
  <2>4. (link /\ pc = "queue" =>
           /\ version <= status.version /\ status.version <= sversion
           /\ \A p \in 1..Len(squeue) : sstamp[p] <= status.version => p <= status.length
           /\ status.version = sversion => status.length = Len(squeue))'
    <3> SUFFICES ASSUME link, pc = "queue"
                 PROVE  /\ version <= status.version /\ status.version <= sversion'
                        /\ \A p \in 1..Len(squeue') :
                              sstamp'[p] <= status.version => p <= status.length
                        /\ status.version # sversion'
      BY <1>2
    <3>1. status.version \in Nat
      BY <1>1 DEF ReplicaInv, TypeOK, Statuses
    <3> QED
      BY <1>1, <1>3, <1>6, <3>1
  <2> QED
    BY <2>1, <2>2, <2>3, <2>4 DEF ReplicaInv
<1> QED
  BY <1>4, <1>7 DEF Inv

\* mpdclient_cmd_crop edits the server's queue only, so the replica lags behind.
LEMMA CropStep == ASSUME Inv, Crop PROVE Inv'
<1>1. Return /\ UNCHANGED replicaVars
  BY DEF Crop
<1>2. \E q : \E n \in Nat \ {0} : ServerSet(q, n)
  BY DEF Crop
<1>3. cmd' \in CommandRecords /\ pc' = "ready" /\ UNCHANGED <<link, permitted, conn, idle>>
  BY <1>1 DEF Return, CommandRecords, NoCommand
<1> QED
  BY <1>1, <1>2, <1>3, ForeignEditStep

\* The commands a user can give are commands.
LEMMA UserCommandsType == ASSUME TypeOK PROVE UserCommands \subseteq CommandRecords
<1> SUFFICES ASSUME NEW c \in UserCommands
             PROVE  c \in CommandRecords
  OBVIOUS
<1> DEFINE n == Len(items)
<1>1. n \in Nat /\ \A i \in 1..n : items[i] \in Song
  BY DEF TypeOK
<1>2. CASE c \in [op : {"clear", "crop", "update"}]
  BY <1>2 DEF CommandRecords
<1>3. CASE c \in {[op |-> "add", uri |-> u] : u \in Uri}
  BY <1>3 DEF CommandRecords
<1>4. CASE c \in {[op |-> "deleteUri", uri |-> u] : u \in Uri}
  BY <1>4 DEF CommandRecords
<1>5. CASE c \in {[op |-> "play", song |-> items[i]] : i \in 1..n}
  BY <1>1, <1>5 DEF CommandRecords
<1>6. CASE c \in {[op |-> "delete", lo |-> r[1], hi |-> r[2]] :
                     r \in {s \in (0..n) \X (1..n) : s[1] < s[2]}}
  <2>1. PICK r \in (0..n) \X (1..n) :
          c = [op |-> "delete", lo |-> r[1], hi |-> r[2]]
    BY <1>6
  <2>2. r[1] \in Nat /\ r[2] \in Nat
    BY <1>1, <2>1
  <2> QED
    BY <2>1, <2>2 DEF CommandRecords
<1>7. CASE c \in {[op |-> "move", dest |-> r[1], src |-> r[2]] :
                     r \in (0..(n - 1)) \X (0..(n - 1))}
  BY <1>1, <1>7 DEF CommandRecords
<1> QED
  BY <1>2, <1>3, <1>4, <1>5, <1>6, <1>7 DEF UserCommands

-----------------------------------------------------------------------------
(* Update().                                                               *)

\* The reply to "status" describes the server's queue at its version.
LEMMA RunStatusStep == ASSUME Inv, RunStatus PROVE Inv'
<1>1. /\ conn /\ link /\ status' = ServerStatus
      /\ UNCHANGED <<squeue, sstamp, sversion, scur, link, permitted, changed, conn, idle,
                     cmd, items, version>>
      /\ pc' \in {"queue", "ready", "command"}
  BY DEF RunStatus, AfterUpdate, serverVars
<1>2. TypeOK /\ ReplicaInv
  BY DEF Inv
<1>3. /\ status' \in Statuses
      /\ status'.version = sversion /\ status'.length = Len(squeue)
  BY <1>1, <1>2, StatusType
<1>4. current' \in Song \cup {NoSong}
  BY <1>1, <1>2, <1>3, UpdateCurrentType DEF RunStatus, TypeOK
<1>5. TypeOK'
  BY <1>1, <1>2, <1>3, <1>4 DEF TypeOK
<1>6. ReplicaInv'
  <2>1. Len(squeue) \in Nat
    BY <1>2, QueueFacts DEF TypeOK
  <2>2. version <= sversion /\ sversion \in Nat
    BY <1>1, <1>2, ConstantsAssumption DEF ReplicaInv, TypeOK
  <2>3. Covers(version, items)' <=> Covers(version, items)
    BY <1>1 DEF Covers
  <2>4. status' # Null
    BY <1>3, ConstantsAssumption
  <2> QED
    BY <1>1, <1>2, <1>3, <2>1, <2>2, <2>3, <2>4 DEF ReplicaInv
<1> QED
  BY <1>5, <1>6 DEF Inv

\* A queue loaded after the status covers the version in the status.
LEMMA UpdateQueueStep == ASSUME Inv, UpdateQueue PROVE Inv'
<1>1. /\ conn /\ link /\ pc = "queue"
      /\ items' = squeue /\ version' = status.version
      /\ current' = UpdateCurrent(items', NoSong, status)
      /\ UNCHANGED <<squeue, sstamp, sversion, scur, link, permitted, changed, conn, idle,
                     cmd, status>>
      /\ pc' \in {"ready", "command"}
  BY DEF UpdateQueue, AfterUpdate, serverVars
<1>2. TypeOK /\ ReplicaInv
  BY DEF Inv
<1>3. status \in Statuses /\ status.version <= sversion
  BY <1>1, <1>2 DEF ReplicaInv, TypeOK
<1>4. squeue \in Seq(Song) /\ Len(squeue) \in Nat
  BY <1>2, QueueFacts DEF TypeOK
<1>5. current' \in Song \cup {NoSong}
  BY <1>1, <1>3, <1>4, UpdateCurrentType
<1>6. version' \in Nat
  BY <1>1, <1>3 DEF Statuses
<1>7. TypeOK'
  BY <1>1, <1>2, <1>4, <1>5, <1>6 DEF TypeOK
<1>8. Covers(version, items)'
  BY <1>1, <1>4 DEF Covers
<1>9. ReplicaInv'
  BY <1>1, <1>2, <1>3, <1>8 DEF ReplicaInv
<1> QED
  BY <1>7, <1>9 DEF Inv

\* ... and so do the changes applied (AppliedChangesCorrect).
LEMMA UpdateQueueChangesStep == ASSUME Inv, UpdateQueueChanges PROVE Inv'
<1>1. /\ conn /\ link /\ pc = "queue"
      /\ items' = AppliedChanges /\ version' = status.version
      /\ current' = UpdateCurrent(items', NoSong, status)
      /\ UNCHANGED <<squeue, sstamp, sversion, scur, link, permitted, changed, conn, idle,
                     cmd, status>>
      /\ pc' \in {"ready", "command"}
  BY DEF UpdateQueueChanges, AfterUpdate, serverVars
<1>2. TypeOK /\ ReplicaInv
  BY DEF Inv
<1>3. /\ status \in Statuses /\ status.version <= sversion
      /\ version <= status.version /\ Covers(version, items)
      /\ \A p \in 1..Len(squeue) : sstamp[p] <= status.version => p <= status.length
      /\ status.version = sversion => status.length = Len(squeue)
  BY <1>1, <1>2 DEF ReplicaInv, TypeOK
<1>4. /\ AppliedChanges \in Seq(Song)
      /\ Covers(status.version, AppliedChanges)
      /\ status.version = sversion => Len(AppliedChanges) = Len(squeue)
  BY <1>2, <1>3, AppliedChangesCorrect
<1>5. current' \in Song \cup {NoSong}
  BY <1>1, <1>3, <1>4, UpdateCurrentType
<1>6. version' \in Nat
  BY <1>1, <1>3 DEF Statuses
<1>7. TypeOK'
  BY <1>1, <1>2, <1>4, <1>5, <1>6 DEF TypeOK
<1>8. Covers(version, items)'
  BY <1>1, <1>4 DEF Covers
<1>9. ReplicaInv'
  BY <1>1, <1>2, <1>3, <1>4, <1>8 DEF ReplicaInv
<1> QED
  BY <1>7, <1>9 DEF Inv

-----------------------------------------------------------------------------
(* The invariant.                                                          *)

\* The values of a client without a connection and without a command.
LEMMA NeutralTypes == <<>> \in Seq(Song) /\ NoCommand \in CommandRecords
<1>1. NoCommand \in [op : {"none", "clear", "crop", "update"}]
  BY DEF NoCommand
<1>2. NoCommand \in CommandRecords
  BY <1>1 DEF CommandRecords
<1>3. <<>> \in Seq(Song)
  OBVIOUS
<1> QED
  BY <1>2, <1>3

\* The invariant holds at the start, without a connection.
LEMMA InitInv == Init => Inv
<1> SUFFICES ASSUME Init
             PROVE  Inv
  OBVIOUS
<1>1. Len(squeue) \in Nat /\ DOMAIN squeue = 1..Len(squeue)
  BY QueueFacts DEF Init
<1>2. sstamp \in [1..Len(squeue) -> 1..sversion]
  BY <1>1 DEF Init
<1>3. TypeOK
  <2>1. squeue \in Queues /\ sversion \in 1..MaxVersion /\ version \in Nat
    BY ConstantsAssumption DEF Init
  <2>2. items \in Seq(Song) /\ cmd \in CommandRecords
    BY NeutralTypes DEF Init
  <2>3. {link, permitted, changed, conn, idle} \subseteq BOOLEAN
    BY DEF Init
  <2> QED
    BY <1>2, <2>1, <2>2, <2>3 DEF Init, TypeOK
<1>4. ReplicaInv
  BY DEF Init, ReplicaInv
<1> QED
  BY <1>3, <1>4 DEF Inv

\* The steps that change neither the queue nor the replica.
LEMMA OtherStep ==
    ASSUME Inv,
           \/ ServerPlay \/ LinkDown \/ ServerRestart
           \/ Connected \/ ConnectionLost \/ EnterIdle \/ OnIdle
           \/ GiveCommand \/ AuthenticationFinished \/ StatusRefused
           \/ PlaySong \/ UpdateTimer \/ CommandRefused \/ UNCHANGED vars
    PROVE  Inv'
<1>0. TypeOK /\ ReplicaInv
  BY DEF Inv
<1> USE DEF serverVars, replicaVars
<1>1. CASE ServerPlay
  <2>1. scur' \in Song \cup {NoSong} /\ changed' \in BOOLEAN
    BY <1>0, <1>1, ConstantsAssumption DEF ServerPlay, TypeOK
  <2>2. TypeOK'
    BY <1>0, <1>1, <2>1 DEF ServerPlay, TypeOK
  <2>3. ReplicaInv'
    BY <1>0, <1>1 DEF ServerPlay, ReplicaInv, Covers
  <2> QED
    BY <2>2, <2>3 DEF Inv
<1>2. CASE LinkDown
  <2>1. TypeOK'
    BY <1>0, <1>2 DEF LinkDown, TypeOK
  <2>2. ReplicaInv'
    BY <1>0, <1>2 DEF LinkDown, ReplicaInv
  <2> QED
    BY <2>1, <2>2 DEF Inv
<1>3. CASE ServerRestart
  <2>1. Len(squeue) \in Nat /\ DOMAIN squeue = 1..Len(squeue)
    BY <1>0, QueueFacts DEF TypeOK
  <2>2. TypeOK'
    <3>1. sstamp' \in [1..Len(squeue') -> 1..sversion'] /\ sversion' \in 1..MaxVersion
      BY <1>3, <2>1, ConstantsAssumption DEF ServerRestart
    <3>2. scur' \in Song \cup {NoSong} /\ link' = FALSE /\ changed' = FALSE
      BY <1>3 DEF ServerRestart
    <3>3. UNCHANGED <<squeue, permitted, conn, idle, pc, cmd, items, version, status, current>>
      BY <1>3 DEF ServerRestart
    <3> QED
      BY <1>0, <3>1, <3>2, <3>3 DEF TypeOK
  <2>3. ReplicaInv'
    BY <1>0, <1>3 DEF ServerRestart, ReplicaInv
  <2> QED
    BY <2>2, <2>3 DEF Inv
<1>4. CASE Connected
  <2>1. TypeOK'
    BY <1>0, <1>4 DEF Connected, TypeOK
  <2>2. version = 0 /\ sversion >= 1 /\ \A p \in 1..Len(squeue) : sstamp[p] >= 1
    BY <1>0, <1>4, ConstantsAssumption DEF Connected, TypeOK, ReplicaInv
  <2>3. Covers(version, items)' /\ version' <= sversion' /\ version' # sversion'
    <3>1. \A p \in 1..Len(squeue) : ~(sstamp[p] <= 0)
      BY <1>0, <2>2, ConstantsAssumption DEF TypeOK
    <3>2. version' = 0 /\ sversion' >= 1 /\ sversion' \in Nat
      BY <1>0, <1>4, <2>2, ConstantsAssumption DEF Connected, TypeOK
    <3> QED
      BY <1>4, <2>2, <3>1, <3>2 DEF Connected, Covers
  <2>4. ReplicaInv'
    BY <1>4, <2>3 DEF Connected, ReplicaInv
  <2> QED
    BY <2>1, <2>4 DEF Inv
<1>5. CASE ConnectionLost
  <2>1. TypeOK'
    <3>1. items' \in Seq(Song) /\ cmd' \in CommandRecords
      BY <1>5, NeutralTypes DEF ConnectionLost, Disconnect
    <3>2. /\ {link, permitted, changed, conn, idle}' \subseteq BOOLEAN
          /\ version' = 0 /\ status' = Null /\ current' = NoSong /\ pc' = "ready"
          /\ UNCHANGED <<squeue, sstamp, sversion, scur>>
      BY <1>0, <1>5 DEF ConnectionLost, Disconnect, TypeOK
    <3> QED
      BY <1>0, <3>1, <3>2 DEF TypeOK
  <2>2. ReplicaInv'
    BY <1>0, <1>5 DEF ConnectionLost, Disconnect, ReplicaInv
  <2> QED
    BY <2>1, <2>2 DEF Inv
<1>6. CASE EnterIdle
  BY <1>0, <1>6 DEF EnterIdle, Inv, TypeOK, ReplicaInv, Covers
<1>7. CASE OnIdle
  BY <1>0, <1>7 DEF OnIdle, Inv, TypeOK, ReplicaInv, Covers
<1>8. CASE GiveCommand
  <2>1. cmd' \in CommandRecords
    BY <1>0, <1>8, UserCommandsType DEF GiveCommand
  <2>2. pc' \in {"status", "command"} /\ idle' \in BOOLEAN
    BY <1>8 DEF GiveCommand
  <2>3. changed' \in BOOLEAN
    <3>1. changed' = (changed /\ ~idle)
      BY <1>8 DEF GiveCommand
    <3> QED
      BY <3>1, Zenon
  <2>4. TypeOK'
    BY <1>0, <1>8, <2>1, <2>2, <2>3 DEF GiveCommand, TypeOK
  <2>5. ReplicaInv'
    BY <1>0, <1>8, <2>2 DEF GiveCommand, ReplicaInv, Covers
  <2> QED
    BY <2>4, <2>5 DEF Inv
<1>9. CASE AuthenticationFinished
  BY <1>0, <1>9 DEF AuthenticationFinished, Inv, TypeOK, ReplicaInv, Covers
<1>10. CASE StatusRefused
  BY <1>0, <1>10 DEF StatusRefused, AfterUpdate, Inv, TypeOK, ReplicaInv, Covers
<1>11. CASE PlaySong
  <2>1. cmd.song \in Song
    BY <1>0, <1>11 DEF PlaySong, Sends, TypeOK, CommandRecords
  <2>2. TypeOK'
    BY <1>0, <1>11, <2>1 DEF PlaySong, Return, TypeOK, CommandRecords, NoCommand
  <2>3. ReplicaInv'
    BY <1>0, <1>11 DEF PlaySong, Return, ReplicaInv, Covers
  <2> QED
    BY <2>2, <2>3 DEF Inv
<1>12. CASE UpdateTimer
  BY <1>0, <1>12 DEF UpdateTimer, Inv, TypeOK, ReplicaInv, Covers, CommandRecords, NoCommand
<1>13. CASE CommandRefused
  BY <1>0, <1>13 DEF CommandRefused, Return, Inv, TypeOK, ReplicaInv, Covers,
                     CommandRecords, NoCommand
<1>14. CASE UNCHANGED vars
  BY <1>0, <1>14 DEF vars, Inv, TypeOK, ReplicaInv, Covers
<1> QED
  BY <1>1, <1>2, <1>3, <1>4, <1>5, <1>6, <1>7, <1>8, <1>9, <1>10, <1>11, <1>12, <1>13, <1>14

\* Every step preserves the invariant.
LEMMA NextInv == Inv /\ [Next]_vars => Inv'
<1> SUFFICES ASSUME Inv, [Next]_vars
             PROVE  Inv'
  OBVIOUS
<1>1. CASE ServerEdit
  <2>1. \E q : ServerSet(q, 1)
    BY <1>1 DEF ServerEdit
  <2>2. cmd' \in CommandRecords
    BY <1>1 DEF ServerEdit, Inv, TypeOK
  <2> QED
    BY <1>1, <2>1, <2>2, ForeignEditStep DEF ServerEdit
<1>2. CASE SendCommand
  BY <1>2, RunAddStep, RunDeleteStep, RunDeleteRangeStep, RunDeleteUriStep, RunMoveStep,
     RunClearQueueStep, CropStep, OtherStep DEF SendCommand
<1>3. CASE Update
  BY <1>3, RunStatusStep, UpdateQueueStep, UpdateQueueChangesStep, OtherStep DEF Update
<1>4. CASE \/ ServerPlay \/ LinkDown \/ ServerRestart
           \/ Connected \/ ConnectionLost \/ EnterIdle \/ OnIdle
           \/ GiveCommand \/ AuthenticationFinished \/ UNCHANGED vars
  BY <1>4, OtherStep
<1> QED
  BY <1>1, <1>2, <1>3, <1>4 DEF Next

\* Every variable keeps its type, and a replica that lags behind is right
\* wherever the server has not stamped a position since.
THEOREM SpecImpliesInv == Spec => []Inv
<1>1. Init => Inv
  BY InitInv
<1>2. Inv /\ [Next]_vars => Inv'
  BY NextInv
<1> QED
  BY <1>1, <1>2, PTL DEF Spec

\* The types of the variables, in every reachable state.
THEOREM TypesCorrect == Spec => []TypeOK
<1>1. Inv => TypeOK
  BY DEF Inv
<1> QED
  BY <1>1, SpecImpliesInv, PTL

\* ReplicaInv is what Update() and the cheap routes preserve.
THEOREM ReplicaCovers == Spec => []ReplicaInv
<1>1. Inv => ReplicaInv
  BY DEF Inv
<1> QED
  BY <1>1, SpecImpliesInv, PTL

\* A replica with the server's queue version is the server's queue, whatever
\* the other clients do between two requests.
THEOREM ReplicaInSync == Spec => []InSync
<1>1. Inv => InSync
  BY InvImpliesInSync
<1> QED
  BY <1>1, SpecImpliesInv, PTL

-----------------------------------------------------------------------------
(* No missed update.  What a nested update, a command or a listing may     *)
(* leave behind is a pending idle event: without one, the version the      *)
(* client holds, or is about to hold, is the server's.                     *)

FreshInv ==
    conn /\ link /\ permitted /\ ~changed =>
        /\ pc \in {"ready", "command"} => version = sversion
        /\ pc = "queue" => status.version = sversion

\* A change is pending, being fetched, or already in the replica, after every step.
LEMMA FreshStep == TypeOK /\ FreshInv /\ [Next]_vars => FreshInv'
<1> SUFFICES ASSUME TypeOK, FreshInv, [Next]_vars
             PROVE  FreshInv'
  OBVIOUS
<1> USE DEF serverVars, replicaVars
<1>1. ASSUME NEW q, NEW n, ServerSet(q, n), UNCHANGED <<link, permitted, conn>>
      PROVE  FreshInv'
  BY <1>1 DEF ServerSet, FreshInv
<1>2. CASE ServerEdit
  BY <1>1, <1>2 DEF ServerEdit
<1>3. CASE \/ LinkDown \/ ServerRestart \/ Connected \/ ConnectionLost
  BY <1>3 DEF LinkDown, ServerRestart, Connected, ConnectionLost, Disconnect, FreshInv
<1>4. CASE EnterIdle \/ OnIdle \/ AuthenticationFinished
  BY <1>4 DEF EnterIdle, OnIdle, AuthenticationFinished, FreshInv
<1>13. CASE ServerPlay
  <2>1. changed' = link /\ link' = link
    BY <1>13 DEF ServerPlay
  <2> QED
    BY <2>1 DEF FreshInv
<1>5. CASE GiveCommand
  <2>1. /\ pc = "ready" /\ pc' \in {"status", "command"}
        /\ UNCHANGED <<sversion, version, link, permitted, conn>>
    BY <1>5 DEF GiveCommand
  <2>2. pc' = "command" => ~(idle /\ changed)
    BY <1>5 DEF GiveCommand
  <2>3. ~changed' => ~changed \/ idle
    BY <1>5 DEF GiveCommand
  <2> QED
    BY <2>1, <2>2, <2>3 DEF FreshInv
<1>6. CASE RunStatus
  BY <1>6 DEF RunStatus, AfterUpdate, ServerStatus, FreshInv
<1>7. CASE StatusRefused
  BY <1>7 DEF StatusRefused, FreshInv
<1>8. CASE UpdateQueue \/ UpdateQueueChanges
  BY <1>8 DEF UpdateQueue, UpdateQueueChanges, AfterUpdate, FreshInv
<1>9. CASE RunAdd \/ RunDelete \/ RunDeleteRange \/ RunDeleteUri \/ RunMove
  <2>1. UNCHANGED <<link, permitted, conn>>
    BY <1>9 DEF RunAdd, RunDelete, RunDeleteRange, RunDeleteUri, RunMove, Return
  <2>2. \E q, n : ServerSet(q, n)
    BY <1>9 DEF RunAdd, RunDelete, RunDeleteRange, RunDeleteUri, RunMove, QueueCommand
  <2> QED
    BY <1>1, <2>1, <2>2
<1>10. CASE RunClearQueue \/ Crop
  <2>1. UNCHANGED <<link, permitted, conn>>
    BY <1>10 DEF RunClearQueue, Crop, Return
  <2>2. \E q, n : ServerSet(q, n)
    BY <1>10 DEF RunClearQueue, Crop
  <2> QED
    BY <1>1, <2>1, <2>2
<1>11. CASE PlaySong \/ UpdateTimer \/ CommandRefused
  BY <1>11 DEF PlaySong, UpdateTimer, CommandRefused, Return, Sends, FreshInv
<1>12. CASE UNCHANGED vars
  BY <1>12 DEF vars, FreshInv
<1> QED
  BY <1>2, <1>3, <1>4, <1>5, <1>6, <1>7, <1>8, <1>9, <1>10, <1>11, <1>12,
     <1>13 DEF Next, Update, SendCommand

\* Whenever the client is idle and MPD has nothing to report, the replica is
\* the server's queue.
THEOREM NothingMissed == Spec => []NoMissedUpdate
<1>1. Init => FreshInv
  BY DEF Init, FreshInv
<1>2. TypeOK /\ FreshInv /\ [Next]_vars => FreshInv'
  BY FreshStep
<1>3. InSync /\ FreshInv => NoMissedUpdate
  BY DEF InSync, UpToDate, FreshInv, NoMissedUpdate
<1> QED
  BY <1>1, <1>2, <1>3, TypesCorrect, ReplicaInSync, PTL DEF Spec

-----------------------------------------------------------------------------
(* The commands: one of one's own keeps an up-to-date replica up to date.   *)

\* A pending command is one of this instance.
CmdInv == cmd.op \in Commands \cup {"none"}

\* Only GiveCommand takes a command; every other step keeps it or drops it.
LEMMA CmdStep == TypeOK /\ CmdInv /\ [Next]_vars => CmdInv'
<1> SUFFICES ASSUME TypeOK, CmdInv, [Next]_vars
             PROVE  CmdInv'
  OBVIOUS
<1>1. CASE GiveCommand
  <2>1. cmd' \in UserCommands
    BY <1>1 DEF GiveCommand
  <2> QED
    BY <2>1 DEF CmdInv, UserCommands
<1>2. CASE cmd' = NoCommand
  BY <1>2 DEF CmdInv, NoCommand
<1>3. CASE cmd' = cmd
  BY <1>3 DEF CmdInv
<1>4. GiveCommand \/ cmd' = NoCommand \/ cmd' = cmd
  BY DEF Next, Update, SendCommand, vars, ServerEdit, ServerPlay, LinkDown, ServerRestart,
         Connected, ConnectionLost, Disconnect, EnterIdle, OnIdle, AuthenticationFinished,
         RunStatus, StatusRefused, UpdateQueue, UpdateQueueChanges, RunAdd, RunDelete,
         RunDeleteRange, RunDeleteUri, RunMove, RunClearQueue, Crop, PlaySong, UpdateTimer,
         CommandRefused, Return
<1> QED
  BY <1>1, <1>2, <1>3, <1>4

LEMMA CmdAlways == Spec => []CmdInv
<1>1. Init => CmdInv
  BY DEF Init, CmdInv, NoCommand
<1> QED
  BY <1>1, CmdStep, TypesCorrect, PTL DEF Spec

\* Removing a set of songs from a queue makes it shorter by the number of
\* positions that hold them.
LEMMA WithoutSongsLength ==
    ASSUME NEW q \in Seq(Song), NEW S
    PROVE  Len(WithoutSongs(q, S)) = Len(q) - Cardinality({p \in DOMAIN q : q[p] \in S})
<1> DEFINE D == 1..Len(q)
           In == {p \in D : q[p] \in S}
           kept == {p \in D : q[p] \notin S}
<1>1. Len(q) \in Nat /\ DOMAIN q = D
  OBVIOUS
<1>2. IsFiniteSet(D) /\ Cardinality(D) = Len(q)
  <2>1. /\ IsFiniteSet(1..Len(q))
        /\ Cardinality(1..Len(q)) = IF 1 > Len(q) THEN 0 ELSE Len(q) - 1 + 1
    <3>1. 1 \in Int /\ Len(q) \in Int
      BY <1>1
    <3> QED
      BY <3>1, FS_Interval, Zenon
  <2> QED
    BY <1>1, <2>1
<1>3. kept = D \ In /\ D \cap In = In
  OBVIOUS
<1>4. /\ IsFiniteSet(D \ In)
      /\ Cardinality(D \ In) = Cardinality(D) - Cardinality(D \cap In)
  BY <1>2, FS_Difference
<1> HIDE DEF D, In, kept
<1>5. Cardinality(kept) = Len(q) - Cardinality(In) /\ Cardinality(kept) \in Nat
  BY <1>2, <1>3, <1>4, FS_CardinalityType
<1>6. WithoutSongs(q, S) = [p \in 1..Cardinality(kept) |-> q[NthSmallest(kept, p)]]
  BY <1>1 DEF WithoutSongs, kept
<1>7. Len(WithoutSongs(q, S)) = Cardinality(kept)
  BY <1>5, <1>6
<1> QED
  BY <1>1, <1>5, <1>7 DEF In

\* When the command meets the queue it was meant for, the route is taken.
LEMMA QueueCommandKeepsUp ==
    ASSUME TypeOK, NEW q, NEW n \in Nat, NEW expected, NEW edited,
           QueueCommand(q, n, expected, edited),
           version = sversion, Len(q) = expected
    PROVE  version' = sversion'
<1>1. CheapRoute(q, n, expected)
  BY DEF CheapRoute
<1> QED
  BY <1>1 DEF QueueCommand, ServerSet

\* A command that returns leaves an up-to-date replica up to date.
LEMMA KeepsUpStep ==
    ASSUME Inv, [Next]_vars, UpToDate, pc = "command", pc' = "ready", conn', cmd.op # "crop",
           cmd.op = "delete" => cmd.hi <= Len(items)
    PROVE  version' = sversion'
<1>0. TypeOK /\ conn /\ link /\ version = sversion /\ items = squeue
  BY InvImpliesInSync DEF Inv, InSync, UpToDate
<1>1. squeue \in Seq(Song) /\ Len(squeue) \in Nat
  BY <1>0, QueueFacts DEF TypeOK
<1>2. \/ RunAdd \/ RunDelete \/ RunDeleteRange \/ RunDeleteUri \/ RunMove
      \/ RunClearQueue \/ PlaySong \/ CommandRefused
      \/ UNCHANGED <<version, sversion>>
  BY <1>0 DEF Next, Update, SendCommand, vars, serverVars, replicaVars, ServerEdit, ServerPlay,
         LinkDown, ServerRestart, Connected, ConnectionLost, Disconnect, EnterIdle, OnIdle,
         AuthenticationFinished, GiveCommand, RunStatus, StatusRefused, UpdateQueue,
         UpdateQueueChanges, Crop, UpdateTimer, Sends
<1>3. CASE RunAdd
  <2>1. PICK s \in Song : QueueCommand(Append(squeue, s), 1, Len(items) + 1,
                                       Append(items, Append(squeue, s)[Len(items) + 1]))
    BY <1>3 DEF RunAdd
  <2>2. Len(Append(squeue, s)) = Len(items) + 1
    BY <1>0, <1>1
  <2> QED
    BY <1>0, <2>1, <2>2, QueueCommandKeepsUp
<1>4. CASE RunDelete
  <2> DEFINE k == PosOf(squeue, items[cmd.lo + 1])
             q == WithoutRange(squeue, k, k + 1)
  <2>1. k >= 0 /\ QueueCommand(q, 1, Len(items) - 1, WithoutRange(items, cmd.lo, cmd.hi))
    BY <1>4 DEF RunDelete
  <2>2. k \in Nat /\ k + 1 \in 1..Len(squeue)
    BY <1>1, <2>1, PosOfFacts
  <2>3. Len(q) = Len(squeue) - ((k + 1) - k)
    <3> HIDE DEF k
    <3>1. k + 1 \in Nat /\ k <= k + 1 /\ k + 1 <= Len(squeue)
      BY <1>1, <2>2
    <3> QED
      BY <1>1, <2>2, <3>1, WithoutRangeFacts
  <2>4. Len(q) = Len(items) - 1
    <3> HIDE DEF q
    <3> QED
      BY <1>0, <1>1, <2>2, <2>3
  <2> HIDE DEF q
  <2> QED
    BY <1>0, <2>1, <2>4, QueueCommandKeepsUp
<1>5. CASE RunDeleteRange
  <2> DEFINE q == WithoutRange(squeue, cmd.lo, Smaller(cmd.hi, Len(squeue)))
             expected == Len(items) - (cmd.hi - cmd.lo)
  <2>1. cmd.op = "delete" /\ cmd.lo < Len(squeue) /\ cmd.hi <= Len(squeue)
    BY <1>0, <1>5 DEF RunDeleteRange, Sends
  <2>2. cmd.lo \in Nat /\ cmd.hi \in Nat
    BY <1>0, <2>1 DEF TypeOK, CommandRecords
  <2>3. Smaller(cmd.hi, Len(squeue)) = cmd.hi
    BY <1>1, <2>1, <2>2 DEF Smaller
  <2>4. Len(squeue) - (cmd.hi - cmd.lo) \in Nat
    BY <1>1, <2>1, <2>2
  <2>5. Len(q) = expected
    BY <1>0, <2>3, <2>4 DEF WithoutRange
  <2>6. QueueCommand(q, 1, expected, WithoutRange(items, cmd.lo, cmd.hi))
    BY <1>5 DEF RunDeleteRange
  <2> HIDE DEF q, expected
  <2> QED
    BY <1>0, <2>5, <2>6, QueueCommandKeepsUp
<1>6. CASE RunDeleteUri
  <2> DEFINE S == {s \in Songs(items) : UriOf[s] = cmd.uri}
             n == Cardinality({p \in DOMAIN items : items[p] \in S})
             q == WithoutSongs(squeue, S)
  <2>1. QueueCommand(q, n, Len(items) - n, WithoutSongs(items, S))
    BY <1>6 DEF RunDeleteUri
  <2>2. n \in Nat
    <3>1. IsFiniteSet(1..Len(items))
      BY <1>0, <1>1, FS_Interval
    <3>2. {p \in DOMAIN items : items[p] \in S} \in SUBSET (1..Len(items))
      BY <1>0, <1>1
    <3> QED
      BY <3>1, <3>2, FS_Subset, FS_CardinalityType
  <2>3. Len(q) = Len(items) - n
    BY <1>0, <1>1, WithoutSongsLength
  <2> HIDE DEF S, n, q
  <2> QED
    BY <1>0, <2>1, <2>2, <2>3, QueueCommandKeepsUp
<1>7. CASE RunMove
  <2>1. QueueCommand(ServerMove(squeue, cmd.dest, cmd.src), 1, Len(items),
                     Move(items, cmd.dest, cmd.src))
    BY <1>7 DEF RunMove
  <2>2. Len(ServerMove(squeue, cmd.dest, cmd.src)) = Len(items)
    BY <1>0, <1>1 DEF ServerMove
  <2> QED
    BY <1>0, <2>1, <2>2, QueueCommandKeepsUp
<1>8. CASE RunClearQueue
  BY <1>8 DEF RunClearQueue, ServerSet
<1>9. CASE PlaySong \/ CommandRefused \/ UNCHANGED <<version, sversion>>
  BY <1>0, <1>9 DEF PlaySong, CommandRefused, serverVars, replicaVars
<1> QED
  BY <1>2, <1>3, <1>4, <1>5, <1>6, <1>7, <1>8, <1>9

\* The cheap routes keep what they promise: after a command of the client's
\* own, a replica that was up to date needs no reload.
THEOREM OwnCommandsKeepUp == Spec => CheapRouteKeepsUp
<1>1. Inv /\ [Next]_vars
        => [UpToDate /\ pc = "command" /\ pc' = "ready" /\ conn' /\ cmd.op # "crop"
            /\ (cmd.op = "delete" => cmd.hi <= Len(items))
              => version' = sversion']_vars
  BY KeepsUpStep
<1> QED
  BY <1>1, SpecImpliesInv, PTL DEF Spec, CheapRouteKeepsUp

-----------------------------------------------------------------------------
(* The current song.  MPD's song is in its queue; current_song is that     *)
(* song whenever nothing is pending, and while Update() waits for the      *)
(* queue, the position it will look up is the song's.                      *)

FollowInv ==
    /\ scur \in Songs(squeue) \cup {NoSong}
    /\ conn /\ link /\ permitted /\ ~changed =>
         /\ pc \in {"ready", "command"} /\ scur # NoSong => current = scur
         /\ pc = "queue" => status.pos = PosOf(squeue, scur)

\* The song at the position of a song is that song.
LEMMA GetCheckedPosOf ==
    ASSUME NEW q \in Seq(Song), NEW s \in Songs(q)
    PROVE  PosOf(q, s) >= 0 /\ GetChecked(q, PosOf(q, s)) = s
<1> DEFINE k == PosOf(q, s)
<1>1. k \in Int /\ k + 1 \in 1..Len(q) /\ q[k + 1] = s
  BY PosOfFacts
<1>2. Len(q) \in Nat
  OBVIOUS
<1> HIDE DEF k
<1>3. k >= 0 /\ k < Len(q)
  BY <1>1, <1>2
<1>4. GetChecked(q, k) = s
  BY <1>1, <1>3 DEF GetChecked
<1> QED
  BY <1>3, <1>4 DEF k

\* So a replica that is the server's queue yields MPD's song.
LEMMA UpdateCurrentFollows ==
    ASSUME NEW q \in Seq(Song), NEW s \in Songs(q), NEW old, NEW st, st.pos = PosOf(q, s)
    PROVE  UpdateCurrent(q, old, st) = s
  BY GetCheckedPosOf DEF UpdateCurrent

LEMMA InSyncNext == Inv' => InSync'
  BY InvImpliesInSync, PTL

\* current_song follows through every step; Update() is why.
LEMMA FollowStep ==
    ASSUME Inv, FreshInv, FollowInv, [Next]_vars, Inv', FreshInv'
    PROVE  FollowInv'
<1> USE DEF serverVars, replicaVars
<1>1. ASSUME NEW q, NEW n, ServerSet(q, n), UNCHANGED <<link, permitted, conn>>
      PROVE  FollowInv'
  BY <1>1 DEF ServerSet, FollowInv
<1>2. CASE ServerEdit
  BY <1>1, <1>2 DEF ServerEdit
<1>3. CASE \/ LinkDown \/ ServerRestart \/ Connected \/ ConnectionLost
  BY <1>3 DEF LinkDown, ServerRestart, Connected, ConnectionLost, Disconnect, FollowInv
<1>4. CASE EnterIdle \/ OnIdle \/ AuthenticationFinished
  BY <1>4 DEF EnterIdle, OnIdle, AuthenticationFinished, FollowInv
<1>5. CASE ServerPlay
  <2>1. changed' = link /\ link' = link /\ squeue' = squeue
        /\ scur' \in Songs(squeue) \cup {NoSong}
    BY <1>5 DEF ServerPlay
  <2> QED
    BY <2>1 DEF FollowInv
<1>6. CASE GiveCommand
  <2>1. /\ pc = "ready" /\ pc' \in {"status", "command"}
        /\ UNCHANGED <<squeue, scur, current, link, permitted, conn>>
    BY <1>6 DEF GiveCommand
  <2>2. pc' = "command" => ~(idle /\ changed)
    BY <1>6 DEF GiveCommand
  <2>3. ~changed' => ~changed \/ idle
    BY <1>6 DEF GiveCommand
  <2> QED
    BY <2>1, <2>2, <2>3 DEF FollowInv
<1>7. CASE RunStatus
  <2>1. /\ status' = ServerStatus /\ status'.pos = PosOf(squeue, scur)
        /\ UNCHANGED <<squeue, scur, link, permitted, conn, changed, items, version, sversion>>
    BY <1>7 DEF RunStatus, ServerStatus
  <2>2. CASE pc' = "queue"
    BY <2>1, <2>2 DEF FollowInv
  <2>3. CASE pc' # "queue"
    <3>1. current' = UpdateCurrent(items, current, ServerStatus) /\ version = sversion
          /\ conn /\ link
      BY <1>7, <2>3 DEF RunStatus
    <3>2. items = squeue
      BY <3>1, InvImpliesInSync DEF InSync, UpToDate
    <3>3. squeue \in Seq(Song)
      BY QueueFacts DEF Inv, TypeOK
    <3>4. ASSUME scur # NoSong
          PROVE  current' = scur
      <4>1. scur \in Songs(squeue)
        BY <3>4 DEF FollowInv
      <4> QED
        BY <2>1, <3>1, <3>2, <3>3, <4>1, UpdateCurrentFollows
    <3> QED
      BY <2>1, <2>3, <3>4 DEF FollowInv
  <2> QED
    BY <2>2, <2>3
<1>8. CASE StatusRefused
  BY <1>8 DEF StatusRefused, FollowInv
<1>9. CASE UpdateQueue \/ UpdateQueueChanges
  <2>1. /\ conn /\ link /\ pc = "queue" /\ pc' \in {"ready", "command"}
        /\ version' = status.version
        /\ current' = UpdateCurrent(items', NoSong, status)
        /\ UNCHANGED <<squeue, sversion, scur, link, permitted, conn, changed>>
    BY <1>9 DEF UpdateQueue, UpdateQueueChanges, AfterUpdate
  <2>2. ASSUME permitted, ~changed, scur # NoSong
        PROVE  current' = scur
    <3>1. status.version = sversion /\ status.pos = PosOf(squeue, scur)
          /\ scur \in Songs(squeue)
      BY <2>1, <2>2 DEF FreshInv, FollowInv
    <3>2. items' = squeue
      BY <2>1, <3>1, InSyncNext DEF InSync, UpToDate
    <3>3. squeue \in Seq(Song)
      BY QueueFacts DEF Inv, TypeOK
    <3> QED
      BY <2>1, <3>1, <3>2, <3>3, UpdateCurrentFollows
  <2> QED
    BY <2>1, <2>2 DEF FollowInv
<1>10. CASE RunAdd \/ RunDelete \/ RunDeleteRange \/ RunDeleteUri \/ RunMove
  <2>1. UNCHANGED <<link, permitted, conn>>
    BY <1>10 DEF RunAdd, RunDelete, RunDeleteRange, RunDeleteUri, RunMove, Return
  <2>2. \E q, n : ServerSet(q, n)
    BY <1>10 DEF RunAdd, RunDelete, RunDeleteRange, RunDeleteUri, RunMove, QueueCommand
  <2> QED
    BY <1>1, <2>1, <2>2
<1>11. CASE RunClearQueue \/ Crop
  <2>1. UNCHANGED <<link, permitted, conn>>
    BY <1>11 DEF RunClearQueue, Crop, Return
  <2>2. \E q, n : ServerSet(q, n)
    BY <1>11 DEF RunClearQueue, Crop
  <2> QED
    BY <1>1, <2>1, <2>2
<1>12. CASE PlaySong
  <2>1. changed' /\ squeue' = squeue /\ scur' \in Songs(squeue)
    BY <1>12 DEF PlaySong
  <2> QED
    BY <2>1 DEF FollowInv
<1>13. CASE UpdateTimer \/ CommandRefused
  BY <1>13 DEF UpdateTimer, CommandRefused, Return, Sends, FollowInv
<1>14. CASE UNCHANGED vars
  BY <1>14 DEF vars, FollowInv
<1> QED
  BY <1>2, <1>3, <1>4, <1>5, <1>6, <1>7, <1>8, <1>9, <1>10, <1>11, <1>12,
     <1>13, <1>14 DEF Next, Update, SendCommand

\* When the client has come to rest, current_song is the song MPD plays,
\* for every set of commands.
THEOREM SongFollowed == Spec => []CurrentFollows
<1>1. Init => FreshInv /\ FollowInv
  BY DEF Init, FreshInv, FollowInv
<1>2. Inv /\ FreshInv /\ FollowInv /\ [Next]_vars /\ Inv' => FreshInv' /\ FollowInv'
  <2>1. Inv => TypeOK
    BY DEF Inv
  <2> QED
    BY <2>1, FreshStep, FollowStep
<1>3. FollowInv => CurrentFollows
  BY DEF FollowInv, CurrentFollows
<1> QED
  BY <1>1, <1>2, <1>3, SpecImpliesInv, PTL DEF Spec

-----------------------------------------------------------------------------
(* current_song points into the playlist.                                  *)

\* GetChecked() returns a song of the queue or null.
LEMMA GetCheckedSong ==
    ASSUME NEW q \in Seq(Song), NEW pos \in Int
    PROVE  GetChecked(q, pos) \in Songs(q) \cup {NoSong}
  BY DEF GetChecked, Songs

\* A song outside of the removed range stays.
LEMMA WithoutRangeKeeps ==
    ASSUME NEW q \in Seq(Song), NEW lo \in Nat, NEW hi \in Nat, hi <= Len(q),
           NEW p \in 1..Len(q), p <= lo \/ p > hi
    PROVE  q[p] \in Songs(WithoutRange(q, lo, hi))
<1> DEFINE n == Len(q) - (hi - lo)
           f == WithoutRange(q, lo, hi)
<1>1. n \in Nat /\ f = [r \in 1..n |-> IF r <= lo THEN q[r] ELSE q[r + (hi - lo)]]
  BY DEF WithoutRange
<1>2. CASE p <= lo
  <2>1. p \in 1..n /\ f[p] = q[p]
    BY <1>1, <1>2
  <2> QED
    BY <1>1, <2>1 DEF Songs
<1>3. CASE p > hi /\ p > lo
  <2> DEFINE r == p - (hi - lo)
  <2>1. r \in 1..n /\ r > lo /\ r + (hi - lo) = p
    BY <1>1, <1>3
  <2>2. f[r] = q[p]
    BY <1>1, <2>1
  <2> QED
    BY <1>1, <2>1, <2>2 DEF Songs
<1> QED
  BY <1>2, <1>3

\* MpdQueue::Move() loses no song.
LEMMA MoveKeeps ==
    ASSUME NEW q \in Seq(Song), NEW dest \in Nat, NEW src \in Nat,
           dest < Len(q), src < Len(q), NEW p \in 1..Len(q)
    PROVE  q[p] \in Songs(Move(q, dest, src))
<1> DEFINE f == Move(q, dest, src)
           r == IF p = src + 1 THEN dest + 1
                ELSE IF src + 1 < p /\ p <= dest + 1 THEN p - 1
                ELSE IF dest + 1 <= p /\ p < src + 1 THEN p + 1
                ELSE p
<1>1. r \in 1..Len(q) /\ DOMAIN f = 1..Len(q)
  BY DEF Move
<1>2. f[r] = q[p]
  BY <1>1 DEF Move
<1> QED
  BY <1>1, <1>2 DEF Songs

\* A pointer that a command keeps, or resets, stays valid when the songs that
\* the command removes from the replica do not include it.
LEMMA CommandValid ==
    ASSUME CurrentValid, NEW q, NEW n, NEW expected, NEW edited,
           QueueCommand(q, n, expected, edited), current' \in {current, NoSong},
           CheapRoute(q, n, expected) /\ current' # NoSong => current \in Songs(edited)
    PROVE  CurrentValid'
  BY DEF QueueCommand, CurrentValid

\* Every step but RunDeleteUri() keeps current_song valid.
LEMMA ValidStep ==
    ASSUME Inv, CurrentValid, [Next]_vars, ~RunDeleteUri, Inv'
    PROVE  CurrentValid'
<1> USE DEF serverVars, replicaVars
<1>0. /\ items \in Seq(Song) /\ items' \in Seq(Song)
      /\ Len(items) \in Nat /\ DOMAIN items = 1..Len(items)
  BY DEF Inv, TypeOK
<1>1. CASE UNCHANGED <<items, current>>
  BY <1>1 DEF CurrentValid
<1>2. CASE current' = NoSong
  BY <1>2 DEF CurrentValid
<1>3. CASE RunStatus
  <2>1. status' \in Statuses /\ UNCHANGED items
    <3>1. status' = ServerStatus /\ UNCHANGED items
      BY <1>3 DEF RunStatus
    <3> QED
      BY <3>1, StatusType DEF Inv
  <2>2. \/ current' = current
        \/ current' = GetChecked(items, ServerStatus.pos)
    BY <1>3 DEF RunStatus, UpdateCurrent
  <2>3. ServerStatus.pos \in Int
    BY StatusType DEF Inv, Statuses
  <2> QED
    BY <1>0, <2>1, <2>2, <2>3, GetCheckedSong DEF CurrentValid
<1>4. CASE UpdateQueue \/ UpdateQueueChanges
  <2>1. /\ pc = "queue" /\ conn /\ link
        /\ current' = GetChecked(items', status.pos)
    BY <1>4 DEF UpdateQueue, UpdateQueueChanges, UpdateCurrent
  <2>2. status \in Statuses
    BY <2>1 DEF Inv, TypeOK, ReplicaInv
  <2>3. status.pos \in Int
    BY <2>2 DEF Statuses
  <2> QED
    BY <1>0, <2>1, <2>3, GetCheckedSong DEF CurrentValid
<1>5. CASE RunAdd
  <2>1. current' = current
    BY <1>5 DEF RunAdd
  <2>2. PICK s \in Song : QueueCommand(Append(squeue, s), 1, Len(items) + 1,
                            Append(items, Append(squeue, s)[Len(items) + 1]))
    BY <1>5 DEF RunAdd
  <2> DEFINE x == Append(squeue, s)[Len(items) + 1]
  <2>3. current # NoSong => current \in Songs(Append(items, x))
    <3> HIDE DEF x
    <3>1. /\ DOMAIN Append(items, x) = 1..(Len(items) + 1)
          /\ \A p \in 1..Len(items) : Append(items, x)[p] = items[p]
      BY <1>0
    <3> QED
      BY <1>0, <3>1 DEF CurrentValid, Songs
  <2> HIDE DEF x
  <2> QED
    BY <2>1, <2>2, <2>3, CommandValid DEF x
<1>6. CASE RunDelete
  <2> DEFINE s == items[cmd.lo + 1]
             k == PosOf(squeue, s)
             q == WithoutRange(squeue, k, k + 1)
             edited == WithoutRange(items, cmd.lo, cmd.hi)
  <2>1. cmd.op = "delete" /\ cmd.hi = cmd.lo + 1 /\ cmd.lo < Len(items)
    BY <1>6 DEF RunDelete, Sends
  <2>2. cmd.lo \in Nat /\ cmd.hi \in Nat
    BY <2>1 DEF Inv, TypeOK, CommandRecords
  <2>3. /\ QueueCommand(q, 1, Len(items) - 1, edited)
        /\ current' = IF CheapRoute(q, 1, Len(items) - 1) /\ current = s
                        THEN NoSong ELSE current
    BY <1>6 DEF RunDelete
  <2>4. ASSUME CheapRoute(q, 1, Len(items) - 1), current' # NoSong
        PROVE  current \in Songs(edited)
    <3>1. current # s /\ current # NoSong
      BY <2>3, <2>4
    <3>2. PICK p \in 1..Len(items) : current = items[p]
      BY <1>0, <3>1 DEF CurrentValid, Songs
    <3>3. p # cmd.lo + 1
      BY <3>1, <3>2
    <3>4. p <= cmd.lo \/ p > cmd.hi
      BY <1>0, <2>1, <2>2, <3>3
    <3>5. cmd.hi <= Len(items)
      BY <1>0, <2>1, <2>2
    <3> QED
      BY <1>0, <2>2, <3>2, <3>4, <3>5, WithoutRangeKeeps
  <2>5. current' \in {current, NoSong}
    BY <2>3
  <2> HIDE DEF q, edited
  <2> QED
    BY <2>3, <2>4, <2>5, CommandValid
<1>7. CASE RunDeleteRange
  <2> DEFINE end == Smaller(cmd.hi, Len(squeue))
             q == WithoutRange(squeue, cmd.lo, end)
             expected == Len(items) - (cmd.hi - cmd.lo)
             edited == WithoutRange(items, cmd.lo, cmd.hi)
  <2>1. cmd.op = "delete" /\ cmd.lo < Len(squeue) /\ conn /\ link
    BY <1>7 DEF RunDeleteRange, Sends
  <2>2. cmd.lo \in Nat /\ cmd.hi \in Nat
    BY <2>1 DEF Inv, TypeOK, CommandRecords
  <2>3. /\ QueueCommand(q, 1, expected, edited)
        /\ current' = IF /\ CheapRoute(q, 1, expected)
                         /\ current \in {items[i] : i \in (cmd.lo + 1)..cmd.hi}
                        THEN NoSong ELSE current
    BY <1>7 DEF RunDeleteRange
  <2>4. ASSUME CheapRoute(q, 1, expected), current' # NoSong
        PROVE  current \in Songs(edited)
    <3>1. current \notin {items[i] : i \in (cmd.lo + 1)..cmd.hi} /\ current # NoSong
      BY <2>3, <2>4
    <3>2. PICK p \in 1..Len(items) : current = items[p]
      BY <1>0, <3>1 DEF CurrentValid, Songs
    <3>3. p \notin (cmd.lo + 1)..cmd.hi
      BY <3>1, <3>2
    <3>4. p <= cmd.lo \/ p > cmd.hi
      BY <1>0, <2>2, <3>3
    <3>5. cmd.hi <= Len(items)
      <4>1. items = squeue /\ Len(q) = expected
        <5> HIDE DEF q, expected
        <5> QED
          BY <2>1, <2>4, CheapRouteFromSync
      <4>2. CASE cmd.hi > Len(squeue)
        <5>1. end = Len(squeue)
          BY <1>0, <2>2, <4>1, <4>2 DEF Smaller
        <5>2. Len(q) = cmd.lo
          <6>1. cmd.lo <= Len(squeue) /\ Len(squeue) \in Nat /\ Len(squeue) <= Len(squeue)
            BY <1>0, <2>1, <2>2, <4>1
          <6>2. squeue \in Seq(Song)
            BY <1>0, <4>1
          <6>3. Len(WithoutRange(squeue, cmd.lo, Len(squeue)))
                  = Len(squeue) - (Len(squeue) - cmd.lo)
            BY <2>2, <6>1, <6>2, WithoutRangeFacts, Zenon
          <6> QED
            BY <2>2, <5>1, <6>1, <6>3
        <5>3. cmd.lo = Len(items) - (cmd.hi - cmd.lo)
          <6> HIDE DEF q
          <6> QED
            BY <4>1, <5>2
        <5> QED
          BY <1>0, <2>2, <5>3
      <4> QED
        BY <1>0, <2>2, <4>1, <4>2
    <3> QED
      BY <1>0, <2>2, <3>2, <3>4, <3>5, WithoutRangeKeeps
  <2>5. current' \in {current, NoSong}
    BY <2>3
  <2> HIDE DEF q, edited, expected
  <2> QED
    BY <2>3, <2>4, <2>5, CommandValid
<1>8. CASE RunMove
  <2> DEFINE q == ServerMove(squeue, cmd.dest, cmd.src)
             edited == Move(items, cmd.dest, cmd.src)
  <2>1. /\ cmd.op = "move" /\ conn /\ link /\ current' = current
        /\ cmd.dest < Len(squeue) /\ cmd.src < Len(squeue)
        /\ QueueCommand(q, 1, Len(items), edited)
    BY <1>8 DEF RunMove, Sends
  <2>2. cmd.dest \in Nat /\ cmd.src \in Nat
    BY <2>1 DEF Inv, TypeOK, CommandRecords
  <2>3. ASSUME CheapRoute(q, 1, Len(items)), current' # NoSong
        PROVE  current \in Songs(edited)
    <3>1. items = squeue
      <4> HIDE DEF q
      <4> QED
        BY <2>1, <2>3, CheapRouteFromSync
    <3>2. PICK p \in 1..Len(items) : current = items[p]
      BY <1>0, <2>1, <2>3 DEF CurrentValid, Songs
    <3>3. cmd.dest < Len(items) /\ cmd.src < Len(items)
      BY <2>1, <3>1
    <3> QED
      BY <1>0, <2>2, <3>2, <3>3, MoveKeeps
  <2> HIDE DEF q, edited
  <2> QED
    BY <2>1, <2>3, CommandValid
<1>9. \/ RunStatus \/ UpdateQueue \/ UpdateQueueChanges
      \/ RunAdd \/ RunDelete \/ RunDeleteRange \/ RunMove
      \/ current' = NoSong \/ UNCHANGED <<items, current>>
  BY DEF Next, Update, SendCommand, vars, ServerEdit, ServerPlay, LinkDown, ServerRestart,
         Connected, ConnectionLost, Disconnect, EnterIdle, OnIdle, AuthenticationFinished,
         GiveCommand, StatusRefused, RunClearQueue, Crop, PlaySong, UpdateTimer, CommandRefused
<1> QED
  BY <1>1, <1>2, <1>3, <1>4, <1>5, <1>6, <1>7, <1>8, <1>9

\* As long as nobody deletes by URI, current_song follows MPD and never points
\* to a song that has left the playlist.
THEOREM CurrentSongIsRight ==
    ASSUME "deleteUri" \notin Commands
    PROVE  Spec => []CurrentSongRight
<1>1. Init => CurrentValid
  BY DEF Init, CurrentValid
<1>2. CmdInv => ~RunDeleteUri
  BY DEF CmdInv, RunDeleteUri, Sends
<1>3. Inv /\ CmdInv /\ CurrentValid /\ [Next]_vars /\ Inv' => CurrentValid'
  BY <1>2, ValidStep
<1>4. CurrentFollows /\ CurrentValid => CurrentSongRight
  BY DEF CurrentSongRight
<1> QED
  BY <1>1, <1>3, <1>4, SpecImpliesInv, CmdAlways, SongFollowed, PTL DEF Spec
=============================================================================
