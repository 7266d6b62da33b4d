----------------------------- MODULE IntrusiveList -----------------------------
(***************************************************************************)
(* util/IntrusiveList.hxx as the event loop uses it for its deferred,      *)
(* idle and ready events and TimerWheel for its slots: circular lists of   *)
(* hooks that unlink themselves when their object goes (AUTO_UNLINK), with *)
(* no counter.  ring.next and ring.prev are the pointers of the heads and  *)
(* of the hooks; the prev of a hook that is not linked is never read and   *)
(* is taken to be NoNode.                                                  *)
(***************************************************************************)
EXTENDS Naturals, Sequences, FiniteSets

CONSTANTS ListItems, ListHeads, NoNode

ASSUME RingAssumption == ListItems \cap ListHeads = {} /\ NoNode \notin ListItems \cup ListHeads

VARIABLE ring

RingNodes == ListItems \cup ListHeads

Connect(r, a, b) == [r EXCEPT !.next[a] = b, !.prev[b] = a]

IsEmpty(r, l) == r.next[l] = l
IsLinked(r, i) == r.next[i] # NoNode
ResetHead(r, l) == Connect(r, l, l)

Unlink(r, i) == [Connect(r, r.prev[i], r.next[i]) EXCEPT !.next[i] = NoNode, !.prev[i] = NoNode]

\* insert(), before the node p
InsertBefore(r, p, i) == Connect(Connect(r, r.prev[p], i), i, p)

\* The items from first up to, but not including, end go before the node p.
SpliceRange(r, p, first, end) ==
    IF first = end THEN r
    ELSE Connect(Connect(Connect(r, r.prev[first], end), r.prev[p], first), r.prev[end], p)

\* the move constructor, and one half of swap(): "to" takes what "from" has
TakeAll(r, to, from) ==
    IF IsEmpty(r, from) THEN r
    ELSE ResetHead(Connect(Connect(r, to, r.next[from]), r.prev[from], to), from)

SwapLists(r, a, b) ==
    IF IsEmpty(r, a) THEN TakeAll(r, a, b) ELSE IF IsEmpty(r, b) THEN TakeAll(r, b, a)
    ELSE Connect(Connect(Connect(Connect(r, a, r.next[b]), r.prev[b], a), b, r.next[a]), r.prev[a], b)

\* clear(), clear_and_dispose() with a disposer that leaves the list alone
RECURSIVE ClearList(_, _)
ClearList(r, l) == IF IsEmpty(r, l) THEN r ELSE ClearList(Unlink(r, r.next[l]), l)

\* remove_and_dispose_if(): n is the node to look at, its successor is read before it goes.
RECURSIVE RemoveFrom(_, _, _, _)
RemoveFrom(r, l, n, S) ==
    IF n = l THEN r ELSE RemoveFrom(IF n \in S THEN Unlink(r, n) ELSE r, l, r.next[n], S)

-----------------------------------------------------------------------------
\* The items of a list, as an iterator finds them; a ring that does not close is cut off.
ItemsOf(r, l) ==
    LET walk[s \in Seq(RingNodes)] ==
          LET n == r.next[s[Len(s)]] IN IF n \notin ListItems \/ Len(s) > Cardinality(ListItems) THEN s ELSE walk[Append(s, n)]
    IN  Tail(walk[<<l>>])

MembersOf(r, l) == {i \in ListItems : \E k \in DOMAIN ItemsOf(r, l) : ItemsOf(r, l)[k] = i}

RingInit ==
    ring = [next |-> [n \in RingNodes |-> IF n \in ListHeads THEN n ELSE NoNode],
            prev |-> [n \in RingNodes |-> IF n \in ListHeads THEN n ELSE NoNode]]

\* push_front(), push_back(), insert(), insert_after(): before any node of a list
InsertItem ==
    \E l \in ListHeads, i \in ListItems :
      /\ ~IsLinked(ring, i)
      /\ \E p \in MembersOf(ring, l) \cup {l} : ring' = InsertBefore(ring, p, i)

\* unlink(), erase(), pop_front(), pop_back(), the destructor of a hook
UnlinkItem == \E i \in ListItems : IsLinked(ring, i) /\ ring' = Unlink(ring, i)

\* One item goes before any other node.
SpliceItem ==
    \E l \in ListHeads, i \in ListItems :
      /\ IsLinked(ring, i)
      /\ \E p \in (MembersOf(ring, l) \cup {l}) \ {i} : ring' = InsertBefore(Unlink(ring, i), p, i)

\* A range, or all, of another list goes before any node.
SpliceItems ==
    \E from \in ListHeads : \E to \in ListHeads \ {from} :
      \E first \in MembersOf(ring, from), p \in MembersOf(ring, to) \cup {to} :
        \/ ring' = SpliceRange(ring, p, ring.next[from], from)
        \/ \E last \in MembersOf(ring, from) :
             /\ \E a \in DOMAIN ItemsOf(ring, from) : \E b \in DOMAIN ItemsOf(ring, from) :
                  a <= b /\ ItemsOf(ring, from)[a] = first /\ ItemsOf(ring, from)[b] = last
             /\ ring' = SpliceRange(ring, p, first, ring.next[last])

\* The new list is one that has nothing yet.
MoveList == \E from, to \in ListHeads : IsEmpty(ring, to) /\ ring' = TakeAll(ring, to, from)

ExchangeLists == \E from, to \in ListHeads : from # to /\ ring' = SwapLists(ring, from, to)

ClearItems == \E l \in ListHeads : ring' = ClearList(ring, l)

RemoveItems == \E l \in ListHeads : \E S \in SUBSET ListItems : ring' = RemoveFrom(ring, l, ring.next[l], S)

RingNext ==
    \/ InsertItem \/ UnlinkItem \/ SpliceItem \/ SpliceItems
    \/ MoveList \/ ExchangeLists \/ ClearItems \/ RemoveItems

RingSpec == RingInit /\ [][RingNext]_ring

-----------------------------------------------------------------------------
(* Properties *)

\* The pointers: forward and backward agree, and a linked item is in exactly one list.
RingTypeOK ==
    /\ ring \in [next : [RingNodes -> RingNodes \cup {NoNode}], prev : [RingNodes -> RingNodes \cup {NoNode}]]
    /\ \A n \in RingNodes : ring.next[n] # NoNode => ring.prev[ring.next[n]] = n
    /\ \A i \in ListItems : IsLinked(ring, i) <=> Cardinality({l \in ListHeads : i \in MembersOf(ring, l)}) = 1

Rings == INSTANCE ItemLists WITH lists <- [l \in ListHeads |-> ItemsOf(ring, l)]

\* Whatever is done with the pointers, the lists are sequences that change as ItemLists says:
\* nothing is lost, doubled or reordered by splice(), swap() or a move.
RingsAreLists == Rings!ListsSpec

\* The rings of pointers are rings, and are the sequences they stand for.
RingsKept == []RingTypeOK /\ RingsAreLists
=============================================================================
