------------------------------- MODULE ItemLists -------------------------------
(***************************************************************************)
(* What the intrusive lists promise: each is a sequence of items, an item  *)
(* is in one of them at most, and items move between them in order.        *)
(***************************************************************************)
EXTENDS Naturals, Sequences, SequencesExt

CONSTANTS ListItems, ListHeads

VARIABLE lists

Held == UNION {ToSet(lists[l]) : l \in ListHeads}

\* the items of "more" between the first k of a list and the others
Spliced(list, k, more) == SubSeq(list, 1, k) \o more \o SubSeq(list, k + 1, Len(list))
Replaced(all, l, list) == [k \in ListHeads |-> IF k = l THEN list ELSE all[k]]
Rest(list, S) == SelectSeq(list, LAMBDA i : i \notin S)

ListsInit == lists = [l \in ListHeads |-> <<>>]

Add == \E l \in ListHeads, i \in ListItems \ Held : \E k \in 0..Len(lists[l]) :
         lists' = [lists EXCEPT ![l] = Spliced(@, k, <<i>>)]

Discard == \E l \in ListHeads : \E S \in SUBSET ToSet(lists[l]) : lists' = [lists EXCEPT ![l] = Rest(@, S)]

\* a run of items, or a whole list, goes elsewhere
Transfer ==
    \E from \in ListHeads, to \in ListHeads :
      \E run \in SubSeqs(lists[from]) :
        LET left == Replaced(lists, from, Rest(lists[from], ToSet(run)))
        IN  \E k \in 0..Len(left[to]) : lists' = Replaced(left, to, Spliced(left[to], k, run))

Exchange == \E a, b \in ListHeads : lists' = [lists EXCEPT ![a] = lists[b], ![b] = lists[a]]

ListsSpec == ListsInit /\ [][Discard \/ Add \/ Transfer \/ Exchange]_lists
=============================================================================
