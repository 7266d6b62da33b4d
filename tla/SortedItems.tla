------------------------------ MODULE SortedItems ------------------------------
(***************************************************************************)
(* What an IntrusiveTreeSet promises: the items are in the order of their  *)
(* keys, and items with the same key in the order in which they were       *)
(* inserted.                                                               *)
(***************************************************************************)
EXTENDS Naturals, Sequences, Functions

CONSTANTS TreeItems, KeyOf

VARIABLE items

\* behind the items whose keys are not greater
With(list, item) ==
    SelectSeq(list, LAMBDA i : KeyOf[i] <= KeyOf[item]) \o <<item>>
    \o SelectSeq(list, LAMBDA i : KeyOf[i] > KeyOf[item])

Without(list, item) == SelectSeq(list, LAMBDA i : i # item)

ItemsInit == items = <<>>

AddItem == \E old \in {items} : \E item \in TreeItems \ Range(old) : items' = With(old, item)
RemoveItem == \E old \in {items} : \E item \in Range(old) : items' = Without(old, item)
RemoveAll == items' = <<>>

ItemsSpec == ItemsInit /\ [][RemoveAll \/ AddItem \/ RemoveItem]_items
=============================================================================
