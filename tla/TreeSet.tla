-------------------------------- MODULE TreeSet --------------------------------
(***************************************************************************)
(* The red-black tree of util/RedBlackTree.hxx and the sorted set on top   *)
(* of it, util/IntrusiveTreeSet.hxx, in which TimerList keeps its timers:  *)
(* nodes with pointers, changed in place.  A tree is a record of the       *)
(* pointers and the colors; directions are 0 (left) and 1 (right).  The    *)
(* children of an item that is not linked are never read before Init();    *)
(* they are taken to be NoItem.                                            *)
(***************************************************************************)
EXTENDS Naturals, Integers, Sequences, FiniteSets

CONSTANTS
    TreeItems,      \* the objects with a hook
    KeyOf,      \* their keys (GetKey), numbers
    TreeHead,   \* IntrusiveTreeSet::head
    NoItem      \* nullptr

ASSUME TreeAssumption == TreeHead \notin TreeItems /\ NoItem \notin TreeItems /\ KeyOf \in [TreeItems -> Nat]

VARIABLE tree

Directions == {0, 1}
Other(d) == 1 - d
NoDirection == 2

Nodes == TreeItems \cup {TreeHead}
Trees == [child : [Nodes -> [Directions -> TreeItems \cup {NoItem}]],
          parent : [TreeItems -> Nodes \cup {NoItem}],
          color : [TreeItems -> {"red", "black"}]]

Root(t) == t.child[TreeHead][0]
IsRoot(t, n) == t.parent[n] = TreeHead
Linked(t) == {i \in TreeItems : t.parent[i] # NoItem}

DirectionOf(t, p, n) == IF t.child[p][0] = n THEN 0 ELSE 1
Paint(t, n, color) == [t EXCEPT !.color[n] = color]

SetChild(t, n, d, child) ==
    [t EXCEPT !.child[n][d] = child,
              !.parent = IF child = NoItem THEN @ ELSE [@ EXCEPT ![child] = n]]

\* Rotate(): the other child, which comes up, is "top"
Rotate(t, n, d) ==
    LET x == t.child[n][Other(d)]
        y == t.child[x][d]
    IN  [tree |-> SetChild(SetChild(t, x, d, n), n, Other(d), y), top |-> x]

RotateInParent(t, n, d) ==
    LET p == t.parent[n]
        r == Rotate(t, n, d)
    IN  SetChild(r.tree, p, DirectionOf(t, p, n), r.top)

RECURSIVE LeftMost(_, _)
LeftMost(t, n) == IF t.child[n][0] = NoItem THEN n ELSE LeftMost(t, t.child[n][0])

\* GetNextNode(), with GetLeftHandedParent()
RECURSIVE LeftHandedParent(_, _)
LeftHandedParent(t, n) ==
    LET p == t.parent[n]
    IN  IF p = TreeHead THEN NoItem ELSE IF DirectionOf(t, p, n) = 0 THEN p ELSE LeftHandedParent(t, p)

NextNode(t, n) == IF t.child[n][1] # NoItem THEN LeftMost(t, t.child[n][1]) ELSE LeftHandedParent(t, n)

-----------------------------------------------------------------------------
(* Inserting *)

\* Mutant: in front of the items with the same key
InsertDirectionFirst(t, n, item) == IF KeyOf[item] <= KeyOf[n] THEN 0 ELSE 1

GetInsertDirection(t, n, item) == IF KeyOf[item] < KeyOf[n] THEN 0 ELSE 1

RotateIf(t, base, d) ==
    IF d = NoDirection THEN t
    ELSE LET r == Rotate(t, t.child[base][d], d) IN SetChild(r.tree, base, d, r.top)

\* The child has been rotated (rotate1), base is to be (rotate2): the new base is "top".
RotateBaseIf(t, base, d) ==
    IF d = NoDirection THEN [tree |-> t, top |-> base]
    ELSE LET r == Rotate(Paint(t, base, "red"), base, d) IN [tree |-> Paint(r.tree, r.top, "black"), top |-> r.top]

IsRed(t, n) == n # NoItem /\ t.color[n] = "red"

Done(t, top) == [tree |-> t, top |-> top, rotate1 |-> NoDirection, rotate2 |-> NoDirection]

\* A red node with a red parent: paint parent and uncle, or let the grandparent rotate.
Recolor(t, base) ==
    LET p == t.parent[base]
        d == DirectionOf(t, p, base)
        sibling == t.child[p][Other(d)]
        black == Paint(Paint(t, sibling, "black"), base, "black")
    IN  IF IsRed(t, sibling) THEN Done(IF p = Root(t) THEN black ELSE Paint(black, p, "red"), base)
        ELSE IF IsRed(t, t.child[base][Other(d)])
        THEN [tree |-> t, top |-> base, rotate1 |-> d, rotate2 |-> Other(d)]
        ELSE IF IsRed(t, t.child[base][d])
        THEN [tree |-> t, top |-> base, rotate1 |-> NoDirection, rotate2 |-> Other(d)]
        ELSE Done(t, base)

RECURSIVE InsertAt(_, _, _)
InsertAt(t, base, item) ==
    IF base = NoItem THEN Done(Paint(t, item, "red"), item)
    ELSE LET d == GetInsertDirection(t, base, item)
             sub == InsertAt(t, t.child[base][d], item)
             linked == SetChild(sub.tree, base, d, sub.top)
             conflict == base # Root(t) /\ linked.color[base] = "red" /\ linked.color[sub.top] = "red"
             rotated == RotateBaseIf(RotateIf(linked, base, sub.rotate1), base, sub.rotate2)
         IN  IF conflict THEN Recolor(rotated.tree, rotated.top) ELSE Done(rotated.tree, rotated.top)

InsertTreeItem(t, item) ==
    IF Root(t) = NoItem THEN SetChild(Paint(t, item, "black"), TreeHead, 0, item)
    ELSE LET r == InsertAt(t, Root(t), item) IN SetChild(r.tree, TreeHead, 0, r.top)

-----------------------------------------------------------------------------
(* Removing *)

RedChild(t, n) ==
    IF IsRed(t, t.child[n][0]) THEN 0 ELSE IF IsRed(t, t.child[n][1]) THEN 1 ELSE NoDirection

\* A black sibling with a red child
Nephew(t, n, sibling, red, d) ==
    LET p == t.parent[n]
        outside == Paint(Paint(t, red, t.color[sibling]), sibling, t.color[p])
        inside == RotateInParent(Paint(t, red, t.color[p]), sibling, Other(d))
        inner == DirectionOf(t, sibling, red) = d
    IN  Paint(RotateInParent(IF inner THEN inside ELSE outside, p, d), p, "black")

RECURSIVE FixDoubleBlack(_, _)
FixDoubleBlack(t, n) ==
    LET p == t.parent[n]
        d == DirectionOf(t, p, n)
        sibling == t.child[p][Other(d)]
    IN  IF IsRoot(t, n) THEN t
        ELSE IF sibling = NoItem THEN FixDoubleBlack(t, p)
        ELSE IF t.color[sibling] = "red"
        THEN FixDoubleBlack(RotateInParent(Paint(Paint(t, p, "red"), sibling, "black"), p, d), n)
        ELSE IF RedChild(t, sibling) # NoDirection
        THEN Nephew(t, n, sibling, t.child[sibling][RedChild(t, sibling)], d)
        ELSE LET lighter == Paint(t, sibling, "red")
             IN  IF t.color[p] = "black" THEN FixDoubleBlack(lighter, p) ELSE Paint(lighter, p, "black")

HasTwoChildren(t, n) == t.child[n][0] # NoItem /\ t.child[n][1] # NoItem
AnyChild(t, n) == IF t.child[n][1] # NoItem THEN t.child[n][1] ELSE t.child[n][0]

\* The node changes places, and colors, with its successor.
SwapWithSuccessor(t, n) ==
    LET right == t.child[n][1]
        s == LeftMost(t, right)
        p == t.parent[n]
        colors == [t EXCEPT !.color[n] = t.color[s], !.color[s] = t.color[n]]
        left == SetChild(SetChild(SetChild(colors, s, 0, t.child[n][0]), n, 0, NoItem), n, 1, t.child[s][1])
        below == IF s = right THEN SetChild(left, s, 1, n)
                 ELSE SetChild(SetChild(left, left.parent[s], 0, n), s, 1, right)
    IN  SetChild(below, p, DirectionOf(t, p, n), s)

\* Unlink(); then the hook forgets its parent (TRACK).
UnlinkNode(t, n) ==
    LET s == IF HasTwoChildren(t, n) THEN SwapWithSuccessor(t, n) ELSE t
        child == AnyChild(s, n)
        fixed == IF s.color[n] = "black" THEN FixDoubleBlack(s, n) ELSE s
        ReplaceMe(u, c) == SetChild(u, u.parent[n], DirectionOf(u, u.parent[n], n), c)
        unlinked == IF child # NoItem THEN Paint(ReplaceMe(s, child), child, "black")
                    ELSE IF IsRoot(s, n) THEN SetChild(s, TreeHead, 0, NoItem)
                    ELSE ReplaceMe(fixed, NoItem)
    IN  [unlinked EXCEPT !.parent[n] = NoItem, !.child[n] = [d \in Directions |-> NoItem], !.color[n] = "black"]

-----------------------------------------------------------------------------
EmptyTree ==
    [child |-> [n \in Nodes |-> [d \in Directions |-> NoItem]], parent |-> [i \in TreeItems |-> NoItem],
     color |-> [i \in TreeItems |-> "black"]]

TreeInit == tree = EmptyTree

Insert == \E item \in TreeItems \ Linked(tree) : tree' = InsertTreeItem(tree, item)

\* erase(), the destructor of an AUTO_UNLINK hook, and pop_front()
Erase == \E item \in Linked(tree) : tree' = UnlinkNode(tree, item)

\* clear(), clear_and_dispose()
ClearTree == tree' = EmptyTree

TreeNext == Insert \/ Erase \/ ClearTree

TreeSpec == TreeInit /\ [][TreeNext]_tree

-----------------------------------------------------------------------------
(* Properties *)

\* The items from begin() to end()
InOrder(t) ==
    LET from[n \in TreeItems \cup {NoItem}] == IF n = NoItem THEN <<>> ELSE <<n>> \o from[NextNode(t, n)]
    IN  IF Root(t) = NoItem THEN <<>> ELSE from[LeftMost(t, Root(t))]

\* Pointers are consistent: whoever has a parent is its child, on one side only, and the
\* other way round; the root hangs on the head's left.
TreeTypeOK ==
    /\ tree \in Trees
    /\ tree.child[TreeHead][1] = NoItem
    /\ \A i \in Linked(tree) : Cardinality({d \in Directions : tree.child[tree.parent[i]][d] = i}) = 1
    /\ \A n \in Nodes, d \in Directions : tree.child[n][d] # NoItem => tree.parent[tree.child[n][d]] = n

\* BlackHeight(), the code's own check: no red node has a red parent, and all paths from a
\* node down have the same number of black nodes (-1 if they have not).
RECURSIVE BlackHeight(_, _)
BlackHeight(t, n) ==
    IF n = NoItem THEN 1
    ELSE LET left == BlackHeight(t, t.child[n][0])
             right == BlackHeight(t, t.child[n][1])
         IN  IF left = -1 \/ left # right \/ (IsRed(t, n) /\ (IsRed(t, t.child[n][0]) \/ IsRed(t, t.child[n][1])))
             THEN -1 ELSE left + IF IsRed(t, n) THEN 0 ELSE 1

\* The root is black, no red node has a red child, every path has the same number of black
\* nodes: a search takes logarithmic time after any insertions and removals.
Balanced == ~IsRed(tree, Root(tree)) /\ BlackHeight(tree, Root(tree)) # -1

Sorted == INSTANCE SortedItems WITH items <- InOrder(tree)

\* The tree is a sorted list; timers that are due at the same time keep their order.
TreeIsSorted == Sorted!ItemsSpec

\* The red-black tree is one after any insertions and removals, and is a sorted list.
TreeKept == [](TreeTypeOK /\ Balanced) /\ TreeIsSorted
=============================================================================
