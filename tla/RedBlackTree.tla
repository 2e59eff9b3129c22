---------------------------- MODULE RedBlackTree ----------------------------
(***************************************************************************)
(* jaf::RedBlackTree (util/red_black_tree.h), which holds the tasks of     *)
(* Timer in the order of their moments.                                    *)
(*                                                                         *)
(* A tree is a record of its own members and, per node, the members of     *)
(* Node.  The code spells out every case for the left and for the right;   *)
(* here a side is a parameter.  The tree is used under the mutex of its    *)
(* owner, so that each operation is one step.                              *)
(***************************************************************************)
EXTENDS Integers, Sequences, FiniteSets

CONSTANTS
    Nodes,                \* the memory Insert allocates nodes from
    Key,                  \* [Nodes -> Int], the key a node is inserted with
    ErasedKeys,           \* the keys Erase(key) is called with
    Loads,                \* sequences of nodes the tree may have been filled with
    Refills,              \* bound: insertions after that are into trees of these nodes
    Nil                   \* nullptr

ASSUME TreeAssumption ==
    /\ Nil \notin Nodes /\ IsFiniteSet(Nodes) /\ Key \in [Nodes -> Int] /\ ErasedKeys \subseteq Int
    /\ Refills \subseteq Nodes /\ Loads \subseteq Seq(Nodes)
    /\ \A load \in Loads : \A i, j \in 1..Len(load) : load[i] = load[j] => i = j

VARIABLES
    tree,
    order                 \* history: what an iterator visits from begin() on

vars == <<tree, order>>

Sides == {"left", "right"}
Opposite(s) == IF s = "left" THEN "right" ELSE "left"

Empty ==
    [root_ |-> Nil, min_ |-> Nil, max_ |-> Nil, size_ |-> 0,
     alive |-> {},                                   \* the nodes not deleted
     child_ |-> [s \in Sides |-> [n \in Nodes |-> Nil]],
     parent_ |-> [n \in Nodes |-> Nil],
     color_ |-> [n \in Nodes |-> "black"]]

------------------------------------------------------------------------------
(* Reading a tree *)

Side(t, n) == IF t.child_["left"][t.parent_[n]] = n THEN "left" ELSE "right"
IsRed(t, n) == n # Nil /\ t.color_[n] = "red"
GetBrother(t, n) == t.child_[Opposite(Side(t, n))][t.parent_[n]]

\* Min and Max of the nodes under n.
Outermost(t, n, s) ==
    LET From[m \in Nodes] == IF t.child_[s][m] = Nil THEN m ELSE From[t.child_[s][m]]
    IN  From[n]

FirstAncestorRightOf(t, n) ==
    LET From[m \in Nodes] == IF t.parent_[m] = Nil THEN Nil
                             ELSE IF Side(t, m) = "left" THEN t.parent_[m]
                             ELSE From[t.parent_[m]]
    IN  From[n]

NestNode(t, n) ==
    IF t.child_["right"][n] # Nil THEN Outermost(t, t.child_["right"][n], "left")
    ELSE FirstAncestorRightOf(t, n)

\* The last node on the way down that is not passed to its right, Nil if there is none:
\* those of keys below k are passed and, if past, those of key k.
Bound(t, k, past) ==
    LET From[m \in Nodes \cup {Nil}] ==
            IF m = Nil THEN Nil
            ELSE IF Key[m] < k \/ (past /\ Key[m] = k) THEN From[t.child_["right"][m]]
            ELSE LET under == From[t.child_["left"][m]] IN IF under = Nil THEN m ELSE under
    IN  From[t.root_]

\* Mutant: a key equal to the one sought is passed.
PastEqual(t, k) == Bound(t, k, TRUE)

LowerBoundNode(t, k) == Bound(t, k, FALSE)
UpperBoundNode(t, k) == Bound(t, k, TRUE)

Find(t, k) ==
    LET From[m \in Nodes \cup {Nil}] ==
            IF m = Nil THEN Nil
            ELSE IF Key[m] = k THEN m
            ELSE From[t.child_[IF k < Key[m] THEN "left" ELSE "right"][m]]
    IN  From[t.root_]

\* operator++ from begin() to end().
Visited(t) ==
    LET Seen[i \in 0..Cardinality(Nodes)] ==
            IF i = 0 THEN << >>
            ELSE LET seen == Seen[i - 1]
                     next == IF i = 1 THEN t.min_ ELSE NestNode(t, seen[i - 1])
                 IN  IF Len(seen) < i - 1 \/ next = Nil THEN seen ELSE Append(seen, next)
    IN  Seen[Cardinality(Nodes)]

------------------------------------------------------------------------------
(* Loops that change the tree *)

\* A loop takes on a tree and the node it is at, Nil behind its last round.  It
\* goes up or along the tree, so that there are no more rounds than nodes.
Rounds(Round(_), start) ==
    LET After[i \in 0..Cardinality(Nodes)] ==
            IF i = 0 THEN start ELSE LET before == After[i - 1] IN Round(before)
    IN  After[Cardinality(Nodes)]

------------------------------------------------------------------------------
(* Turning links *)

\* Whoever points down at n, a parent or the tree, points at m instead.
Relink(t, n, m) ==
    IF t.parent_[n] = Nil THEN [t EXCEPT !.root_ = m]
    ELSE [t EXCEPT !.child_[Side(t, n)][t.parent_[n]] = m]

SetParent(t, n, p) == IF n = Nil THEN t ELSE [t EXCEPT !.parent_[n] = p]

Paint(t, n, c) == [t EXCEPT !.color_[n] = c]

\* LeftRotate and RightRotate: n sinks to the side s, its other child rises.
Rotate(t, n, s) ==
    LET up == t.child_[Opposite(s)][n]
        inner == t.child_[s][up]
    IN  [SetParent(Relink(t, n, up), inner, n) EXCEPT
            !.child_[Opposite(s)][n] = inner,
            !.child_[s][up] = n,
            !.parent_[n] = up,
            !.parent_[up] = t.parent_[n]]

------------------------------------------------------------------------------
(* Insert *)

\* Mutant: a node goes before those of the same key.
BeforeEqual(n, p) == IF Key[n] <= Key[p] THEN "left" ELSE "right"

WayDown(n, p) == IF Key[n] < Key[p] THEN "left" ELSE "right"

\* The parent of a new node n.
Leaf(t, n) ==
    LET From[p \in Nodes] ==
            IF t.child_[WayDown(n, p)][p] = Nil THEN p ELSE From[t.child_[WayDown(n, p)][p]]
    IN  From[t.root_]

\* A red uncle: the red of the two goes up to the grandparent, if that is not the root.
Recolored(t, n) ==
    LET p == t.parent_[n]
        g == t.parent_[p]
        painted == Paint(Paint(t, p, "black"), GetBrother(t, p), "black")
    IN  IF t.parent_[g] = Nil THEN <<painted, Nil>> ELSE <<Paint(painted, g, "red"), g>>

\* No red uncle: the parent, or n if it is on the inside, is turned above the grandparent.
Turned(t, n) ==
    LET p == t.parent_[n]
        g == t.parent_[p]
        s == Side(t, p)
    IN  IF Side(t, n) = s
        THEN Paint(Paint(Rotate(t, g, Opposite(s)), p, "black"), g, "red")
        ELSE Paint(Paint(Rotate(Rotate(t, p, s), g, Opposite(s)), n, "black"), g, "red")

AdjustRound(loop) ==
    LET t == loop[1]
        n == loop[2]
    IN  IF n = Nil THEN loop
        ELSE IF ~IsRed(t, t.parent_[n]) THEN <<t, Nil>>
        ELSE IF IsRed(t, GetBrother(t, t.parent_[n])) THEN Recolored(t, n)
        ELSE <<Turned(t, n), Nil>>

AdjustAfterInsert(t, n) == Rounds(AdjustRound, <<t, n>>)[1]

Inserted(t, n) ==
    IF t.root_ = Nil
    THEN [t EXCEPT !.root_ = n, !.min_ = n, !.max_ = n, !.size_ = @ + 1, !.alive = @ \cup {n}]
    ELSE LET p == Leaf(t, n)
             s == WayDown(n, p)
             linked == [t EXCEPT !.child_[s][p] = n, !.parent_[n] = p, !.color_[n] = "red",
                                 !.min_ = IF s = "left" /\ @ = p THEN n ELSE @,
                                 !.max_ = IF s = "right" /\ @ = p THEN n ELSE @,
                                 !.alive = @ \cup {n}]
         IN  [AdjustAfterInsert(linked, n) EXCEPT !.size_ = @ + 1]

------------------------------------------------------------------------------
(* Erase *)

\* The node takes the place and the colour of its predecessor r, which takes
\* its own.  A child of r keeps r for its parent when r was the left child of
\* the node: DropWithChild rights it.
SwapWithFormer(t, n) ==
    LET r == Outermost(t, t.child_["left"][n], "right")
        next == r = t.child_["left"][n]
        base == SetParent(Relink(t, n, r), t.child_["right"][n], r)
        below == IF next THEN base
                 ELSE SetParent(SetParent([base EXCEPT !.child_["right"][t.parent_[r]] = n],
                                          t.child_["left"][n], r),
                                t.child_["left"][r], n)
    IN  [below EXCEPT
            !.color_ = [@ EXCEPT ![n] = t.color_[r], ![r] = t.color_[n]],
            !.parent_[r] = t.parent_[n],
            !.parent_[n] = IF next THEN r ELSE t.parent_[r],
            !.child_["left"] = [@ EXCEPT ![n] = t.child_["left"][r],
                                         ![r] = IF next THEN n ELSE t.child_["left"][n]],
            !.child_["right"] = [@ EXCEPT ![n] = Nil, ![r] = t.child_["right"][n]]]

\* Mutant: min_ keeps pointing at the node.
UnlinkNotMin(t, n) ==
    [t EXCEPT !.child_[Side(t, n)][t.parent_[n]] = Nil,
              !.max_ = IF Side(t, n) = "right" /\ @ = n THEN t.parent_[n] ELSE @]

\* A leaf is cut off; min_ and max_ fall back to its parent.
Unlink(t, n) ==
    LET p == t.parent_[n]
        s == Side(t, n)
    IN  [t EXCEPT !.child_[s][p] = Nil,
                  !.min_ = IF s = "left" /\ @ = n THEN p ELSE @,
                  !.max_ = IF s = "right" /\ @ = n THEN p ELSE @]

\* A black node with one child: the child, which is red, takes its place.
DropWithChild(t, n, s) ==
    LET c == t.child_[s][n]
    IN  [Relink(t, n, c) EXCEPT !.parent_[c] = t.parent_[n],
                                !.color_[c] = "black",
                                !.max_ = IF s = "left" /\ @ = n THEN c ELSE @,
                                !.min_ = IF s = "right" /\ @ = n THEN c ELSE @]

\* A red brother is turned above the parent, so that the brother is black.
WithBlackBrother(t, n) ==
    LET p == t.parent_[n]
        b == GetBrother(t, n)
    IN  IF IsRed(t, b)
        THEN Rotate(Paint(Paint(t, p, "red"), b, "black"), p, Side(t, n))
        ELSE t

RedNephews(t, n) == {s \in Sides : IsRed(t, t.child_[s][GetBrother(t, n)])}

\* The side under n lacks a black node, its brother is black and has a red
\* child: the left one is taken if both are red.
TurnNephew(t, n) ==
    LET p == t.parent_[n]
        b == GetBrother(t, n)
        s == Side(t, n)
        red == IF "left" \in RedNephews(t, n) THEN "left" ELSE "right"
        nephew == t.child_[red][b]
    IN  IF red = s
        THEN Paint(Paint(Rotate(Rotate(t, b, Opposite(s)), p, s), nephew, t.color_[p]),
                   p, "black")
        ELSE Paint(Paint(Paint(Rotate(t, p, s), b, t.color_[p]), p, "black"), nephew, "black")

PaintBrother(t, n) == Paint(Paint(t, GetBrother(t, n), "red"), t.parent_[n], "black")

\* Mutant: the shortage is not carried further up than one node.
StopAtParent(t, n) == t

\* The loop over need_adjust_node.
UpwardsRound(loop) ==
    LET n == loop[2]
        u == WithBlackBrother(loop[1], n)
    IN  IF n = Nil THEN loop
        ELSE IF loop[1].parent_[n] = Nil THEN <<loop[1], Nil>>
        ELSE IF RedNephews(u, n) # {} THEN <<TurnNephew(u, n), Nil>>
        ELSE IF IsRed(u, u.parent_[n]) THEN <<PaintBrother(u, n), Nil>>
        ELSE <<PaintBrother(u, n), u.parent_[n]>>

AdjustUpwards(t, n) == Rounds(UpwardsRound, <<t, n>>)[1]

\* A black leaf: the same cases, then it is cut off, then the loop.
DropBlackLeaf(t, n) ==
    LET u == WithBlackBrother(t, n) IN
    IF RedNephews(u, n) # {} THEN Unlink(TurnNephew(u, n), n)
    ELSE IF IsRed(u, u.parent_[n]) THEN Unlink(PaintBrother(u, n), n)
    ELSE AdjustUpwards(Unlink(PaintBrother(u, n), n), u.parent_[n])

AdjusBeforeDelete(t, n) ==
    LET u == IF \A s \in Sides : t.child_[s][n] # Nil THEN SwapWithFormer(t, n) ELSE t
    IN  CASE IsRed(u, n) -> Unlink(u, n)
          [] ~IsRed(u, n) /\ u.child_["left"][n] # Nil -> DropWithChild(u, n, "left")
          [] ~IsRed(u, n) /\ u.child_["right"][n] # Nil -> DropWithChild(u, n, "right")
          [] ~IsRed(u, n) /\ u.child_["left"][n] = Nil /\ u.child_["right"][n] = Nil ->
                IF u.parent_[n] = Nil
                THEN [u EXCEPT !.root_ = Nil, !.min_ = Nil, !.max_ = Nil]
                ELSE DropBlackLeaf(u, n)

\* delete: what the node held is gone.
Freed(t, n) ==
    [t EXCEPT !.alive = @ \ {n}, !.parent_[n] = Nil, !.color_[n] = "black",
              !.child_ = [s \in Sides |-> [@[s] EXCEPT ![n] = Nil]], !.size_ = @ - 1]

Erased(t, n) == Freed(AdjusBeforeDelete(t, n), n)

\* The loop of Erase(key), from first up to last.
ErasedRange(t, first, last) ==
    LET Round(loop) == IF loop[2] = last THEN loop
                       ELSE <<Erased(loop[1], loop[2]), NestNode(loop[1], loop[2])>>
    IN  Rounds(Round, <<t, first>>)[1]

ErasedKey(t, k) ==
    IF t.root_ = Nil THEN t ELSE ErasedRange(t, LowerBoundNode(t, k), UpperBoundNode(t, k))

------------------------------------------------------------------------------
Filled(load) ==
    LET With[i \in 0..Len(load)] == IF i = 0 THEN Empty ELSE Inserted(With[i - 1], load[i])
    IN  With[Len(load)]

Init ==
    /\ tree \in {Filled(load) : load \in Loads}
    /\ order = Visited(tree)

Insert(n) ==
    /\ n \notin tree.alive
    /\ tree.alive \cup {n} \subseteq Refills
    /\ tree' = Inserted(tree, n)
    /\ order' = Visited(tree')

Erase(n) ==
    /\ n \in tree.alive
    /\ tree' = Erased(tree, n)
    /\ order' = Visited(tree')

EraseKey(k) ==
    /\ tree' = ErasedKey(tree, k)
    /\ order' = Visited(tree')

Keys == {Key[n] : n \in Nodes}

Next ==
    \/ \E n \in Nodes : Insert(n) \/ Erase(n)
    \/ \E k \in ErasedKeys : EraseKey(k)

Spec == Init /\ [][Next]_vars

------------------------------------------------------------------------------
(* Properties *)

\* The numbers of black nodes on the ways from the root to where a child is missing.
BlacksOnTheWay(t) ==
    LET Under[m \in Nodes \cup {Nil}] ==
            IF m = Nil THEN {0}
            ELSE {b + (IF IsRed(t, m) THEN 0 ELSE 1) :
                    b \in UNION {Under[t.child_[s][m]] : s \in Sides}}
    IN  Under[t.root_]

\* Every node is where its parent says it is, and the tree's own pointers to
\* its root and its ends, and its count, are right: the swap of a node with
\* its predecessor and the rotations leave no link behind.
WellLinked ==
    /\ tree.size_ = Cardinality(tree.alive)
    /\ tree.alive = {} => {tree.root_, tree.min_, tree.max_} = {Nil}
    /\ tree.alive # {} =>
        /\ {tree.root_, tree.min_, tree.max_} \subseteq tree.alive
        /\ tree.parent_[tree.root_] = Nil
        /\ tree.min_ = Outermost(tree, tree.root_, "left")
        /\ tree.max_ = Outermost(tree, tree.root_, "right")
    /\ \A n \in tree.alive :
        /\ \A s \in Sides : tree.child_[s][n] # Nil =>
                /\ tree.child_[s][n] \in tree.alive
                /\ tree.parent_[tree.child_[s][n]] = n
        /\ n # tree.root_ => n \in {tree.child_[s][tree.parent_[n]] : s \in Sides}

\* The tree keeps the shape that bounds its depth: no red node has a red
\* child or is the root, and every way from the root to a missing child meets
\* the same number of black nodes, whatever was inserted and erased before.
Balanced ==
    /\ \A n \in tree.alive : IsRed(tree, n) =>
            /\ n # tree.root_
            /\ \A s \in Sides : ~IsRed(tree, tree.child_[s][n])
    /\ Cardinality(BlacksOnTheWay(tree)) = 1

\* The first node of the iteration that is in S.
FirstOf(S) ==
    IF \A i \in DOMAIN order : order[i] \notin S THEN Nil
    ELSE order[CHOOSE i \in DOMAIN order :
                    order[i] \in S /\ \A j \in 1..i - 1 : order[j] \notin S]

\* LowerBound, UpperBound and Find agree with what a walk over all nodes
\* finds, equal keys included.
LookupsRight ==
    \A k \in Keys :
        /\ LowerBoundNode(tree, k) = FirstOf({n \in Nodes : Key[n] >= k})
        /\ UpperBoundNode(tree, k) = FirstOf({n \in Nodes : Key[n] > k})
        /\ IF \E n \in tree.alive : Key[n] = k
           THEN Find(tree, k) \in tree.alive /\ Key[Find(tree, k)] = k
           ELSE Find(tree, k) = Nil

Ordered == INSTANCE OrderedNodes WITH list <- order

\* Iterating from begin() shows the nodes in the order of their keys, equal
\* keys in the order of insertion, each node under the address it was given,
\* and an insertion or removal changes nothing but the node it names.
ImplementsOrderedNodes == Ordered!Spec
=============================================================================
