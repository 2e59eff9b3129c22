-------------------------- MODULE RedBlackTreeProofs --------------------------
(***************************************************************************)
(* Theorems about RedBlackTree, for every set of nodes and every           *)
(* assignment of keys: links, order, colours and black heights survive     *)
(* every insertion and removal.                                            *)
(***************************************************************************)
EXTENDS RedBlackTree, FiniteSetTheorems, SequenceTheorems, TLAPS

------------------------------------------------------------------------------
(* The invariant *)

NodesOrNil == Nodes \cup {Nil}

Colors == {"red", "black"}

Trees ==
    [root_ : NodesOrNil, min_ : NodesOrNil, max_ : NodesOrNil, size_ : Int,
     alive : SUBSET Nodes,
     child_ : [Sides -> [Nodes -> NodesOrNil]],
     parent_ : [Nodes -> NodesOrNil],
     color_ : [Nodes -> Colors]]

\* The nodes A of the tree have the positions 1..K in the order of iteration; the
\* nodes under n have those between the edges of n, which is what makes the links
\* a tree.
Placed(A, K, pos, edge) ==
    /\ pos \in [Nodes -> Int] /\ edge \in [Sides -> [Nodes -> Int]]
    /\ \A n \in A : /\ 0 <= edge["left"][n] /\ edge["left"][n] < pos[n]
                    /\ pos[n] < edge["right"][n] /\ edge["right"][n] <= K + 1
    /\ \A m, n \in A : pos[m] = pos[n] => m = n

\* A child points back to its parent and takes up one side of it.
Downwards(t, A, pos, edge) ==
    \A n \in A, s \in Sides :
        t.child_[s][n] # Nil =>
            /\ t.child_[s][n] \in A
            /\ t.parent_[t.child_[s][n]] = n
            /\ edge[s][t.child_[s][n]] = edge[s][n]
            /\ edge[Opposite(s)][t.child_[s][n]] = pos[n]

\* Where a child is missing there is no position for one.
Gapless(t, A, pos, edge) ==
    \A n \in A :
        /\ t.child_["left"][n] = Nil => edge["left"][n] = pos[n] - 1
        /\ t.child_["right"][n] = Nil => edge["right"][n] = pos[n] + 1

\* Every node but the root is a child of its parent.
Upwards(t, A) ==
    \A n \in A : n # t.root_ =>
        /\ t.parent_[n] \in A
        /\ \E s \in Sides : t.child_[s][t.parent_[n]] = n

Top(t, A, K, edge) ==
    IF A = {} THEN t.root_ = Nil
    ELSE /\ t.root_ \in A /\ t.parent_[t.root_] = Nil
         /\ edge["left"][t.root_] = 0 /\ edge["right"][t.root_] = K + 1

Shape(t, A, K, pos, edge) ==
    /\ t \in Trees /\ A \in SUBSET Nodes /\ K \in Nat
    /\ Placed(A, K, pos, edge) /\ Downwards(t, A, pos, edge)
    /\ Gapless(t, A, pos, edge) /\ Upwards(t, A) /\ Top(t, A, K, edge)

\* Under the node x a black node is missing, and the height of y is not asked for
\* any more: h[n] is the number of black nodes on every way down from n.
Even(t, A, h, x, y) ==
    /\ h \in [Nodes -> Nat]
    /\ \A n \in A \ {y}, s \in Sides :
        LET c == t.child_[s][n]
        IN  h[n] = (IF c = Nil THEN 0 ELSE IF c = x THEN h[c] + 1 ELSE h[c])
                   + (IF t.color_[n] = "red" THEN 0 ELSE 1)

\* No red node has a red child but perhaps x, and the root is black.
NoTwoRed(t, A, x) ==
    /\ A # {} => t.color_[t.root_] = "black"
    /\ \A n \in A, s \in Sides :
        t.color_[n] = "red" =>
            \/ t.child_[s][n] \in {Nil, x}
            \/ t.color_[t.child_[s][n]] = "black"

\* What the rebalancing does not touch.
SameFrame(t, u) ==
    u.min_ = t.min_ /\ u.max_ = t.max_ /\ u.size_ = t.size_ /\ u.alive = t.alive

------------------------------------------------------------------------------
(* Reading the links *)

\* A child knows its side, its parent and its brother.
LEMMA ChildFacts ==
    ASSUME NEW t, NEW A, NEW K, NEW pos, NEW edge, Shape(t, A, K, pos, edge),
           NEW n \in A, NEW s \in Sides, t.child_[s][n] # Nil
    PROVE  LET c == t.child_[s][n]
           IN  /\ c \in A /\ c \in Nodes /\ t.parent_[c] = n
               /\ Side(t, c) = s /\ c # n /\ c # t.root_
               /\ GetBrother(t, c) = t.child_[Opposite(s)][n]
               /\ edge[s][c] = edge[s][n] /\ edge[Opposite(s)][c] = pos[n]
<1> DEFINE c == t.child_[s][n]
<1>1. /\ c \in A /\ t.parent_[c] = n
      /\ edge[s][c] = edge[s][n] /\ edge[Opposite(s)][c] = pos[n]
  BY DEF Shape, Downwards
<1>2. A \subseteq Nodes /\ n # Nil /\ c # Nil BY TreeAssumption DEF Shape
<1>3. c # t.root_ BY <1>1, <1>2 DEF Shape, Top
<1>4. c # n BY <1>1 DEF Shape, Placed, Sides, Opposite
<1>5. Side(t, c) = s
  <2>1. CASE s = "left" BY <2>1, <1>1 DEF Side
  <2>2. CASE s = "right"
    <3>1. SUFFICES ASSUME t.child_["left"][n] = c PROVE FALSE BY <1>1, <2>2 DEF Side
    <3>2. edge["left"][c] = pos[n] BY <1>1, <2>2 DEF Opposite
    <3>3. edge["right"][c] = pos[n] BY <3>1, <1>2 DEF Shape, Downwards, Sides, Opposite
    <3>4. QED BY <1>1, <1>2, <3>2, <3>3 DEF Shape, Placed, Sides
  <2>3. QED BY <2>1, <2>2 DEF Sides
<1>6. GetBrother(t, c) = t.child_[Opposite(s)][n] BY <1>1, <1>5 DEF GetBrother
<1>7. QED BY <1>1, <1>2, <1>3, <1>4, <1>5, <1>6

\* A node but the root is on its side of its parent.
LEMMA ParentFacts ==
    ASSUME NEW t, NEW A, NEW K, NEW pos, NEW edge, Shape(t, A, K, pos, edge),
           NEW n \in A, t.parent_[n] # Nil \/ n # t.root_
    PROVE  /\ t.parent_[n] \in A /\ t.parent_[n] # n /\ n # t.root_ /\ t.parent_[n] # Nil
           /\ Side(t, n) \in Sides /\ t.child_[Side(t, n)][t.parent_[n]] = n
<1>1. n # t.root_ BY DEF Shape, Top
<1>2. t.parent_[n] \in A /\ \E s \in Sides : t.child_[s][t.parent_[n]] = n
  BY <1>1 DEF Shape, Upwards
<1>3. PICK s \in Sides : t.child_[s][t.parent_[n]] = n BY <1>2
<1>4. n # Nil /\ t.parent_[n] # Nil BY <1>2, TreeAssumption DEF Shape
<1>5. Side(t, n) = s /\ n # t.parent_[n] BY <1>2, <1>3, <1>4, ChildFacts
<1>6. QED BY <1>1, <1>2, <1>3, <1>4, <1>5

------------------------------------------------------------------------------
(* Turning links *)

\* Paint changes one colour.
LEMMA PaintFields ==
    ASSUME NEW t \in Trees, NEW n \in Nodes, NEW c \in Colors
    PROVE  LET u == Paint(t, n, c)
           IN  /\ u \in Trees
               /\ u.root_ = t.root_ /\ u.child_ = t.child_ /\ u.parent_ = t.parent_
               /\ u.min_ = t.min_ /\ u.max_ = t.max_ /\ u.size_ = t.size_ /\ u.alive = t.alive
               /\ \A m \in Nodes : u.color_[m] = IF m = n THEN c ELSE t.color_[m]
BY DEF Paint, Trees

\* What Rotate changes: the links between n, the child that rises, the child
\* that changes sides, and who pointed at n.
LEMMA RotateFields ==
    ASSUME NEW t \in Trees, NEW n \in Nodes, NEW s \in Sides,
           t.child_[Opposite(s)][n] \in Nodes \ {n}, t.parent_[n] # n
    PROVE  LET up == t.child_[Opposite(s)][n]
               inner == t.child_[s][up]
               r == Rotate(t, n, s)
           IN  /\ r \in Trees
               /\ r.root_ = IF t.parent_[n] = Nil THEN up ELSE t.root_
               /\ r.min_ = t.min_ /\ r.max_ = t.max_ /\ r.size_ = t.size_
               /\ r.alive = t.alive /\ r.color_ = t.color_
               /\ \A m \in Nodes : r.parent_[m] = IF m = up THEN t.parent_[n]
                                                  ELSE IF m = n THEN up
                                                  ELSE IF m = inner THEN n ELSE t.parent_[m]
               /\ \A m \in Nodes, d \in Sides :
                    r.child_[d][m] = IF m = up /\ d = s THEN n
                                     ELSE IF m = n /\ d = Opposite(s) THEN inner
                                     ELSE IF m = t.parent_[n] /\ d = Side(t, n) THEN up
                                     ELSE t.child_[d][m]
<1> DEFINE up == t.child_[Opposite(s)][n]
           inner == t.child_[s][up]
           r == Rotate(t, n, s)
           re == Relink(t, n, up)
           sp == SetParent(re, inner, n)
<1>0. Nil \notin Nodes BY TreeAssumption
<1>1. Opposite(s) \in Sides /\ Opposite(s) # s BY DEF Sides, Opposite
<1>2. Side(t, n) \in Sides BY DEF Side, Sides
<1>3. up \in Nodes /\ inner \in NodesOrNil BY DEF Trees
<1>4. /\ re \in Trees
      /\ re.root_ = IF t.parent_[n] = Nil THEN up ELSE t.root_
      /\ re.min_ = t.min_ /\ re.max_ = t.max_ /\ re.size_ = t.size_
      /\ re.alive = t.alive /\ re.color_ = t.color_ /\ re.parent_ = t.parent_
      /\ \A m \in Nodes, d \in Sides :
            re.child_[d][m] = IF m = t.parent_[n] /\ d = Side(t, n) THEN up ELSE t.child_[d][m]
  <2> HIDE DEF up
  <2>1. CASE t.parent_[n] = Nil BY <1>0, <1>3, <2>1 DEF Relink, Trees, NodesOrNil
  <2>2. CASE t.parent_[n] # Nil
    <3>1. t.parent_[n] \in Nodes BY <2>2 DEF Trees, NodesOrNil
    <3> HIDE DEF up
    <3>2. QED BY <1>0, <1>2, <1>3, <2>2, <3>1 DEF Relink, Trees, NodesOrNil
  <2>3. QED BY <2>1, <2>2
<1> HIDE DEF re
<1>5. /\ sp \in Trees
      /\ sp.child_ = re.child_ /\ sp.root_ = re.root_ /\ sp.min_ = re.min_ /\ sp.max_ = re.max_
      /\ sp.size_ = re.size_ /\ sp.alive = re.alive /\ sp.color_ = re.color_
      /\ \A m \in Nodes : sp.parent_[m] = IF m = inner THEN n ELSE re.parent_[m]
  <2> HIDE DEF inner, up
  <2>1. CASE inner = Nil BY <1>0, <1>4, <2>1 DEF SetParent
  <2>2. CASE inner \in Nodes BY <1>0, <1>4, <2>2 DEF SetParent, Trees, NodesOrNil
  <2>3. QED BY <1>3, <2>1, <2>2 DEF NodesOrNil
<1> HIDE DEF sp
<1>6. r = [sp EXCEPT !.child_[Opposite(s)][n] = inner, !.child_[s][up] = n,
                     !.parent_[n] = up, !.parent_[up] = t.parent_[n]]
  BY DEF Rotate, sp, re
<1> HIDE DEF r, up, inner
<1>7. /\ r.root_ = sp.root_ /\ r.min_ = sp.min_ /\ r.max_ = sp.max_ /\ r.size_ = sp.size_
      /\ r.alive = sp.alive /\ r.color_ = sp.color_
  BY <1>5, <1>6 DEF Trees
<1>8. r.parent_ = [sp.parent_ EXCEPT ![n] = up, ![up] = t.parent_[n]]
  BY <1>5, <1>6 DEF Trees
<1>9. r.child_ = [sp.child_ EXCEPT ![Opposite(s)][n] = inner, ![s][up] = n]
  BY <1>5, <1>6 DEF Trees
<1>10. r \in Trees
  BY <1>1, <1>3, <1>5, <1>6 DEF Trees, NodesOrNil
<1>11. \A m \in Nodes : r.parent_[m] = IF m = up THEN t.parent_[n]
                                       ELSE IF m = n THEN up
                                       ELSE IF m = inner THEN n ELSE t.parent_[m]
  BY <1>3, <1>4, <1>5, <1>8 DEF Trees
<1>12. \A m \in Nodes, d \in Sides :
         r.child_[d][m] = IF m = up /\ d = s THEN n
                          ELSE IF m = n /\ d = Opposite(s) THEN inner
                          ELSE IF m = t.parent_[n] /\ d = Side(t, n) THEN up
                          ELSE t.child_[d][m]
  BY <1>1, <1>3, <1>4, <1>5, <1>9 DEF Trees
<1>13. QED BY <1>4, <1>5, <1>7, <1>10, <1>11, <1>12 DEF r, up, inner

\* The shape is in the links alone.
LEMMA SameLinks ==
    ASSUME NEW t, NEW A, NEW K, NEW pos, NEW edge, Shape(t, A, K, pos, edge),
           NEW u \in Trees,
           u.root_ = t.root_ /\ u.child_ = t.child_ /\ u.parent_ = t.parent_
    PROVE  Shape(u, A, K, pos, edge)
BY DEF Shape, Downwards, Gapless, Upwards, Top

RotatedEdge(t, n, s, pos, edge) ==
    LET up == t.child_[Opposite(s)][n]
    IN  [d \in Sides |-> [m \in Nodes |->
            IF m = up /\ d = s THEN edge[s][n]
            ELSE IF m = n /\ d = Opposite(s) THEN pos[up]
            ELSE edge[d][m]]]

\* A rotation leaves a tree a tree, with every node in its position.
LEMMA RotateShape ==
    ASSUME NEW t, NEW A, NEW K, NEW pos, NEW edge, Shape(t, A, K, pos, edge),
           NEW n \in A, NEW s \in Sides, t.child_[Opposite(s)][n] # Nil
    PROVE  Shape(Rotate(t, n, s), A, K, pos, RotatedEdge(t, n, s, pos, edge))
<1> DEFINE up == t.child_[Opposite(s)][n]
           inner == t.child_[s][up]
           r == Rotate(t, n, s)
           e == RotatedEdge(t, n, s, pos, edge)
<1>1. /\ Opposite(s) \in Sides /\ Opposite(s) # s /\ Opposite(Opposite(s)) = s
      /\ \A d \in Sides : d = s \/ d = Opposite(s)
  BY DEF Sides, Opposite
<1>2. /\ t \in Trees /\ A \subseteq Nodes /\ Nil \notin Nodes
      /\ pos \in [Nodes -> Int] /\ edge \in [Sides -> [Nodes -> Int]]
  BY TreeAssumption DEF Shape, Placed
<1>3. /\ up \in A /\ t.parent_[up] = n /\ up # n /\ up # t.root_
      /\ edge[Opposite(s)][up] = edge[Opposite(s)][n] /\ edge[s][up] = pos[n]
  BY <1>1, ChildFacts
<1>4. t.parent_[n] # n
  BY <1>2, ParentFacts
<1>5. inner # Nil => /\ inner \in A /\ t.parent_[inner] = up /\ inner # up /\ inner # t.root_
                     /\ edge[s][inner] = edge[s][up] /\ edge[Opposite(s)][inner] = pos[up]
  BY <1>3, ChildFacts
<1>6. inner # n
  <2>1. SUFFICES ASSUME inner = n PROVE FALSE OBVIOUS
  <2>2. edge[s][n] = pos[n] BY <1>2, <1>3, <1>5, <2>1
  <2>3. QED BY <2>2 DEF Shape, Placed, Sides
<1>7. t.parent_[n] # up
  <2>1. SUFFICES ASSUME t.parent_[n] = up PROVE FALSE OBVIOUS
  <2>2. Side(t, n) \in Sides /\ t.child_[Side(t, n)][up] = n BY <1>2, <1>3, <2>1, ParentFacts
  <2>3. Side(t, n) = Opposite(s) BY <1>1, <1>6, <2>2
  <2>4. edge[Opposite(s)][n] = edge[Opposite(s)][up] /\ edge[s][n] = pos[up]
    BY <1>1, <1>2, <1>3, <2>2, <2>3, ChildFacts
  <2>5. QED BY <1>3, <2>4 DEF Shape, Placed, Sides, Opposite
<1>8. /\ r \in Trees
      /\ r.root_ = IF t.parent_[n] = Nil THEN up ELSE t.root_
      /\ \A m \in Nodes : r.parent_[m] = IF m = up THEN t.parent_[n]
                                         ELSE IF m = n THEN up
                                         ELSE IF m = inner THEN n ELSE t.parent_[m]
      /\ \A m \in Nodes, d \in Sides :
            r.child_[d][m] = IF m = up /\ d = s THEN n
                             ELSE IF m = n /\ d = Opposite(s) THEN inner
                             ELSE IF m = t.parent_[n] /\ d = Side(t, n) THEN up
                             ELSE t.child_[d][m]
  BY <1>2, <1>3, <1>4, RotateFields
<1>9. /\ e \in [Sides -> [Nodes -> Int]]
      /\ \A m \in Nodes, d \in Sides :
            e[d][m] = IF m = up /\ d = s THEN edge[s][n]
                      ELSE IF m = n /\ d = Opposite(s) THEN pos[up]
                      ELSE edge[d][m]
  BY <1>2, <1>3 DEF RotatedEdge
<1>10. t.parent_[n] # Nil => /\ t.parent_[n] \in A /\ n # t.root_ /\ Side(t, n) \in Sides
                             /\ t.child_[Side(t, n)][t.parent_[n]] = n
                             /\ edge[Side(t, n)][n] = edge[Side(t, n)][t.parent_[n]]
                             /\ edge[Opposite(Side(t, n))][n] = pos[t.parent_[n]]
  <2>1. SUFFICES ASSUME t.parent_[n] # Nil PROVE /\ t.parent_[n] \in A /\ n # t.root_ /\ Side(t, n) \in Sides
                             /\ t.child_[Side(t, n)][t.parent_[n]] = n
                             /\ edge[Side(t, n)][n] = edge[Side(t, n)][t.parent_[n]]
                             /\ edge[Opposite(Side(t, n))][n] = pos[t.parent_[n]]
    OBVIOUS
  <2>2. /\ t.parent_[n] \in A /\ n # t.root_ /\ Side(t, n) \in Sides
        /\ t.child_[Side(t, n)][t.parent_[n]] = n
    BY <2>1, ParentFacts
  <2>3. QED BY <1>2, <2>2, ChildFacts
<1> HIDE DEF r, e, up, inner
<1>11. t.parent_[n] = Nil => n = t.root_ BY <1>2 DEF Shape, Upwards
<1>12. Placed(A, K, pos, e)
  <2>1. \A m \in A : /\ 0 <= e["left"][m] /\ e["left"][m] < pos[m]
                     /\ pos[m] < e["right"][m] /\ e["right"][m] <= K + 1
    BY <1>2, <1>3, <1>9 DEF Shape, Placed, Sides, Opposite
  <2>2. QED BY <1>2, <1>9, <2>1 DEF Shape, Placed
<1>13. Downwards(r, A, pos, e)
  <2>1. SUFFICES ASSUME NEW m \in A, NEW d \in Sides, r.child_[d][m] # Nil
                 PROVE  /\ r.child_[d][m] \in A /\ r.parent_[r.child_[d][m]] = m
                        /\ e[d][r.child_[d][m]] = e[d][m]
                        /\ e[Opposite(d)][r.child_[d][m]] = pos[m]
    BY DEF Downwards
  <2>2. CASE m = up /\ d = s
    BY <1>1, <1>2, <1>3, <1>8, <1>9, <2>2
  <2>3. CASE m = n /\ d = Opposite(s)
    BY <1>1, <1>2, <1>3, <1>5, <1>6, <1>8, <1>9, <2>1, <2>3
  <2>4. CASE t.parent_[n] # Nil /\ m = t.parent_[n] /\ d = Side(t, n)
    BY <1>1, <1>2, <1>3, <1>4, <1>7, <1>8, <1>9, <1>10, <2>4
  <2>5. CASE /\ ~(m = up /\ d = s) /\ ~(m = n /\ d = Opposite(s))
             /\ ~(t.parent_[n] # Nil /\ m = t.parent_[n] /\ d = Side(t, n))
    <3> DEFINE c == t.child_[d][m]
    <3>1. r.child_[d][m] = c BY <1>2, <1>8, <2>5
    <3>2. /\ c \in A /\ t.parent_[c] = m /\ Side(t, c) = d
          /\ edge[d][c] = edge[d][m] /\ edge[Opposite(d)][c] = pos[m]
      BY <2>1, <3>1, ChildFacts
    <3>3. c # n BY <1>2, <2>5, <3>2
    <3>4. c = up => m = n /\ d = s BY <1>1, <1>3, <2>5, <3>2
    <3>5. c # up
      <4>1. SUFFICES ASSUME c = up PROVE FALSE OBVIOUS
      <4>2. edge[s][up] = edge[s][n] BY <3>2, <3>4, <4>1
      <4>3. edge[s][n] = pos[n] BY <1>3, <4>2
      <4>4. n \in A /\ s \in Sides OBVIOUS
      <4>5. QED BY <1>2, <4>3, <4>4 DEF Shape, Placed, Sides
    <3>6. c # inner
      <4>1. SUFFICES ASSUME c = inner PROVE FALSE OBVIOUS
      <4>2. m = up /\ d = Opposite(s) BY <1>1, <1>2, <1>5, <2>5, <3>2, <4>1
      <4>3. edge[Opposite(s)][inner] = edge[Opposite(s)][up] BY <3>2, <4>1, <4>2
      <4>4. QED BY <1>1, <1>2, <1>3, <1>5, <3>2, <4>1, <4>3 DEF Shape, Placed, Sides
    <3>7. r.parent_[c] = m BY <1>2, <1>8, <3>2, <3>3, <3>5, <3>6
    <3>8. e[d][c] = edge[d][m] /\ e[Opposite(d)][c] = pos[m]
      BY <1>1, <1>2, <1>9, <3>2, <3>3, <3>5
    <3>9. e[d][m] = edge[d][m] BY <1>2, <1>9, <2>5
    <3>10. QED BY <3>1, <3>2, <3>7, <3>8, <3>9
  <2>6. QED BY <2>2, <2>3, <2>4, <2>5
<1>14. Gapless(r, A, pos, e)
  <2>1. SUFFICES ASSUME NEW m \in A, NEW d \in Sides, r.child_[d][m] = Nil
                 PROVE  e[d][m] = IF d = "left" THEN pos[m] - 1 ELSE pos[m] + 1
    BY DEF Gapless, Sides
  <2>2. m = n /\ d = Opposite(s) => inner = Nil BY <1>2, <1>3, <1>8, <2>1
  <2>3. CASE m = n /\ d = Opposite(s)
    <3>1. edge[s][up] = IF s = "left" THEN pos[up] - 1 ELSE pos[up] + 1
      BY <1>3, <2>2, <2>3 DEF Shape, Gapless, Sides, inner
    <3>2. e[d][n] = pos[up] /\ edge[s][up] = pos[n] BY <1>2, <1>3, <1>9, <2>3
    <3>3. QED BY <1>2, <1>3, <2>3, <3>1, <3>2 DEF Sides, Opposite
  <2>4. CASE ~(m = n /\ d = Opposite(s))
    <3>1. ~(m = up /\ d = s) BY <1>2, <1>8, <2>1
    <3>2. ~(m = t.parent_[n] /\ d = Side(t, n)) BY <1>2, <1>3, <1>8, <2>1, <2>4, <3>1
    <3>3. t.child_[d][m] = Nil BY <1>2, <1>8, <2>1, <2>4, <3>1, <3>2
    <3>4. e[d][m] = edge[d][m] BY <1>2, <1>9, <2>4, <3>1
    <3>5. QED BY <3>3, <3>4 DEF Shape, Gapless, Sides
  <2>5. QED BY <2>3, <2>4
<1>15. Upwards(r, A)
  <2>1. SUFFICES ASSUME NEW m \in A, m # r.root_
                 PROVE  r.parent_[m] \in A /\ \E d \in Sides : r.child_[d][r.parent_[m]] = m
    BY DEF Upwards
  <2>2. CASE m = up
    BY <1>2, <1>3, <1>4, <1>7, <1>8, <1>10, <2>1, <2>2
  <2>3. CASE m = n
    BY <1>2, <1>3, <1>8, <2>3
  <2>4. CASE m # n /\ m = inner
    BY <1>1, <1>2, <1>3, <1>5, <1>8, <2>4
  <2>5. CASE m # up /\ m # n /\ m # inner
    <3>1. m # t.root_ BY <1>8, <1>11, <2>1, <2>5
    <3>2. /\ t.parent_[m] \in A /\ Side(t, m) \in Sides /\ t.child_[Side(t, m)][t.parent_[m]] = m
      BY <3>1, ParentFacts
    <3>3. ~(t.parent_[m] = up /\ Side(t, m) = s) BY <2>5, <3>2 DEF inner
    <3>4. ~(t.parent_[m] = n /\ Side(t, m) = Opposite(s)) BY <2>5, <3>2 DEF up
    <3>5. ~(t.parent_[m] = t.parent_[n] /\ Side(t, m) = Side(t, n))
      BY <1>2, <1>10, <2>5, <3>2
    <3>6. r.parent_[m] = t.parent_[m] BY <1>2, <1>8, <2>5
    <3>7. QED BY <1>2, <1>8, <3>2, <3>3, <3>4, <3>5, <3>6
  <2>6. QED BY <2>2, <2>3, <2>4, <2>5
<1>16. Top(r, A, K, e)
  <2>1. A # {} /\ t.root_ \in A /\ t.parent_[t.root_] = Nil
        /\ edge["left"][t.root_] = 0 /\ edge["right"][t.root_] = K + 1
    BY DEF Shape, Top
  <2>2. CASE t.parent_[n] = Nil
    <3>1. n = t.root_ /\ r.root_ = up /\ r.parent_[up] = Nil BY <1>2, <1>3, <1>8, <1>11, <2>2
    <3>2. e[s][up] = edge[s][n] /\ e[Opposite(s)][up] = edge[Opposite(s)][n]
      BY <1>1, <1>2, <1>3, <1>9
    <3>3. QED BY <1>3, <2>1, <3>1, <3>2 DEF Top, Sides, Opposite
  <2>3. CASE t.parent_[n] # Nil
    <3>1. t.root_ # n /\ t.root_ # up /\ r.root_ = t.root_ BY <1>3, <1>8, <1>10, <2>3
    <3>2. t.root_ # inner BY <1>2, <1>5, <2>1
    <3>3. r.parent_[t.root_] = Nil BY <1>2, <1>8, <2>1, <3>1, <3>2
    <3>4. e["left"][t.root_] = 0 /\ e["right"][t.root_] = K + 1
      BY <1>2, <1>9, <2>1, <3>1 DEF Sides
    <3>5. QED BY <2>1, <3>1, <3>3, <3>4 DEF Top
  <2>4. QED BY <2>2, <2>3
<1>17. QED BY <1>8, <1>12, <1>13, <1>14, <1>15, <1>16 DEF Shape, r, e

\* A rotation seen from the parents: n and the child that rises have their new
\* children, and whoever had n has that child.
Rotation(t, r, A, n, up, s, o) ==
    /\ SameFrame(t, r) /\ r.color_ = t.color_
    /\ up \in A /\ up # n /\ t.child_[s][up] # n /\ t.child_[s][up] # up
    /\ t.child_[s][n] # n /\ t.child_[s][n] # up
    /\ t.child_[o][up] # n /\ t.child_[o][up] # up
    /\ r.root_ = IF t.root_ = n THEN up ELSE t.root_
    /\ r.child_[s][up] = n /\ r.child_[o][up] = t.child_[o][up]
    /\ r.child_[o][n] = t.child_[s][up] /\ r.child_[s][n] = t.child_[s][n]
    /\ r.parent_[up] = t.parent_[n] /\ r.parent_[n] = up
    /\ \A m \in A \ {n, up}, d \in Sides :
        /\ t.child_[d][m] # up
        /\ r.child_[d][m] = IF t.child_[d][m] = n THEN up ELSE t.child_[d][m]

\* A turn of n exchanges n and its child, as the code sets the links, and keeps a tree.
LEMMA RotateLinksOf ==
    ASSUME NEW t, NEW A, NEW K, NEW pos, NEW edge, Shape(t, A, K, pos, edge),
           NEW n \in A, NEW s \in Sides, t.child_[Opposite(s)][n] # Nil
    PROVE  /\ Rotation(t, Rotate(t, n, s), A, n, t.child_[Opposite(s)][n], s, Opposite(s))
           /\ Shape(Rotate(t, n, s), A, K, pos, RotatedEdge(t, n, s, pos, edge))
<1> DEFINE up == t.child_[Opposite(s)][n]
           inner == t.child_[s][up]
           r == Rotate(t, n, s)
<1>1. /\ Opposite(s) \in Sides /\ Opposite(s) # s /\ Opposite(Opposite(s)) = s
      /\ \A d \in Sides : d = s \/ d = Opposite(s)
  BY DEF Sides, Opposite
<1>2. /\ t \in Trees /\ A \subseteq Nodes /\ Nil \notin Nodes
  BY TreeAssumption DEF Shape, Placed
<1>3. up \in A /\ t.parent_[up] = n /\ up # n /\ up # t.root_ /\ Side(t, up) = Opposite(s)
  BY <1>1, ChildFacts
<1>4. t.parent_[n] # n
  BY <1>2, ParentFacts
<1>5. \A d \in Sides : t.child_[d][up] # up /\ t.child_[d][n] # n
  BY <1>2, <1>3, ChildFacts
<1>6. t.child_[s][n] # up
  BY <1>1, <1>2, <1>3, ChildFacts
<1>7. \A d \in Sides : t.child_[d][up] # n
  <2>1. SUFFICES ASSUME NEW d \in Sides, t.child_[d][up] = n PROVE FALSE OBVIOUS
  <2>2. /\ edge[d][n] = edge[d][up] /\ edge[Opposite(d)][n] = pos[up]
        /\ edge[s][up] = pos[n] /\ edge[Opposite(s)][up] = edge[Opposite(s)][n]
    BY <1>1, <1>2, <1>3, <2>1, ChildFacts
  <2>3. d = s \/ d = Opposite(s) BY <1>1
  <2>4. edge[s][n] = pos[n] \/ edge[s][n] = pos[up] BY <1>1, <2>2, <2>3
  <2>5. n \in A /\ up \in A BY <1>3
  <2>6. QED BY <2>2, <2>4, <2>5 DEF Shape, Placed, Sides
<1>8. /\ r \in Trees /\ SameFrame(t, r) /\ r.color_ = t.color_
      /\ r.root_ = IF t.parent_[n] = Nil THEN up ELSE t.root_
      /\ \A m \in Nodes : r.parent_[m] = IF m = up THEN t.parent_[n]
                                         ELSE IF m = n THEN up
                                         ELSE IF m = inner THEN n ELSE t.parent_[m]
      /\ \A m \in Nodes, d \in Sides :
            r.child_[d][m] = IF m = up /\ d = s THEN n
                             ELSE IF m = n /\ d = Opposite(s) THEN inner
                             ELSE IF m = t.parent_[n] /\ d = Side(t, n) THEN up
                             ELSE t.child_[d][m]
  BY <1>2, <1>3, <1>4, RotateFields DEF SameFrame
<1>9. t.parent_[n] # Nil => /\ t.parent_[n] \in A /\ n # t.root_ /\ t.parent_[n] # up
                            /\ t.child_[Side(t, n)][t.parent_[n]] = n /\ Side(t, n) \in Sides
  BY <1>2, <1>7, ParentFacts
<1>10. t.parent_[n] = Nil <=> t.root_ = n
  BY <1>2, <1>9 DEF Shape, Upwards, Top
<1>11. Shape(r, A, K, pos, RotatedEdge(t, n, s, pos, edge)) BY <1>3, RotateShape
<1>12. ASSUME NEW m \in A \ {n, up}, NEW d \in Sides
       PROVE  /\ t.child_[d][m] # up
              /\ r.child_[d][m] = IF t.child_[d][m] = n THEN up ELSE t.child_[d][m]
  <2>1. t.child_[d][m] # up BY <1>2, <1>3, ChildFacts
  <2>2. t.child_[d][m] = n <=> m = t.parent_[n] /\ d = Side(t, n)
    <3>1. t.child_[d][m] = n => m = t.parent_[n] /\ d = Side(t, n) BY <1>2, ChildFacts
    <3>2. m = t.parent_[n] /\ d = Side(t, n) => t.child_[d][m] = n BY <1>2, <1>9
    <3>3. QED BY <3>1, <3>2
  <2>3. QED BY <1>2, <1>8, <2>1, <2>2
<1>13. /\ r.child_[s][up] = n /\ r.child_[Opposite(s)][n] = inner
       /\ r.parent_[up] = t.parent_[n] /\ r.parent_[n] = up
  BY <1>1, <1>2, <1>3, <1>8
<1>14. r.child_[Opposite(s)][up] = t.child_[Opposite(s)][up] /\ r.child_[s][n] = t.child_[s][n]
  BY <1>1, <1>2, <1>3, <1>4, <1>8, <1>9
<1> HIDE DEF r, up, inner, Rotation
<1>15. QED BY <1>1, <1>3, <1>5, <1>6, <1>7, <1>8, <1>10, <1>11, <1>12, <1>13, <1>14
  DEF r, up, inner, Rotation

\* The same, for the two sides by name.
LEMMA RotateLinks ==
    ASSUME NEW t, NEW A, NEW K, NEW pos, NEW edge, Shape(t, A, K, pos, edge),
           NEW n \in A, NEW s \in Sides, NEW o \in Sides, o # s, t.child_[o][n] # Nil
    PROVE  /\ Rotation(t, Rotate(t, n, s), A, n, t.child_[o][n], s, o)
           /\ Shape(Rotate(t, n, s), A, K, pos, RotatedEdge(t, n, s, pos, edge))
<1>1. o = Opposite(s) BY DEF Sides, Opposite
<1>2. QED BY <1>1, RotateLinksOf

\* Two rotations: the inner child w of b rises above both n and b.
DoubleRotation(t, r, A, n, b, w, s, o) ==
    /\ SameFrame(t, r) /\ r.color_ = t.color_
    /\ b \in A /\ w \in A /\ b # n /\ w # n /\ w # b
    /\ r.root_ = IF t.root_ = n THEN w ELSE t.root_
    /\ r.child_[s][w] = n /\ r.child_[o][w] = b
    /\ r.child_[o][n] = t.child_[s][w] /\ r.child_[s][n] = t.child_[s][n]
    /\ r.child_[s][b] = t.child_[o][w] /\ r.child_[o][b] = t.child_[o][b]
    /\ r.parent_[w] = t.parent_[n] /\ r.parent_[n] = w
    /\ \A d \in Sides : r.child_[d][n] # w /\ r.child_[d][b] # w
    /\ \A m \in A \ {n, b, w}, d \in Sides :
        /\ t.child_[d][m] # b /\ t.child_[d][m] # w
        /\ r.child_[d][m] = IF t.child_[d][m] = n THEN w ELSE t.child_[d][m]

\* The double turn brings w, the inner grandchild, above b and n.
LEMMA DoubleLinks ==
    ASSUME NEW t, NEW A, NEW K, NEW pos, NEW edge, Shape(t, A, K, pos, edge),
           NEW n \in A, NEW s \in Sides, NEW o \in Sides, o # s,
           NEW b, b = t.child_[o][n], b # Nil,
           NEW w, w = t.child_[s][b], w # Nil
    PROVE  LET r == Rotate(Rotate(t, b, o), n, s)
           IN  DoubleRotation(t, r, A, n, b, w, s, o) /\ \E e : Shape(r, A, K, pos, e)
<1> DEFINE q == Rotate(t, b, o)
           r == Rotate(q, n, s)
           E1 == RotatedEdge(t, b, o, pos, edge)
<1>1. /\ s # o /\ Opposite(o) = s /\ Opposite(s) = o /\ \A d \in Sides : d = s \/ d = o
  BY DEF Sides, Opposite
<1>2. A \subseteq Nodes /\ Nil \notin A BY TreeAssumption DEF Shape
<1>3. b \in A /\ t.parent_[b] = n /\ b # n /\ b # t.root_ BY ChildFacts
<1>4. w \in A /\ t.parent_[w] = b /\ w # b /\ w # t.root_ BY <1>3, ChildFacts
<1>5. Rotation(t, q, A, b, w, o, s) /\ Shape(q, A, K, pos, E1) BY <1>1, <1>3, RotateLinks
<1>6. w # n
  <2>1. Rotation(t, Rotate(t, n, s), A, n, b, s, o) BY RotateLinks
  <2>2. QED BY <2>1 DEF Rotation
<1>7. q.child_[o][n] = w BY <1>3, <1>5, <1>6 DEF Rotation
<1>8. Rotation(q, r, A, n, w, s, o) /\ Shape(r, A, K, pos, RotatedEdge(q, n, s, pos, E1))
  BY <1>5, <1>7, RotateLinks
<1> HIDE DEF q, r, E1
<1>9. t.child_[s][n] # b /\ t.child_[s][n] # w
  BY <1>1, <1>2, <1>3, <1>4, ChildFacts
<1>10. \A d \in Sides : t.child_[d][n] # n /\ t.child_[d][b] # n
  <2>1. Rotation(t, Rotate(t, n, s), A, n, b, s, o) BY RotateLinks
  <2>2. t.child_[o][n] # n BY <1>3
  <2>3. QED BY <1>1, <2>1, <2>2 DEF Rotation
<1>11. \A d \in Sides : q.child_[d][w] # n BY <1>1, <1>8 DEF Rotation
<1>12. \A d \in Sides : t.child_[d][w] # n
  <2>1. t.child_[s][w] # n BY <1>5, <1>11 DEF Rotation
  <2>2. SUFFICES ASSUME t.child_[o][w] = n PROVE FALSE BY <1>1, <2>1
  <2>3. q.child_[s][b] = n BY <1>5, <2>2 DEF Rotation
  <2>4. q.child_[o][n] = w /\ q.child_[o][w] = b BY <1>5, <1>7 DEF Rotation
  <2>0. Downwards(q, A, pos, E1) /\ n # Nil /\ w # Nil /\ b # Nil BY <1>2, <1>3, <1>4, <1>5 DEF Shape
  <2>5. E1[o][w] = E1[o][n] /\ E1[s][w] = pos[n] BY <1>1, <2>0, <2>4 DEF Downwards
  <2>6. E1[o][b] = E1[o][w] /\ E1[s][b] = pos[w] BY <1>1, <1>4, <2>0, <2>4 DEF Downwards
  <2>7. E1[s][n] = E1[s][b] /\ E1[o][n] = pos[b] BY <1>1, <1>3, <2>0, <2>3 DEF Downwards
  <2>8. n \in A /\ w \in A /\ b \in A BY <1>3, <1>4
  <2>9. Placed(A, K, pos, E1) BY <1>5 DEF Shape
  <2>10. E1[o][b] = pos[b] BY <2>5, <2>6, <2>7
  <2>11. QED BY <1>2, <2>8, <2>9, <2>10 DEF Placed, Sides
<1>13. t.parent_[n] # b /\ t.parent_[n] # w /\ t.parent_[n] # n
  <2>1. ASSUME t.parent_[n] # Nil PROVE \E d \in Sides : t.child_[d][t.parent_[n]] = n
    BY <2>1, ParentFacts
  <2>2. QED BY <1>2, <1>3, <1>4, <1>10, <1>12, <2>1
<1>14. q.parent_[n] = t.parent_[n]
  <2>1. CASE t.parent_[n] = Nil
    <3>1. n = t.root_ /\ q.root_ = t.root_
      BY <1>2, <1>3, <1>5, <2>1, ParentFacts DEF Rotation
    <3>2. QED BY <1>5, <2>1, <3>1 DEF Shape, Top
  <2>2. CASE t.parent_[n] # Nil
    <3>1. t.parent_[n] \in A /\ Side(t, n) \in Sides /\ t.child_[Side(t, n)][t.parent_[n]] = n
      BY <2>2, ParentFacts
    <3>2. q.child_[Side(t, n)][t.parent_[n]] = n BY <1>3, <1>5, <1>13, <3>1 DEF Rotation
    <3>3. n # Nil BY <1>2
    <3>4. QED BY <1>5, <3>1, <3>2, <3>3, ChildFacts
  <2>3. QED BY <2>1, <2>2
<1>15. r.child_[s][b] = t.child_[o][w] /\ r.child_[o][b] = t.child_[o][b]
  <2>1. q.child_[s][b] = t.child_[o][w] /\ q.child_[o][b] = t.child_[o][b]
    BY <1>5 DEF Rotation
  <2>2. \A d \in Sides : r.child_[d][b] = IF q.child_[d][b] = n THEN w ELSE q.child_[d][b]
    BY <1>3, <1>4, <1>8 DEF Rotation
  <2>3. QED BY <1>10, <1>12, <2>1, <2>2
<1>16. \A m \in A \ {n, b, w}, d \in Sides :
         /\ t.child_[d][m] # b /\ t.child_[d][m] # w
         /\ r.child_[d][m] = IF t.child_[d][m] = n THEN w ELSE t.child_[d][m]
  <2>1. SUFFICES ASSUME NEW m \in A \ {n, b, w}, NEW d \in Sides
                 PROVE  /\ t.child_[d][m] # b /\ t.child_[d][m] # w
                        /\ r.child_[d][m] = IF t.child_[d][m] = n THEN w ELSE t.child_[d][m]
    OBVIOUS
  <2>2. t.child_[d][m] # b BY <1>2, <1>3, ChildFacts
  <2>3. t.child_[d][m] # w /\ q.child_[d][m] = t.child_[d][m] BY <1>5, <2>2 DEF Rotation
  <2>4. r.child_[d][m] = IF q.child_[d][m] = n THEN w ELSE q.child_[d][m] BY <1>8 DEF Rotation
  <2>5. QED BY <2>2, <2>3, <2>4
<1>17. \A d \in Sides : r.child_[d][n] # w /\ r.child_[d][b] # w
  <2>1. \A d \in Sides, m \in A : r.child_[d][m] = w => r.parent_[w] = m
    BY <1>2, <1>4, <1>8, ChildFacts
  <2>2. r.parent_[w] = t.parent_[n] BY <1>8, <1>14 DEF Rotation
  <2>3. QED BY <1>3, <1>13, <2>1, <2>2
<1>18. DoubleRotation(t, r, A, n, b, w, s, o)
  <2>1. SameFrame(t, r) /\ r.color_ = t.color_ BY <1>5, <1>8 DEF Rotation, SameFrame
  <2>2. r.root_ = IF t.root_ = n THEN w ELSE t.root_
    <3>1. q.root_ = t.root_ BY <1>3, <1>5 DEF Rotation
    <3>2. r.root_ = IF q.root_ = n THEN w ELSE q.root_ BY <1>8 DEF Rotation
    <3>3. QED BY <3>1, <3>2
  <2>3. r.child_[s][w] = n /\ r.child_[o][w] = b BY <1>5, <1>8 DEF Rotation
  <2>4. r.child_[o][n] = t.child_[s][w] BY <1>5, <1>8 DEF Rotation
  <2>5. r.child_[s][n] = t.child_[s][n]
    BY <1>1, <1>3, <1>5, <1>6, <1>8, <1>9 DEF Rotation
  <2>6. r.parent_[w] = t.parent_[n] /\ r.parent_[n] = w BY <1>8, <1>14 DEF Rotation
  <2>7. QED BY <1>3, <1>4, <1>6, <1>15, <1>16, <1>17, <2>1, <2>2, <2>3, <2>4, <2>5, <2>6
    DEF DoubleRotation
<1>19. QED BY <1>8, <1>18 DEF q, r

------------------------------------------------------------------------------
(* Rebalancing after an insertion *)

\* The heights under a red node and under a black one, over a child or none.
LEMMA Steps ==
    ASSUME NEW t, NEW A, NEW K, NEW pos, NEW edge, Shape(t, A, K, pos, edge),
           NEW h, NEW x, NEW y, Even(t, A, h, x, y), NEW n \in A, n # y, NEW s \in Sides
    PROVE  LET c == t.child_[s][n]
           IN  /\ h[n] \in Nat /\ n \in Nodes /\ n # Nil
               /\ t.color_[n] = "red" \/ t.color_[n] = "black"
               /\ c # Nil => c \in A /\ h[c] \in Nat
               /\ c = Nil => h[n] = IF t.color_[n] = "red" THEN 0 ELSE 1
               /\ c # Nil /\ c # x => h[n] = h[c] + IF t.color_[n] = "red" THEN 0 ELSE 1
               /\ c # Nil /\ c = x => h[n] = h[c] + IF t.color_[n] = "red" THEN 1 ELSE 2
<1> DEFINE c == t.child_[s][n]
<1>1. n \in Nodes /\ n # Nil /\ A \subseteq Nodes BY TreeAssumption DEF Shape
<1>2. t.color_[n] = "red" \/ t.color_[n] = "black" BY <1>1 DEF Shape, Trees, Colors
<1>3. c # Nil => c \in A BY DEF Shape, Downwards
<1>4. h \in [Nodes -> Nat] BY DEF Even
<1>5. h[n] \in Nat /\ (c # Nil => h[c] \in Nat) BY <1>1, <1>3, <1>4
<1>6. h[n] = (IF c = Nil THEN 0 ELSE IF c = x THEN h[c] + 1 ELSE h[c])
             + (IF t.color_[n] = "red" THEN 0 ELSE 1)
  BY DEF Even
<1> HIDE DEF c
<1>7. QED BY <1>1, <1>2, <1>3, <1>5, <1>6 DEF c

\* A loop's tree.
Balance(u, A, K, pos, x) ==
    \E e, h : Shape(u, A, K, pos, e) /\ Even(u, A, h, Nil, Nil) /\ NoTwoRed(u, A, x)

\* A red node under a red one: both are under a black one.
LEMMA RedPair ==
    ASSUME NEW t, NEW A, NEW K, NEW pos, NEW edge, Shape(t, A, K, pos, edge),
           NEW n \in A, n # t.root_, NoTwoRed(t, A, n), t.color_[n] = "red",
           NEW p, p = t.parent_[n], t.color_[p] = "red",
           NEW g, g = t.parent_[p], NEW s, s = Side(t, p)
    PROVE  /\ p \in A /\ g \in A /\ s \in Sides /\ Side(t, n) \in Sides
           /\ p # n /\ g # p /\ g # n /\ p # t.root_
           /\ t.child_[Side(t, n)][p] = n /\ t.child_[s][g] = p
           /\ GetBrother(t, p) = t.child_[Opposite(s)][g]
           /\ t.color_[g] = "black"
<1>1. p \in A /\ p # n /\ Side(t, n) \in Sides /\ t.child_[Side(t, n)][p] = n BY ParentFacts
<1>2. t.color_[t.root_] = "black" /\ p # t.root_ BY <1>1 DEF NoTwoRed
<1>3. g \in A /\ g # p /\ s \in Sides /\ t.child_[s][g] = p BY <1>1, <1>2, ParentFacts
<1>4. p # Nil /\ g # Nil /\ n # Nil /\ p \in Nodes /\ g \in Nodes
  BY <1>1, <1>3, TreeAssumption DEF Shape
<1>5. GetBrother(t, p) = t.child_[Opposite(s)][g] BY <1>3, <1>4, ChildFacts
<1>6. t.color_[g] # "red" BY <1>1, <1>3, <1>4 DEF NoTwoRed
<1>7. t.color_[g] = "black" BY <1>4, <1>6 DEF Shape, Trees, Colors
<1>8. QED BY <1>1, <1>2, <1>3, <1>5, <1>7

\* A red uncle: black moves down from the grandparent, which becomes the node
\* the loop is at, or stays black as the root.
LEMMA RecoloredKeeps ==
    ASSUME NEW t, NEW A, NEW K, NEW pos, NEW edge, Shape(t, A, K, pos, edge),
           NEW h, Even(t, A, h, Nil, Nil),
           NEW n \in A, n # t.root_, NoTwoRed(t, A, n), t.color_[n] = "red",
           IsRed(t, t.parent_[n]), IsRed(t, GetBrother(t, t.parent_[n]))
    PROVE  LET u == Recolored(t, n)[1]
               m == Recolored(t, n)[2]
           IN  /\ SameFrame(t, u) /\ Shape(u, A, K, pos, edge)
               /\ \E f : Even(u, A, f, Nil, Nil)
               /\ NoTwoRed(u, A, m)
               /\ m # Nil => /\ m \in A /\ m # u.root_ /\ u.color_[m] = "red"
                             /\ m = t.parent_[t.parent_[n]]
<1> DEFINE p == t.parent_[n]
           g == t.parent_[p]
           s == Side(t, p)
           o == Opposite(s)
           c == t.child_[o][g]
           v == Paint(Paint(t, p, "black"), GetBrother(t, p), "black")
           u == Recolored(t, n)[1]
           m == Recolored(t, n)[2]
<1>1. t.color_[p] = "red" BY DEF IsRed
<1>2. /\ p \in A /\ g \in A /\ s \in Sides /\ Side(t, n) \in Sides
      /\ p # n /\ g # p /\ g # n /\ p # t.root_
      /\ t.child_[Side(t, n)][p] = n /\ t.child_[s][g] = p
      /\ GetBrother(t, p) = c /\ t.color_[g] = "black"
  BY <1>1, RedPair
<1>3. /\ A \subseteq Nodes /\ t \in Trees /\ t.color_ \in [Nodes -> Colors]
      /\ \A k \in A : k # Nil /\ k \in Nodes
  BY TreeAssumption DEF Shape, Trees
<1>4. c # Nil /\ t.color_[c] = "red" BY <1>2 DEF IsRed
<1>5. o \in Sides /\ o # s /\ s # o /\ (\A d \in Sides : d = s \/ d = o)
  BY <1>2 DEF Sides, Opposite
<1> HIDE DEF p, g, s, o
<1>6. c \in A /\ c # g /\ c # p /\ c # t.root_ /\ t.parent_[c] = g
  <2>1. c \in A /\ c # g /\ c # t.root_ /\ Side(t, c) = o /\ t.parent_[c] = g
    BY <1>2, <1>4, <1>5, ChildFacts
  <2>2. Side(t, p) = s BY DEF s
  <2>3. c # p
    <3>1. SUFFICES ASSUME c = p PROVE FALSE OBVIOUS
    <3>2. Side(t, p) = o BY <2>1, <3>1
    <3>3. QED BY <1>5, <2>2, <3>2
  <2>4. QED BY <2>1, <2>3
<1>7. c # n
  <2>1. t.parent_[n] = p BY DEF p
  <2>2. QED BY <1>2, <1>6, <2>1
<1> HIDE DEF c
<1>8. /\ v \in Trees /\ v.root_ = t.root_ /\ v.child_ = t.child_ /\ v.parent_ = t.parent_
      /\ SameFrame(t, v)
      /\ \A k \in Nodes : v.color_[k] = IF k = c \/ k = p THEN "black" ELSE t.color_[k]
  <2>1. "black" \in Colors BY DEF Colors
  <2> DEFINE z == Paint(t, p, "black")
  <2>2. /\ z \in Trees /\ z.root_ = t.root_ /\ z.child_ = t.child_ /\ z.parent_ = t.parent_
        /\ SameFrame(t, z)
        /\ \A k \in Nodes : z.color_[k] = IF k = p THEN "black" ELSE t.color_[k]
    BY <1>2, <1>3, <2>1, PaintFields DEF SameFrame
  <2> HIDE DEF z
  <2>3. v = Paint(z, c, "black") BY <1>2 DEF z
  <2>4. /\ v \in Trees /\ v.root_ = z.root_ /\ v.child_ = z.child_ /\ v.parent_ = z.parent_
        /\ SameFrame(z, v)
        /\ \A k \in Nodes : v.color_[k] = IF k = c THEN "black" ELSE z.color_[k]
    BY <1>3, <1>6, <2>1, <2>2, <2>3, PaintFields DEF SameFrame
  <2> HIDE DEF v
  <2>5. QED BY <2>2, <2>4 DEF SameFrame
<1>9. t.root_ \in A /\ t.color_[t.root_] = "black" /\ t.parent_[t.root_] = Nil
  BY DEF Shape, Top, NoTwoRed
<1>10. g = t.root_ <=> t.parent_[g] = Nil
  BY <1>2, <1>3, <1>9, ParentFacts
<1> HIDE DEF v
<1>11. IF g = t.root_ THEN u = v /\ m = Nil ELSE u = Paint(v, g, "red") /\ m = g
  BY <1>8, <1>10 DEF Recolored, v, p, g
<1>12. /\ u \in Trees /\ u.root_ = t.root_ /\ u.child_ = t.child_ /\ u.parent_ = t.parent_
       /\ SameFrame(t, u)
       /\ \A k \in Nodes : u.color_[k] = IF k = c \/ k = p THEN "black"
                                         ELSE IF k = m THEN "red" ELSE t.color_[k]
  <2>1. CASE g = t.root_ BY <1>3, <1>8, <1>11, <2>1, TreeAssumption
  <2>2. CASE g # t.root_
    <3>1. "red" \in Colors BY DEF Colors
    <3> DEFINE z == Paint(v, g, "red")
    <3>2. /\ z \in Trees /\ z.root_ = v.root_ /\ z.child_ = v.child_ /\ z.parent_ = v.parent_
          /\ SameFrame(v, z)
          /\ \A k \in Nodes : z.color_[k] = IF k = g THEN "red" ELSE v.color_[k]
      BY <1>2, <1>3, <1>8, <3>1, PaintFields DEF SameFrame
    <3> HIDE DEF z
    <3>3. u = z /\ m = g BY <1>11, <2>2 DEF z
    <3> HIDE DEF u, m
    <3>4. QED BY <1>2, <1>6, <1>8, <3>2, <3>3 DEF SameFrame
  <2>3. QED BY <2>1, <2>2
<1>13. m = (IF g = t.root_ THEN Nil ELSE g) BY <1>11
<1> HIDE DEF u, m
<1>14. Shape(u, A, K, pos, edge) BY <1>12, SameLinks
<1> DEFINE f == [k \in Nodes |-> IF k \in {p, c} THEN h[k] + 1
                                 ELSE IF k = g /\ m = Nil THEN h[k] + 1 ELSE h[k]]
<1>15. Even(u, A, f, Nil, Nil)
  <2>1. f \in [Nodes -> Nat] BY DEF Even
  <2>2. SUFFICES ASSUME NEW k \in A, NEW d \in Sides
                 PROVE  f[k] = (IF t.child_[d][k] = Nil THEN 0 ELSE f[t.child_[d][k]])
                               + (IF u.color_[k] = "red" THEN 0 ELSE 1)
    BY <1>3, <1>12, <2>1 DEF Even
  <2> DEFINE a == t.child_[d][k]
  <2>3. /\ h[k] \in Nat /\ (a # Nil => a \in A /\ a \in Nodes /\ h[a] \in Nat)
        /\ t.color_[k] \in {"red", "black"}
        /\ a = Nil => h[k] = IF t.color_[k] = "red" THEN 0 ELSE 1
        /\ a # Nil => h[k] = h[a] + IF t.color_[k] = "red" THEN 0 ELSE 1
    BY <1>3, Steps
  <2>4. a # Nil => t.parent_[a] = k BY ChildFacts
  <2> HIDE DEF a
  <2>5. CASE k = p \/ k = c
    <3>1. (a # p /\ a # c /\ a # g) \/ a = Nil
      <4>1. t.parent_[p] = g /\ t.parent_[c] = g BY <1>6 DEF g
      <4>2. a = g => t.parent_[g] = k BY <1>2, <1>3, <2>4
      <4>3. t.parent_[g] # p /\ t.parent_[g] # c
        <5>1. SUFFICES ASSUME t.parent_[g] = p \/ t.parent_[g] = c PROVE FALSE OBVIOUS
        <5>2. t.parent_[g] \in A /\ \E i \in Sides : t.child_[i][t.parent_[g]] = g
          BY <1>2, <1>3, <1>6, <5>1, ParentFacts
        <5>3. Rotation(t, Rotate(t, g, s), A, g, c, s, o)
          BY <1>2, <1>4, <1>5, RotateLinks DEF c
        <5>4. Rotation(t, Rotate(t, g, o), A, g, p, o, s)
          BY <1>2, <1>3, <1>5, RotateLinks
        <5>5. QED BY <1>5, <5>1, <5>2, <5>3, <5>4 DEF Rotation
      <4>4. QED BY <1>2, <1>3, <1>6, <2>3, <2>4, <2>5, <4>1, <4>2, <4>3
    <3>2. t.color_[k] = "red" /\ u.color_[k] = "black" BY <1>1, <1>3, <1>4, <1>12, <2>5 DEF p
    <3>3. f[k] = h[k] + 1 BY <1>3, <2>5
    <3>4. a # Nil => f[a] = h[a] BY <2>3, <3>1
    <3> HIDE DEF f
    <3>5. QED BY <2>3, <3>2, <3>3, <3>4 DEF a
  <2>6. CASE k = g
    <3>1. a = p \/ a = c BY <1>2, <1>5, <2>6 DEF a, c
    <3>2. f[a] = h[a] + 1 /\ a # Nil BY <1>2, <1>3, <1>6, <3>1
    <3>3. f[g] = IF m = Nil THEN h[g] + 1 ELSE h[g] BY <1>2, <1>3, <1>6
    <3>4. u.color_[g] = IF m = Nil THEN "black" ELSE "red" BY <1>2, <1>3, <1>6, <1>12, <1>13
    <3> HIDE DEF f
    <3>5. QED BY <1>2, <2>3, <2>6, <3>2, <3>3, <3>4 DEF a
  <2>7. CASE k # p /\ k # c /\ k # g
    <3>1. a = Nil \/ (a # p /\ a # c)
      <4>1. t.parent_[p] = g /\ t.parent_[c] = g BY <1>6 DEF g
      <4>2. QED BY <2>4, <2>7, <4>1
    <3>2. a = g => m # Nil
      <4>1. a = g => a # t.root_ BY <1>2, <1>3, ChildFacts DEF a
      <4>2. QED BY <1>2, <1>3, <1>13, <4>1
    <3>3. f[k] = h[k] BY <1>3, <2>7
    <3>4. a # Nil => f[a] = h[a] BY <2>3, <3>1, <3>2
    <3>5. u.color_[k] = t.color_[k] BY <1>3, <1>12, <1>13, <2>7, TreeAssumption
    <3> HIDE DEF f
    <3>6. QED BY <2>3, <3>3, <3>4, <3>5 DEF a
  <2>8. QED BY <2>5, <2>6, <2>7
<1>16. NoTwoRed(u, A, m)
  <2>1. u.color_[u.root_] = "black" BY <1>3, <1>9, <1>12, <1>13, TreeAssumption
  <2>2. ASSUME NEW k \in A, NEW d \in Sides, u.color_[k] = "red"
        PROVE  u.child_[d][k] \in {Nil, m} \/ u.color_[u.child_[d][k]] = "black"
    <3>1. k # p /\ k # c BY <1>3, <1>12, <2>2, <1>2, <1>6
    <3>2. t.child_[d][k] # Nil => t.child_[d][k] \in A BY ChildFacts
    <3>3. CASE k = m
      <4>1. k = g /\ (t.child_[d][k] = p \/ t.child_[d][k] = c)
        BY <1>2, <1>3, <1>5, <1>13, <3>3, TreeAssumption DEF c
      <4>2. QED BY <1>2, <1>3, <1>6, <1>12, <4>1
    <3>4. CASE k # m
      <4>1. t.color_[k] = "red" BY <1>3, <1>12, <2>2, <3>1, <3>4
      <4>2. t.child_[d][k] \in {Nil, n} \/ t.color_[t.child_[d][k]] = "black"
        BY <4>1 DEF NoTwoRed
      <4>3. t.child_[d][k] # n
        <5>1. t.child_[d][k] = n => t.parent_[n] = k BY <1>3, ChildFacts
        <5>2. QED BY <3>1, <5>1 DEF p
      <4>4. QED BY <1>3, <1>12, <3>2, <4>2, <4>3
    <3>5. QED BY <3>3, <3>4
  <2>3. QED BY <2>1, <2>2 DEF NoTwoRed
<1>17. m # Nil => m \in A /\ m # u.root_ /\ u.color_[m] = "red" /\ m = g
  BY <1>2, <1>3, <1>6, <1>12, <1>13
<1>18. QED BY <1>12, <1>14, <1>15, <1>16, <1>17 DEF u, m, g, p

\* No red uncle: one or two rotations end the loop.
LEMMA TurnedKeeps ==
    ASSUME NEW t, NEW A, NEW K, NEW pos, NEW edge, Shape(t, A, K, pos, edge),
           NEW h, Even(t, A, h, Nil, Nil),
           NEW n \in A, n # t.root_, NoTwoRed(t, A, n), t.color_[n] = "red",
           IsRed(t, t.parent_[n]), ~IsRed(t, GetBrother(t, t.parent_[n]))
    PROVE  /\ SameFrame(t, Turned(t, n))
           /\ Balance(Turned(t, n), A, K, pos, Nil)
<1> DEFINE p == t.parent_[n]
           g == t.parent_[p]
           s == Side(t, p)
           o == Opposite(s)
           c == t.child_[o][g]
           u == Turned(t, n)
<1>1. t.color_[p] = "red" BY DEF IsRed
<1>2. /\ p \in A /\ g \in A /\ s \in Sides /\ Side(t, n) \in Sides
      /\ p # n /\ g # p /\ g # n /\ p # t.root_
      /\ t.child_[Side(t, n)][p] = n /\ t.child_[s][g] = p
      /\ GetBrother(t, p) = c /\ t.color_[g] = "black"
  BY <1>1, RedPair
<1>3. /\ A \subseteq Nodes /\ t \in Trees /\ t.color_ \in [Nodes -> Colors]
      /\ \A k \in A : k # Nil /\ k \in Nodes
  BY TreeAssumption DEF Shape, Trees
<1>4. c = Nil \/ t.color_[c] # "red" BY <1>2 DEF IsRed
<1>5. o \in Sides /\ o # s /\ s # o /\ Opposite(o) = s /\ (\A d \in Sides : d = s \/ d = o)
  BY <1>2 DEF Sides, Opposite
<1>6. "red" \in Colors /\ "black" \in Colors BY DEF Colors
<1>7. u = IF Side(t, n) = s
          THEN Paint(Paint(Rotate(t, g, o), p, "black"), g, "red")
          ELSE Paint(Paint(Rotate(Rotate(t, p, s), g, o), n, "black"), g, "red")
  BY DEF Turned
<1>8. t.parent_[n] = p /\ t.parent_[p] = g OBVIOUS
<1> HIDE DEF p, g, s, o, c, u
<1>9. \A k \in A, d \in Sides : t.child_[d][k] # Nil => t.child_[d][k] \in A
  BY ChildFacts
<1>10. \A d \in Sides : h[p] = IF t.child_[d][p] = Nil THEN 0 ELSE h[t.child_[d][p]]
  BY <1>1, <1>2, <1>3, <1>9 DEF Even
<1>11. \A d \in Sides : h[n] = IF t.child_[d][n] = Nil THEN 0 ELSE h[t.child_[d][n]]
  BY <1>3, <1>9 DEF Even
<1>12. \A d \in Sides : h[g] = (IF t.child_[d][g] = Nil THEN 0 ELSE h[t.child_[d][g]]) + 1
  BY <1>2, <1>3, <1>9 DEF Even
<1>13. h \in [Nodes -> Nat] /\ h[g] = h[p] + 1 /\ h[p] = h[n]
  BY <1>2, <1>3, <1>10, <1>12 DEF Even
<1>14. \A d \in Sides : \/ t.child_[d][n] = Nil
                        \/ t.color_[t.child_[d][n]] = "black"
  BY <1>3, ChildFacts DEF NoTwoRed
<1>15. CASE Side(t, n) = s
  <2> DEFINE r == Rotate(t, g, o)
             z == Paint(r, p, "black")
             f == [h EXCEPT ![p] = h[g], ![g] = h[p]]
  <2>1. t.child_[s][p] = n BY <1>2, <1>15
  <2>2. Rotation(t, r, A, g, p, o, s) /\ Shape(r, A, K, pos, RotatedEdge(t, g, o, pos, edge))
    BY <1>2, <1>3, <1>5, RotateLinks
  <2>3. r \in Trees BY <2>2 DEF Shape
  <2>4. SameFrame(t, r) /\ r.color_ = t.color_ BY <2>2 DEF Rotation
  <2> HIDE DEF r
  <2>5. /\ z \in Trees /\ z.root_ = r.root_ /\ z.child_ = r.child_ /\ z.parent_ = r.parent_
        /\ SameFrame(r, z)
        /\ \A k \in Nodes : z.color_[k] = IF k = p THEN "black" ELSE r.color_[k]
    BY <1>2, <1>3, <1>6, <2>3, PaintFields DEF SameFrame
  <2> HIDE DEF z
  <2> DEFINE y == Paint(z, g, "red")
  <2>6. u = y BY <1>7, <1>15 DEF z, r
  <2>7. /\ y \in Trees /\ y.root_ = z.root_ /\ y.child_ = z.child_ /\ y.parent_ = z.parent_
        /\ SameFrame(z, y)
        /\ \A k \in Nodes : y.color_[k] = IF k = g THEN "red" ELSE z.color_[k]
    BY <1>2, <1>3, <1>6, <2>5, PaintFields DEF SameFrame
  <2> HIDE DEF y
  <2>7a. /\ u \in Trees /\ u.root_ = z.root_ /\ u.child_ = z.child_ /\ u.parent_ = z.parent_
         /\ SameFrame(z, u)
         /\ \A k \in Nodes : u.color_[k] = IF k = g THEN "red" ELSE z.color_[k]
    BY <2>6, <2>7
  <2>8. Shape(u, A, K, pos, RotatedEdge(t, g, o, pos, edge)) BY <2>2, <2>5, <2>7a, SameLinks
  <2>9. SameFrame(t, u) BY <2>4, <2>5, <2>7a DEF SameFrame
  <2>10. \A k \in Nodes : u.color_[k] = IF k = g THEN "red" ELSE IF k = p THEN "black"
                                        ELSE t.color_[k]
    BY <2>4, <2>5, <2>7a
  <2>11. /\ u.child_[s][p] = n /\ u.child_[o][p] = g
         /\ u.child_[s][g] = t.child_[o][p] /\ u.child_[o][g] = c
         /\ t.child_[o][p] # g /\ t.child_[o][p] # p /\ c # g /\ c # p
         /\ \A k \in A \ {g, p}, d \in Sides :
              /\ t.child_[d][k] # p
              /\ u.child_[d][k] = IF t.child_[d][k] = g THEN p ELSE t.child_[d][k]
    BY <2>1, <2>2, <2>5, <2>7a DEF Rotation, c
  <2>12. f \in [Nodes -> Nat] /\ f[p] = h[g] /\ f[g] = h[p]
         /\ \A k \in Nodes : k # p /\ k # g => f[k] = h[k]
    BY <1>2, <1>3, <1>13
  <2> HIDE DEF f
  <2>13. Even(u, A, f, Nil, Nil)
    <3>1. SUFFICES ASSUME NEW k \in A, NEW d \in Sides
                   PROVE  f[k] = (IF u.child_[d][k] = Nil THEN 0 ELSE f[u.child_[d][k]])
                                 + (IF u.color_[k] = "red" THEN 0 ELSE 1)
      BY <1>3, <2>12 DEF Even
    <3>2. CASE k = p
      <4>1. u.color_[p] = "black" BY <1>2, <1>3, <2>10
      <4>2. f[n] = h[n] /\ n # Nil /\ g # Nil BY <1>2, <1>3, <2>12
      <4>3. QED BY <1>3, <1>5, <1>13, <2>11, <2>12, <3>2, <4>1, <4>2
    <3>3. CASE k = g
      <4>1. u.color_[g] = "red" BY <1>2, <1>3, <2>10
      <4>2. h[p] = IF t.child_[o][p] = Nil THEN 0 ELSE h[t.child_[o][p]] BY <1>5, <1>10
      <4>3. h[g] = (IF c = Nil THEN 0 ELSE h[c]) + 1 BY <1>5, <1>12 DEF c
      <4>4. t.child_[o][p] # Nil => f[t.child_[o][p]] = h[t.child_[o][p]]
        BY <1>2, <1>3, <1>5, <1>9, <2>11, <2>12
      <4>5. c # Nil => f[c] = h[c] /\ h[c] \in Nat
        BY <1>2, <1>3, <1>5, <1>9, <1>13, <2>11, <2>12 DEF c
      <4>6. h[p] = (IF c = Nil THEN 0 ELSE h[c]) BY <1>2, <1>3, <1>13, <4>3, <4>5
      <4>7. h[p] + 0 = h[p] BY <1>2, <1>3, <1>13
      <4>8. CASE d = s BY <2>11, <2>12, <3>3, <4>1, <4>2, <4>4, <4>7, <4>8
      <4>9. CASE d = o BY <2>11, <2>12, <3>3, <4>1, <4>5, <4>6, <4>7, <4>9
      <4>10. QED BY <1>5, <4>8, <4>9
    <3>4. CASE k # p /\ k # g
      <4>1. u.color_[k] = t.color_[k] BY <1>3, <2>10, <3>4
      <4>2. f[k] = h[k] BY <1>3, <2>12, <3>4
      <4>3. h[k] = (IF t.child_[d][k] = Nil THEN 0 ELSE h[t.child_[d][k]])
                   + (IF t.color_[k] = "red" THEN 0 ELSE 1)
        BY <1>3, <1>9 DEF Even
      <4>4. t.child_[d][k] # p /\ (t.child_[d][k] = g => u.child_[d][k] = p)
            /\ (t.child_[d][k] # g => u.child_[d][k] = t.child_[d][k])
        BY <2>11, <3>4
      <4>5. CASE t.child_[d][k] = g BY <1>2, <1>3, <2>12, <4>1, <4>2, <4>3, <4>4, <4>5
      <4>6. CASE t.child_[d][k] # g BY <1>3, <1>9, <2>12, <4>1, <4>2, <4>3, <4>4, <4>6
      <4>7. QED BY <4>5, <4>6
    <3>5. QED BY <3>2, <3>3, <3>4
  <2>14. NoTwoRed(u, A, Nil)
    <3>1. u.color_[u.root_] = "black"
      <4>1. u.root_ = IF t.root_ = g THEN p ELSE t.root_ BY <2>2, <2>5, <2>7a DEF Rotation
      <4>2. t.root_ \in A /\ t.color_[t.root_] = "black" BY DEF Shape, Top, NoTwoRed
      <4>3. QED BY <1>2, <1>3, <2>10, <4>1, <4>2
    <3>2. ASSUME NEW k \in A, NEW d \in Sides, u.color_[k] = "red"
          PROVE  u.child_[d][k] \in {Nil, Nil} \/ u.color_[u.child_[d][k]] = "black"
      <4>1. k # p BY <1>2, <1>3, <2>10, <3>2
      <4>2. CASE k = g
        <5>1. c = Nil \/ u.color_[c] = "black"
          <6>1. c # Nil => c \in A BY <1>2, <1>5, <1>9 DEF c
          <6>2. c # Nil => t.color_[c] = "black" BY <1>3, <1>4, <6>1 DEF Colors
          <6>3. QED BY <1>3, <2>10, <2>11, <6>1, <6>2
        <5>2. t.child_[o][p] = Nil \/ u.color_[t.child_[o][p]] = "black"
          <6>1. t.child_[o][p] # n BY <1>2, <1>3, <1>5, <1>15, ChildFacts
          <6>2. t.child_[o][p] = Nil \/ t.color_[t.child_[o][p]] = "black"
            BY <1>1, <1>2, <1>5, <6>1 DEF NoTwoRed
          <6>3. QED BY <1>2, <1>3, <1>5, <1>9, <2>10, <2>11, <6>2
        <5>3. QED BY <1>5, <2>11, <4>2, <5>1, <5>2
      <4>3. CASE k # g
        <5>1. t.color_[k] = "red" BY <1>3, <2>10, <3>2, <4>1, <4>3
        <5>2. t.child_[d][k] \in {Nil, n} \/ t.color_[t.child_[d][k]] = "black"
          BY <5>1 DEF NoTwoRed
        <5>3. t.child_[d][k] # n
          <6>1. t.child_[d][k] = n => t.parent_[n] = k BY <1>3, ChildFacts
          <6>2. QED BY <1>8, <4>1, <6>1
        <5>4. QED BY <1>2, <1>3, <1>9, <2>10, <2>11, <4>1, <4>3, <5>2, <5>3
      <4>4. QED BY <4>2, <4>3
    <3>3. QED BY <3>1, <3>2 DEF NoTwoRed
  <2>15. QED BY <2>8, <2>9, <2>13, <2>14 DEF Balance, u
<1>16. CASE Side(t, n) # s
  <2> DEFINE r == Rotate(Rotate(t, p, s), g, o)
             z == Paint(r, n, "black")
             f == [h EXCEPT ![n] = h[g], ![g] = h[n]]
  <2>1. t.child_[o][p] = n BY <1>2, <1>5, <1>16
  <2>2. DoubleRotation(t, r, A, g, p, n, o, s) /\ \E e : Shape(r, A, K, pos, e)
    BY <1>2, <1>3, <1>5, <2>1, DoubleLinks
  <2>3. r \in Trees BY <2>2 DEF Shape
  <2>4. SameFrame(t, r) /\ r.color_ = t.color_ BY <2>2 DEF DoubleRotation
  <2> HIDE DEF r
  <2>5. /\ z \in Trees /\ z.root_ = r.root_ /\ z.child_ = r.child_ /\ z.parent_ = r.parent_
        /\ SameFrame(r, z)
        /\ \A k \in Nodes : z.color_[k] = IF k = n THEN "black" ELSE r.color_[k]
    BY <1>2, <1>3, <1>6, <2>3, PaintFields DEF SameFrame
  <2> HIDE DEF z
  <2> DEFINE y == Paint(z, g, "red")
  <2>6. u = y BY <1>7, <1>16 DEF z, r
  <2>7. /\ y \in Trees /\ y.root_ = z.root_ /\ y.child_ = z.child_ /\ y.parent_ = z.parent_
        /\ SameFrame(z, y)
        /\ \A k \in Nodes : y.color_[k] = IF k = g THEN "red" ELSE z.color_[k]
    BY <1>2, <1>3, <1>6, <2>5, PaintFields DEF SameFrame
  <2> HIDE DEF y
  <2>7a. /\ u \in Trees /\ u.root_ = z.root_ /\ u.child_ = z.child_ /\ u.parent_ = z.parent_
         /\ SameFrame(z, u)
         /\ \A k \in Nodes : u.color_[k] = IF k = g THEN "red" ELSE z.color_[k]
    BY <2>6, <2>7
  <2>8. \E e : Shape(u, A, K, pos, e) BY <2>2, <2>5, <2>7a, SameLinks
  <2>9. SameFrame(t, u) BY <2>4, <2>5, <2>7a DEF SameFrame
  <2>10. \A k \in Nodes : u.color_[k] = IF k = g THEN "red" ELSE IF k = n THEN "black"
                                        ELSE t.color_[k]
    BY <2>4, <2>5, <2>7a
  <2>11. /\ u.child_[o][n] = g /\ u.child_[s][n] = p
         /\ u.child_[s][g] = t.child_[o][n] /\ u.child_[o][g] = c
         /\ u.child_[o][p] = t.child_[s][n] /\ u.child_[s][p] = t.child_[s][p]
         /\ \A d \in Sides : u.child_[d][g] # n /\ u.child_[d][p] # n
         /\ \A k \in A \ {g, p, n}, d \in Sides :
              /\ t.child_[d][k] # p /\ t.child_[d][k] # n
              /\ u.child_[d][k] = IF t.child_[d][k] = g THEN n ELSE t.child_[d][k]
    BY <2>1, <2>2, <2>5, <2>7a DEF DoubleRotation, c
  <2>12. f \in [Nodes -> Nat] /\ f[n] = h[g] /\ f[g] = h[n]
         /\ \A k \in Nodes : k # n /\ k # g => f[k] = h[k]
    BY <1>2, <1>3, <1>13
  <2> HIDE DEF f
  <2>13. \A d \in Sides : u.child_[d][g] # g /\ u.child_[d][p] # g
    <3>1. PICK e : Shape(u, A, K, pos, e) BY <2>8
    <3>2. u.parent_[g] = n BY <1>2, <1>3, <1>5, <2>11, <3>1, ChildFacts
    <3>3. \A d \in Sides, k \in A : u.child_[d][k] = g => u.parent_[g] = k
      BY <1>2, <1>3, <3>1, ChildFacts
    <3>4. QED BY <1>2, <3>2, <3>3
  <2>14. \A k \in A, d \in Sides : u.child_[d][k] # Nil => u.child_[d][k] \in A
    BY <2>8, ChildFacts
  <2>15. Even(u, A, f, Nil, Nil)
    <3>1. SUFFICES ASSUME NEW k \in A, NEW d \in Sides
                   PROVE  f[k] = (IF u.child_[d][k] = Nil THEN 0 ELSE f[u.child_[d][k]])
                                 + (IF u.color_[k] = "red" THEN 0 ELSE 1)
      BY <1>3, <2>12 DEF Even
    <3>0. h[n] \in Nat /\ h[p] \in Nat /\ h[g] \in Nat BY <1>2, <1>3, <1>13
    <3>2. CASE k = n
      <4>1. u.color_[n] = "black" BY <1>2, <1>3, <2>10
      <4>2. f[p] = h[p] /\ f[g] = h[p] /\ p # Nil /\ g # Nil BY <1>2, <1>3, <1>13, <2>12
      <4>3. QED BY <1>5, <1>13, <2>11, <2>12, <3>2, <4>1, <4>2
    <3>3. CASE k = g
      <4>1. u.color_[g] = "red" BY <1>2, <1>3, <2>10
      <4>2. h[n] = IF t.child_[o][n] = Nil THEN 0 ELSE h[t.child_[o][n]] BY <1>5, <1>11
      <4>3. h[g] = (IF c = Nil THEN 0 ELSE h[c]) + 1 BY <1>5, <1>12 DEF c
      <4>4. u.child_[d][g] # Nil => f[u.child_[d][g]] = h[u.child_[d][g]] /\ h[u.child_[d][g]] \in Nat
        BY <1>2, <1>3, <1>13, <2>11, <2>12, <2>13, <2>14
      <4>5. h[n] = (IF u.child_[d][g] = Nil THEN 0 ELSE h[u.child_[d][g]])
        <5>1. CASE d = s BY <2>11, <4>2, <5>1
        <5>2. CASE d = o BY <1>13, <2>11, <3>0, <4>3, <4>4, <5>2
        <5>3. QED BY <1>5, <5>1, <5>2
      <4>6. QED BY <2>12, <3>0, <3>3, <4>1, <4>4, <4>5
    <3>4. CASE k = p
      <4>1. u.color_[p] = "red" BY <1>1, <1>2, <1>3, <2>10
      <4>2. u.child_[d][p] # Nil => f[u.child_[d][p]] = h[u.child_[d][p]]
        <5>1. SUFFICES ASSUME u.child_[d][p] # Nil PROVE f[u.child_[d][p]] = h[u.child_[d][p]]
          OBVIOUS
        <5>2. u.child_[d][p] \in A BY <1>2, <2>14, <5>1
        <5>3. u.child_[d][p] # n /\ u.child_[d][p] # g BY <2>11, <2>13
        <5>4. QED BY <1>3, <2>12, <5>2, <5>3
      <4>3. h[p] = IF u.child_[d][p] = Nil THEN 0 ELSE h[u.child_[d][p]]
        <5>1. CASE d = s BY <1>10, <2>11, <5>1
        <5>2. CASE d = o
          <6>1. h[n] = IF t.child_[s][n] = Nil THEN 0 ELSE h[t.child_[s][n]] BY <1>2, <1>11
          <6>2. u.child_[d][p] = t.child_[s][n] BY <2>11, <5>2
          <6>3. QED BY <1>13, <6>1, <6>2
        <5>3. QED BY <1>5, <5>1, <5>2
      <4>4. f[p] = h[p] /\ h[p] + 0 = h[p] BY <1>2, <1>3, <2>12, <3>0
      <4>5. QED BY <3>4, <4>1, <4>2, <4>3, <4>4
    <3>5. CASE k # p /\ k # g /\ k # n
      <4>1. u.color_[k] = t.color_[k] BY <1>3, <2>10, <3>5
      <4>2. f[k] = h[k] BY <1>3, <2>12, <3>5
      <4>3. h[k] = (IF t.child_[d][k] = Nil THEN 0 ELSE h[t.child_[d][k]])
                   + (IF t.color_[k] = "red" THEN 0 ELSE 1)
        BY <1>3, <1>9 DEF Even
      <4>4. t.child_[d][k] # n /\ (t.child_[d][k] = g => u.child_[d][k] = n)
            /\ (t.child_[d][k] # g => u.child_[d][k] = t.child_[d][k])
        BY <2>11, <3>5
      <4>5. CASE t.child_[d][k] = g BY <1>2, <1>3, <2>12, <4>1, <4>2, <4>3, <4>4, <4>5
      <4>6. CASE t.child_[d][k] # g BY <1>3, <1>9, <2>12, <4>1, <4>2, <4>3, <4>4, <4>6
      <4>7. QED BY <4>5, <4>6
    <3>6. QED BY <3>2, <3>3, <3>4, <3>5
  <2>16. NoTwoRed(u, A, Nil)
    <3>1. u.color_[u.root_] = "black"
      <4>1. u.root_ = IF t.root_ = g THEN n ELSE t.root_ BY <2>2, <2>5, <2>7a DEF DoubleRotation
      <4>2. t.root_ \in A /\ t.color_[t.root_] = "black" BY DEF Shape, Top, NoTwoRed
      <4>3. QED BY <1>2, <1>3, <2>10, <4>1, <4>2
    <3>2. ASSUME NEW k \in A, NEW d \in Sides, u.color_[k] = "red"
          PROVE  u.child_[d][k] \in {Nil, Nil} \/ u.color_[u.child_[d][k]] = "black"
      <4>1. k # n BY <1>2, <1>3, <2>10, <3>2
      <4>2. ASSUME NEW a \in NodesOrNil, a = Nil \/ (a \in A /\ a # g /\ t.color_[a] = "black")
            PROVE  a = Nil \/ u.color_[a] = "black"
        BY <1>3, <2>10, <4>2
      <4>3. u.child_[d][k] \in NodesOrNil BY <1>3, <2>14 DEF NodesOrNil
      <4>4. CASE k = g
        <5>1. c = Nil \/ (c \in A /\ t.color_[c] = "black")
          <6>1. c # Nil => c \in A BY <1>2, <1>5, <1>9 DEF c
          <6>2. QED BY <1>3, <1>4, <6>1 DEF Colors
        <5>2. t.child_[o][n] = Nil \/ t.color_[t.child_[o][n]] = "black" BY <1>5, <1>14
        <5>3. u.child_[d][g] = Nil \/ t.color_[u.child_[d][g]] = "black"
          BY <1>5, <2>11, <5>1, <5>2
        <5>4. QED BY <2>13, <2>14, <4>2, <4>3, <4>4, <5>3
      <4>5. CASE k = p
        <5>1. t.child_[s][p] = Nil \/ t.color_[t.child_[s][p]] = "black"
          <6>1. t.child_[s][p] # n BY <1>2, <1>3, <1>16, ChildFacts
          <6>2. QED BY <1>1, <1>2, <6>1 DEF NoTwoRed
        <5>2. t.child_[s][n] = Nil \/ t.color_[t.child_[s][n]] = "black" BY <1>2, <1>14
        <5>3. u.child_[d][p] = Nil \/ t.color_[u.child_[d][p]] = "black"
          BY <1>5, <2>11, <5>1, <5>2
        <5>4. QED BY <2>13, <2>14, <4>2, <4>3, <4>5, <5>3
      <4>6. CASE k # g /\ k # p
        <5>1. t.color_[k] = "red" BY <1>3, <2>10, <3>2, <4>1, <4>6
        <5>2. t.child_[d][k] # n /\ (t.child_[d][k] = g => u.child_[d][k] = n)
              /\ (t.child_[d][k] # g => u.child_[d][k] = t.child_[d][k])
          BY <2>11, <4>1, <4>6
        <5>3. t.child_[d][k] = Nil \/ t.color_[t.child_[d][k]] = "black"
          BY <5>1, <5>2 DEF NoTwoRed
        <5>4. CASE t.child_[d][k] = g BY <1>2, <1>3, <2>10, <5>2, <5>4
        <5>5. CASE t.child_[d][k] # g BY <1>9, <4>2, <4>3, <5>2, <5>3, <5>5
        <5>6. QED BY <5>4, <5>5
      <4>7. QED BY <4>4, <4>5, <4>6
    <3>3. QED BY <3>1, <3>2 DEF NoTwoRed
  <2>17. QED BY <2>8, <2>9, <2>15, <2>16 DEF Balance, u
<1>17. QED BY <1>15, <1>16

------------------------------------------------------------------------------
(* Loops and recursive functions *)

\* Some set of numbers holds a least one.
LEMMA NatMin ==
    ASSUME NEW S \in SUBSET Nat, S # {}
    PROVE  \E m \in S : \A k \in S : m <= k
<1>1. IsWellFoundedOn(OpToRel(<, Nat), Nat) BY NatLessThanWellFounded
<1>2. PICK m \in S : \A k \in S : ~(<<k, m>> \in OpToRel(<, Nat)) BY <1>1, WFMin
<1>3. \A k \in S : ~(k < m) BY <1>2 DEF OpToRel
<1>4. QED BY <1>3

\* Induction: what holds of 0 and is handed on holds up to N.
LEMMA Climb ==
    ASSUME NEW N \in Nat, NEW S, 0 \in S, \A i \in 0..N : i \in S /\ i < N => i + 1 \in S
    PROVE  0..N \subseteq S
<1> DEFINE B == (0..N) \ S
<1>1. SUFFICES ASSUME B # {} PROVE FALSE OBVIOUS
<1>0. B \in SUBSET Nat OBVIOUS
<1>2. PICK m \in B : \A k \in B : m <= k
  <2> HIDE DEF B
  <2>1. QED BY <1>0, <1>1, NatMin
<1>3. m # 0 /\ m - 1 \in 0..N /\ m - 1 < N OBVIOUS
<1>4. m - 1 \in S BY <1>2, <1>3
<1>5. (m - 1) + 1 \in S BY <1>3, <1>4
<1>6. QED BY <1>5

\* N rounds of f from s0 on.
Run(g, N, S, f, s0) ==
    g \in [0..N -> S] /\ g[0] = s0 /\ \A i \in 1..N : g[i] = f[g[i - 1]]

\* What is taken on by a function can be taken on N times.
LEMMA Iterates ==
    ASSUME NEW N \in Nat, NEW S, NEW f \in [S -> S], NEW s0 \in S
    PROVE  \E g : Run(g, N, S, f, s0)
<1> DEFINE Good(k) == \E g \in [0..k -> S] : g[0] = s0 /\ \A i \in 1..k : g[i] = f[g[i - 1]]
           G == {k \in Nat : Good(k)}
<1>1. Good(0)
  <2> DEFINE e == [i \in 0..0 |-> s0]
  <2>1. e \in [0..0 -> S] /\ e[0] = s0 OBVIOUS
  <2>2. \A i \in 1..0 : e[i] = f[e[i - 1]] OBVIOUS
  <2> HIDE DEF e
  <2>3. QED BY <2>1, <2>2
<1>2. ASSUME NEW k \in Nat, Good(k) PROVE Good(k + 1)
  <2>1. PICK g \in [0..k -> S] : g[0] = s0 /\ \A i \in 1..k : g[i] = f[g[i - 1]] BY <1>2
  <2> DEFINE e == [i \in 0..(k + 1) |-> IF i <= k THEN g[i] ELSE f[g[k]]]
  <2>2. e \in [0..(k + 1) -> S] OBVIOUS
  <2>3. e[0] = s0 BY <2>1
  <2>4. ASSUME NEW i \in 1..(k + 1) PROVE e[i] = f[e[i - 1]]
    <3>1. CASE i <= k BY <2>1, <3>1
    <3>2. CASE i = k + 1 BY <3>2
    <3>3. QED BY <3>1, <3>2
  <2>5. QED BY <2>2, <2>3, <2>4
<1> HIDE DEF Good
<1>3. 0 \in G /\ \A i \in 0..N : i \in G /\ i < N => i + 1 \in G BY <1>1, <1>2
<1>4. N \in G
  <2> HIDE DEF G
  <2>1. 0..N \subseteq G BY <1>3, Climb
  <2>2. N \in 0..N OBVIOUS
  <2>3. QED BY <2>1, <2>2
<1>5. QED BY <1>4 DEF Good, Run

\* Two runs of a loop are one.
LEMMA SameRun ==
    ASSUME NEW N \in Nat, NEW f, NEW g, f[0] = g[0],
           \A i \in 0..N : i < N /\ f[i] = g[i] => f[i + 1] = g[i + 1]
    PROVE  \A i \in 0..N : f[i] = g[i]
<1> DEFINE S == {i \in 0..N : f[i] = g[i]}
<1>1. 0 \in S OBVIOUS
<1>2. \A i \in 0..N : i \in S /\ i < N => i + 1 \in S
  OBVIOUS
<1>3. QED
  <2> HIDE DEF S
  <2>1. 0..N \subseteq S BY <1>1, <1>2, Climb
  <2>2. QED BY <2>1 DEF S

\* A function whose values are taken from where a way stops.
Along(f, D, Stop, val, next) ==
    f = [d \in D |-> IF d \in Stop THEN val[d] ELSE f[next[d]]]

\* There is such a function when every way goes down in rank.
LEMMA Walks ==
    ASSUME NEW D, NEW M \in Nat, NEW rank \in [D -> 0..M], NEW Stop \in SUBSET D, NEW val,
           NEW next \in [D \ Stop -> D], \A d \in D \ Stop : rank[next[d]] < rank[d]
    PROVE  \E f : Along(f, D, Stop, val, next)
<1> DEFINE Low(k) == {d \in D : rank[d] < k}
           Good(k) == \E f : f = [d \in Low(k) |-> IF d \in Stop THEN val[d] ELSE f[next[d]]]
           G == {k \in Nat : Good(k)}
<1>1. Good(0)
  <2>1. Low(0) = {} OBVIOUS
  <2>2. \E f : f = [d \in {} |-> IF d \in Stop THEN val[d] ELSE f[next[d]]]
    <3> DEFINE f == [d \in {} |-> 0]
    <3>1. f = [d \in {} |-> IF d \in Stop THEN val[d] ELSE f[next[d]]] OBVIOUS
    <3>2. QED BY <3>1
  <2>3. QED BY <2>1, <2>2
<1>2. ASSUME NEW k \in Nat, Good(k) PROVE Good(k + 1)
  <2>1. PICK f : f = [d \in Low(k) |-> IF d \in Stop THEN val[d] ELSE f[next[d]]] BY <1>2
  <2> DEFINE e == [d \in Low(k + 1) |-> IF d \in Stop THEN val[d] ELSE f[next[d]]]
  <2>2. ASSUME NEW d \in Low(k + 1), d \notin Stop PROVE e[next[d]] = f[next[d]]
    <3>1. next[d] \in Low(k) /\ next[d] \in Low(k + 1) BY <2>2
    <3> HIDE DEF Low
    <3>2. f[next[d]] = IF next[d] \in Stop THEN val[next[d]] ELSE f[next[next[d]]]
      BY <2>1, <3>1
    <3>3. e[next[d]] = IF next[d] \in Stop THEN val[next[d]] ELSE f[next[next[d]]]
      BY <3>1
    <3>4. QED BY <3>2, <3>3
  <2> HIDE DEF Low
  <2>3. e = [d \in Low(k + 1) |-> IF d \in Stop THEN val[d] ELSE e[next[d]]] BY <2>2
  <2> HIDE DEF e
  <2>4. QED BY <2>3
<1> HIDE DEF Good
<1>3. 0 \in G /\ \A i \in 0..(M + 1) : i \in G /\ i < M + 1 => i + 1 \in G BY <1>1, <1>2
<1>4. M + 1 \in G
  <2> HIDE DEF G
  <2>1. 0..(M + 1) \subseteq G BY <1>3, Climb
  <2>2. M + 1 \in 0..(M + 1) OBVIOUS
  <2>3. QED BY <2>1, <2>2
<1>5. Low(M + 1) = D OBVIOUS
<1>6. Good(M + 1) BY <1>4
<1> HIDE DEF Low
<1>7. QED BY <1>5, <1>6 DEF Good, Along

\* A loop that goes down in rank, or is done, is done after as many rounds as its rank.
LEMMA Loops ==
    ASSUME NEW N \in Nat, NEW S, NEW f \in [S -> S], NEW s0 \in S, NEW Done \in SUBSET S,
           NEW rank \in [S -> Nat], \A x \in Done : f[x] \in Done,
           \A x \in S \ Done : f[x] \in Done \/ rank[f[x]] < rank[x],
           s0 \in Done \/ rank[s0] < N
    PROVE  \E g : Run(g, N, S, f, s0) /\ g[N] \in Done
<1>0. PICK g : Run(g, N, S, f, s0) BY Iterates
<1>1. g \in [0..N -> S] /\ g[0] = s0 /\ \A i \in 1..N : g[i] = f[g[i - 1]] BY <1>0 DEF Run
<1> DEFINE G == {i \in 0..N : g[i] \in Done \/ rank[g[i]] + i < N}
<1>2. 0 \in G BY <1>1
<1>3. \A i \in 0..N : i \in G /\ i < N => i + 1 \in G
  <2>1. SUFFICES ASSUME NEW i \in 0..N, i \in G, i < N PROVE i + 1 \in G OBVIOUS
  <2>2. i + 1 \in 1..N /\ (i + 1) - 1 = i /\ i + 1 \in 0..N BY <2>1
  <2>3. g[i + 1] = f[g[i]] BY <1>1, <2>2
  <2>4. g[i] \in S /\ g[i + 1] \in S BY <1>1, <2>2
  <2>5. g[i] \in Done \/ rank[g[i]] + i < N BY <2>1
  <2>6. CASE g[i] \in Done BY <2>2, <2>3, <2>6
  <2>7. CASE g[i] \notin Done
    <3>1. f[g[i]] \in Done \/ rank[f[g[i]]] < rank[g[i]] BY <2>4, <2>7
    <3>2. rank[g[i]] \in Nat /\ rank[g[i + 1]] \in Nat BY <2>4
    <3>3. QED BY <2>2, <2>3, <2>5, <2>7, <3>1, <3>2
  <2>8. QED BY <2>6, <2>7
<1>4. N \in G
  <2> HIDE DEF G
  <2>1. 0..N \subseteq G BY <1>2, <1>3, Climb
  <2>2. N \in 0..N OBVIOUS
  <2>3. QED BY <2>1, <2>2
<1>5. g[N] \in S /\ rank[g[N]] \in Nat BY <1>1
<1>6. g[N] \in Done BY <1>4, <1>5
<1>7. QED BY <1>0, <1>6

------------------------------------------------------------------------------
(* Going up and down a tree *)

Width(edge, n) == edge["right"][n] - edge["left"][n]

\* The nodes under a child have less room than those under its parent.
LEMMA Narrower ==
    ASSUME NEW t, NEW A, NEW K, NEW pos, NEW edge, Shape(t, A, K, pos, edge),
           NEW n \in A
    PROVE  /\ Width(edge, n) \in 2..(K + 1)
           /\ t.parent_[n] # Nil \/ n # t.root_ =>
                Width(edge, n) < Width(edge, t.parent_[n])
           /\ \A s \in Sides : t.child_[s][n] # Nil =>
                Width(edge, t.child_[s][n]) < Width(edge, n)
<1>1. /\ A \subseteq Nodes /\ K \in Nat
      /\ pos \in [Nodes -> Int] /\ edge \in [Sides -> [Nodes -> Int]]
      /\ "left" \in Sides /\ "right" \in Sides
  BY DEF Shape, Placed, Sides
<1>2. \A m \in A : /\ pos[m] \in Int /\ edge["left"][m] \in Int /\ edge["right"][m] \in Int
                   /\ 0 <= edge["left"][m] /\ edge["left"][m] < pos[m]
                   /\ pos[m] < edge["right"][m] /\ edge["right"][m] <= K + 1
  BY <1>1 DEF Shape, Placed
<1>3. Width(edge, n) \in 2..(K + 1) BY <1>1, <1>2 DEF Width
<1>4. ASSUME NEW m \in A, NEW s \in Sides, t.child_[s][m] # Nil
      PROVE  Width(edge, t.child_[s][m]) < Width(edge, m)
  <2> DEFINE c == t.child_[s][m]
  <2>1. c \in A /\ edge[s][c] = edge[s][m] /\ edge[Opposite(s)][c] = pos[m] BY <1>4, ChildFacts
  <2> HIDE DEF c
  <2>2. CASE s = "left" BY <1>2, <2>1, <2>2 DEF Opposite, Width, c
  <2>3. CASE s = "right" BY <1>2, <2>1, <2>3 DEF Opposite, Width, c
  <2>4. QED BY <2>2, <2>3 DEF Sides
<1>5. ASSUME t.parent_[n] # Nil \/ n # t.root_
      PROVE  Width(edge, n) < Width(edge, t.parent_[n])
  <2>1. /\ t.parent_[n] \in A /\ Side(t, n) \in Sides
        /\ t.child_[Side(t, n)][t.parent_[n]] = n
    BY <1>5, ParentFacts
  <2>2. n # Nil BY <1>1, TreeAssumption
  <2>3. QED BY <1>4, <2>1, <2>2
<1>6. QED BY <1>3, <1>4, <1>5

\* Among some nodes there is one whose parent is not among them.
LEMMA Highest ==
    ASSUME NEW t, NEW A, NEW K, NEW pos, NEW edge, Shape(t, A, K, pos, edge),
           NEW B \in SUBSET A, B # {}
    PROVE  \E n \in B : n = t.root_ \/ t.parent_[n] \notin B
<1> DEFINE R(n) == K + 1 - Width(edge, n)
           S == {R(n) : n \in B}
<1>0. K \in Nat /\ \A n \in B : Width(edge, n) \in 2..(K + 1) BY Narrower DEF Shape
<1>1. S \in SUBSET Nat /\ S # {} BY <1>0
<1>2. PICK m \in S : \A k \in S : m <= k
  <2> HIDE DEF S
  <2>1. QED BY <1>1, NatMin
<1>3. PICK n \in B : m = R(n) OBVIOUS
<1>4. SUFFICES ASSUME n # t.root_, t.parent_[n] \in B PROVE FALSE OBVIOUS
<1>5. Width(edge, n) < Width(edge, t.parent_[n]) BY <1>4, Narrower
<1>6. R(n) <= R(t.parent_[n]) BY <1>2, <1>3, <1>4
<1>7. QED BY <1>0, <1>4, <1>5, <1>6

\* Among some nodes there is one with no child among them.
LEMMA Lowest ==
    ASSUME NEW t, NEW A, NEW K, NEW pos, NEW edge, Shape(t, A, K, pos, edge),
           NEW B \in SUBSET A, B # {}
    PROVE  \E n \in B : \A s \in Sides : t.child_[s][n] \notin B
<1> DEFINE S == {Width(edge, n) : n \in B}
<1>0. K \in Nat /\ \A n \in B : Width(edge, n) \in 2..(K + 1) BY Narrower DEF Shape
<1>1. S \in SUBSET Nat /\ S # {} BY <1>0
<1>2. PICK m \in S : \A k \in S : m <= k
  <2> HIDE DEF S
  <2>1. QED BY <1>1, NatMin
<1>3. PICK n \in B : m = Width(edge, n) OBVIOUS
<1>4. SUFFICES ASSUME NEW s \in Sides, t.child_[s][n] \in B PROVE FALSE BY <1>3
<1>5. t.child_[s][n] # Nil BY <1>4, TreeAssumption DEF Shape
<1>6. Width(edge, t.child_[s][n]) < Width(edge, n) BY <1>5, Narrower
<1>7. m <= Width(edge, t.child_[s][n]) BY <1>2, <1>4
<1>8. QED BY <1>0, <1>3, <1>4, <1>6, <1>7

\* A side of p without a child bounds nobody.
LEMMA Bare ==
    ASSUME NEW t, NEW A, NEW K, NEW pos, NEW edge, Shape(t, A, K, pos, edge),
           NEW p \in A, NEW s \in Sides, NEW o \in Sides, o # s, t.child_[s][p] = Nil
    PROVE  \A n \in A : edge[o][n] # pos[p]
<1> DEFINE B == {n \in A : edge[o][n] = pos[p]}
<1>1. SUFFICES ASSUME B # {} PROVE FALSE OBVIOUS
<1>2. o = Opposite(s) /\ s = Opposite(o) BY DEF Sides, Opposite
<1>3. PICK n \in B : n = t.root_ \/ t.parent_[n] \notin B
  <2> HIDE DEF B
  <2>1. B \in SUBSET A BY DEF B
  <2>2. QED BY <1>1, <2>1, Highest
<1>4. n # t.root_ BY DEF Shape, Top, Placed, Sides
<1>5. t.parent_[n] \notin B BY <1>3, <1>4
<1> DEFINE y == t.parent_[n]
<1>6. /\ y \in A /\ Side(t, n) \in Sides /\ t.child_[Side(t, n)][y] = n
  BY <1>4, ParentFacts
<1>7. n # Nil BY TreeAssumption DEF Shape
<1> HIDE DEF y
<1>8. CASE Side(t, n) = o
  <2>1. t.child_[o][y] = n BY <1>6, <1>8
  <2>2. edge[o][n] = edge[o][y] BY <1>6, <1>7, <2>1, ChildFacts
  <2>3. QED BY <1>5, <1>6, <2>2 DEF y
<1>9. CASE Side(t, n) = s
  <2>1. t.child_[s][y] = n BY <1>6, <1>9
  <2>2. edge[o][n] = pos[y] BY <1>2, <1>6, <1>7, <2>1, ChildFacts
  <2>3. y = p BY <1>6, <2>2 DEF Shape, Placed
  <2>4. QED BY <1>7, <2>1, <2>3
<1>10. QED BY <1>6, <1>8, <1>9 DEF Sides

------------------------------------------------------------------------------
(* Insert: a new leaf *)

\* What is outside the tree holds nothing.
Tidy(t, B) ==
    \A n \in Nodes \ B : /\ \A s \in Sides : t.child_[s][n] = Nil
                         /\ t.parent_[n] = Nil /\ t.color_[n] = "black"

Sorted(A, pos) == \A m, n \in A : pos[m] < pos[n] => Key[m] <= Key[n]

Ends(t, A, K, pos) ==
    IF A = {} THEN t.min_ = Nil /\ t.max_ = Nil
    ELSE t.min_ \in A /\ t.max_ \in A /\ pos[t.min_] = 1 /\ pos[t.max_] = K

\* All that is true of the tree between two operations.
Whole(t, K, pos) ==
    /\ Balance(t, t.alive, K, pos, Nil) /\ Tidy(t, t.alive)
    /\ Sorted(t.alive, pos) /\ Ends(t, t.alive, K, pos)
    /\ t.size_ = K /\ K = Cardinality(t.alive)

\* A key goes between those of the nodes on its left and those of the nodes on its
\* right of the place it has come down to.
Between(A, pos, edge, n, p) ==
    \A x \in A : /\ pos[x] <= edge["left"][p] => Key[x] <= Key[n]
                 /\ pos[x] >= edge["right"][p] => Key[n] < Key[x]

\* The way down for a new node ends where its side is free.
LEMMA LeafFacts ==
    ASSUME NEW t, NEW A, NEW K, NEW pos, NEW edge, Shape(t, A, K, pos, edge), A # {},
           Tidy(t, A), Sorted(A, pos), NEW n \in Nodes,
           NEW p, p = Leaf(t, n)
    PROVE  /\ p \in A /\ WayDown(n, p) \in Sides /\ t.child_[WayDown(n, p)][p] = Nil
           /\ Between(A, pos, edge, n, p)
<1> DEFINE Next1(q) == t.child_[WayDown(n, q)][q]
           Stop == {q \in Nodes : Next1(q) = Nil}
           rank == [q \in Nodes |-> IF q \in A THEN Width(edge, q) ELSE 0]
           next == [q \in Nodes \ Stop |-> Next1(q)]
           val == [q \in Nodes |-> q]
           Goal(q) == /\ q \in A /\ WayDown(n, q) \in Sides /\ t.child_[WayDown(n, q)][q] = Nil
                      /\ Between(A, pos, edge, n, q)
<1>1. /\ A \subseteq Nodes /\ t \in Trees /\ K \in Nat /\ Nil \notin Nodes
      /\ pos \in [Nodes -> Int] /\ edge \in [Sides -> [Nodes -> Int]]
      /\ t.root_ \in A /\ edge["left"][t.root_] = 0 /\ edge["right"][t.root_] = K + 1
      /\ Key \in [Nodes -> Int]
  BY TreeAssumption DEF Shape, Placed, Top
<1>2. \A q : WayDown(n, q) \in Sides BY DEF WayDown, Sides
<1>3. \A q \in Nodes \ Stop : /\ q \in A /\ Next1(q) \in A /\ Next1(q) # Nil
                              /\ Width(edge, Next1(q)) < Width(edge, q)
  <2>1. SUFFICES ASSUME NEW q \in Nodes \ Stop
                 PROVE  /\ q \in A /\ Next1(q) \in A /\ Next1(q) # Nil
                        /\ Width(edge, Next1(q)) < Width(edge, q)
    OBVIOUS
  <2>2. Next1(q) # Nil OBVIOUS
  <2>3. q \in A BY <1>2, <2>2 DEF Tidy
  <2>4. QED BY <1>2, <2>2, <2>3, ChildFacts, Narrower
<1>4. /\ rank \in [Nodes -> 0..(K + 1)] /\ K + 1 \in Nat
      /\ next \in [Nodes \ Stop -> Nodes] /\ Stop \in SUBSET Nodes
  <2>1. \A q \in A : Width(edge, q) \in 0..(K + 1) BY <1>1, Narrower
  <2>2. QED BY <1>1, <1>3, <2>1
<1>5. \A d \in Nodes \ Stop : rank[next[d]] < rank[d] BY <1>1, <1>3
<1>6. \E f : Along(f, Nodes, Stop, val, next)
  <2> HIDE DEF rank, next, Stop, val
  <2>1. QED BY <1>4, <1>5, Walks
<1>7. \E f : f = [q \in Nodes |-> IF Next1(q) = Nil THEN q ELSE f[Next1(q)]]
  <2>1. PICK f : f = [q \in Nodes |-> IF q \in Stop THEN val[q] ELSE f[next[q]]]
    BY <1>6 DEF Along
  <2>2. f = [q \in Nodes |-> IF Next1(q) = Nil THEN q ELSE f[Next1(q)]]
    <3>1. ASSUME NEW q \in Nodes
          PROVE  (IF q \in Stop THEN val[q] ELSE f[next[q]])
                 = (IF Next1(q) = Nil THEN q ELSE f[Next1(q)])
      OBVIOUS
    <3> HIDE DEF Stop, next, val, Next1
    <3>2. QED BY <2>1, <3>1
  <2>3. QED BY <2>2
<1>8. PICK f : /\ f = [q \in Nodes |-> IF Next1(q) = Nil THEN q ELSE f[Next1(q)]]
               /\ p = f[t.root_]
  BY <1>7 DEF Leaf
<1> DEFINE B == {q \in A : Between(A, pos, edge, n, q) /\ ~Goal(f[q])}
<1>9. B = {}
  <2>1. SUFFICES ASSUME B # {} PROVE FALSE OBVIOUS
  <2>2. PICK q \in B : \A s \in Sides : t.child_[s][q] \notin B
    <3>1. B \in SUBSET A OBVIOUS
    <3> HIDE DEF B
    <3>2. QED BY <2>1, <3>1, Lowest
  <2>3. q \in A /\ q \in Nodes /\ Between(A, pos, edge, n, q) /\ ~Goal(f[q]) BY <1>1
  <2>4. Next1(q) # Nil
    <3>1. SUFFICES ASSUME Next1(q) = Nil PROVE FALSE OBVIOUS
    <3>2. f[q] = q BY <1>8, <2>3, <3>1
    <3>3. QED BY <1>2, <2>3, <3>1, <3>2
  <2> DEFINE c == Next1(q)
             s == WayDown(n, q)
  <2>5. f[q] = f[c] BY <1>8, <2>3, <2>4
  <2>6. c \in A /\ edge[s][c] = edge[s][q] /\ edge[Opposite(s)][c] = pos[q]
    BY <1>2, <2>3, <2>4, ChildFacts
  <2>7. c \notin B BY <1>2, <2>2
  <2>8. Between(A, pos, edge, n, c)
    <3> HIDE DEF c
    <3>1. SUFFICES ASSUME NEW x \in A
                   PROVE  /\ pos[x] <= edge["left"][c] => Key[x] <= Key[n]
                          /\ pos[x] >= edge["right"][c] => Key[n] < Key[x]
      BY DEF Between
    <3>2. /\ Key[x] \in Int /\ Key[q] \in Int /\ Key[n] \in Int
          /\ pos[x] \in Int /\ pos[q] \in Int
      BY <1>1, <2>3
    <3>3. /\ pos[x] <= pos[q] => Key[x] <= Key[q]
          /\ pos[x] >= pos[q] => Key[q] <= Key[x]
      BY <2>3, <3>2 DEF Sorted, Shape, Placed
    <3>4. CASE Key[n] < Key[q]
      <4>1. edge["left"][c] = edge["left"][q] /\ edge["right"][c] = pos[q]
        BY <2>6, <3>4 DEF WayDown, Opposite
      <4>2. QED BY <2>3, <3>2, <3>3, <3>4, <4>1 DEF Between
    <3>5. CASE ~(Key[n] < Key[q])
      <4>1. edge["right"][c] = edge["right"][q] /\ edge["left"][c] = pos[q]
        BY <2>6, <3>5 DEF WayDown, Opposite
      <4>2. QED BY <2>3, <3>2, <3>3, <3>5, <4>1 DEF Between
    <3>6. QED BY <3>4, <3>5
  <2>9. QED BY <2>3, <2>5, <2>6, <2>7, <2>8
<1>10. Between(A, pos, edge, n, t.root_)
  <2>1. \A x \in A : pos[x] \in Int /\ 0 < pos[x] /\ pos[x] < K + 1
    BY <1>1 DEF Shape, Placed, Sides
  <2>2. QED BY <1>1, <2>1 DEF Between
<1>11. Goal(f[t.root_]) BY <1>1, <1>9, <1>10
<1>12. QED BY <1>8, <1>11

Lift(q, i) == IF i >= q THEN i + 1 ELSE i

\* The positions and edges once n has got the position q.
PosWith(pos, n, q) == [m \in Nodes |-> IF m = n THEN q ELSE Lift(q, pos[m])]

EdgeWith(edge, n, q) ==
    [d \in Sides |-> [m \in Nodes |-> IF m # n THEN Lift(q, edge[d][m])
                                      ELSE IF d = "left" THEN q - 1 ELSE q + 1]]

\* The position of a leaf under the side s of p.
Slot(pos, p, s) == IF s = "left" THEN pos[p] ELSE pos[p] + 1

\* What linking a new leaf under the side s of p makes of the links.
Attached(t, u, n, p, s) ==
    /\ u \in Trees /\ u.root_ = t.root_
    /\ \A m \in Nodes, d \in Sides :
        u.child_[d][m] = IF m = p /\ d = s THEN n ELSE t.child_[d][m]
    /\ \A m \in Nodes : u.parent_[m] = IF m = n THEN p ELSE t.parent_[m]

\* A tree with a new leaf is a tree.
LEMMA AttachShape ==
    ASSUME NEW t, NEW A, NEW K, NEW pos, NEW edge, Shape(t, A, K, pos, edge),
           NEW n \in Nodes \ A, \A d \in Sides : t.child_[d][n] = Nil,
           NEW p \in A, NEW s \in Sides, t.child_[s][p] = Nil,
           NEW u, Attached(t, u, n, p, s), NEW q, q = Slot(pos, p, s)
    PROVE  Shape(u, A \cup {n}, K + 1, PosWith(pos, n, q), EdgeWith(edge, n, q))
<1> DEFINE B == A \cup {n}
           P == PosWith(pos, n, q)
           E == EdgeWith(edge, n, q)
           o == Opposite(s)
<1>1. /\ A \subseteq Nodes /\ t \in Trees /\ u \in Trees /\ K \in Nat /\ Nil \notin Nodes
      /\ p \in Nodes /\ n \in Nodes /\ n # p /\ n # Nil
      /\ pos \in [Nodes -> Int] /\ edge \in [Sides -> [Nodes -> Int]]
      /\ "left" \in Sides /\ "right" \in Sides /\ \A d \in Sides : d = "left" \/ d = "right"
  BY TreeAssumption DEF Shape, Placed, Attached, Sides
<1>2. /\ o \in Sides /\ o # s /\ Opposite(o) = s /\ \A d \in Sides : d = s \/ d = o
      /\ \A d \in Sides : Opposite(d) \in Sides
  BY DEF Sides, Opposite
<1>3. \A m \in A : /\ pos[m] \in Int /\ edge["left"][m] \in Int /\ edge["right"][m] \in Int
                   /\ 0 <= edge["left"][m] /\ edge["left"][m] < pos[m]
                   /\ pos[m] < edge["right"][m] /\ edge["right"][m] <= K + 1
  BY <1>1 DEF Shape, Placed
<1>4. q \in Int /\ 1 <= q /\ q <= K + 1 BY <1>1, <1>3 DEF Slot
<1>5. /\ P \in [Nodes -> Int] /\ E \in [Sides -> [Nodes -> Int]]
      /\ P[n] = q /\ E["left"][n] = q - 1 /\ E["right"][n] = q + 1
      /\ \A m \in A : /\ P[m] = Lift(q, pos[m])
                      /\ \A d \in Sides : E[d][m] = Lift(q, edge[d][m])
  BY <1>1, <1>4 DEF PosWith, EdgeWith, Lift
<1> HIDE DEF P, E
<1>5a. /\ \A i, j \in Int : Lift(q, i) = Lift(q, j) => i = j
       /\ \A i \in Int : i # q => Lift(q, i - 1) = Lift(q, i) - 1
       /\ \A i \in Int : i + 1 # q => Lift(q, i + 1) = Lift(q, i) + 1
  BY <1>4 DEF Lift
<1>6. \A m \in A : edge[o][m] # pos[p] BY <1>2, Bare
<1>7. /\ s = "left" => q = pos[p] /\ edge["left"][p] = q - 1
      /\ s = "right" => q = pos[p] + 1 /\ edge["right"][p] = q
  BY <1>1, <1>3 DEF Shape, Gapless, Slot
<1>8. /\ u.root_ = t.root_ /\ u.child_[s][p] = n
      /\ \A d \in Sides : u.child_[d][n] = Nil
      /\ \A m \in A, d \in Sides : m # p \/ d # s => u.child_[d][m] = t.child_[d][m]
      /\ u.parent_[n] = p /\ \A m \in A : u.parent_[m] = t.parent_[m]
  BY <1>1 DEF Attached
<1>9. \A m \in A, d \in Sides : t.child_[d][m] # Nil =>
          /\ t.child_[d][m] \in A /\ t.parent_[t.child_[d][m]] = m
          /\ edge[d][t.child_[d][m]] = edge[d][m]
          /\ edge[Opposite(d)][t.child_[d][m]] = pos[m]
  BY ChildFacts
<1>10. Placed(B, K + 1, P, E)
  <2>1. ASSUME NEW m \in B
        PROVE  /\ 0 <= E["left"][m] /\ E["left"][m] < P[m]
               /\ P[m] < E["right"][m] /\ E["right"][m] <= K + 1 + 1
    <3>1. CASE m = n BY <1>1, <1>4, <1>5, <3>1
    <3>2. CASE m \in A BY <1>1, <1>3, <1>4, <1>5, <3>2 DEF Lift
    <3>3. QED BY <3>1, <3>2
  <2>2. ASSUME NEW l \in B, NEW m \in B, P[l] = P[m] PROVE l = m
    <3>1. \A k \in A : P[k] # q BY <1>3, <1>4, <1>5 DEF Lift
    <3>2. l = n <=> m = n BY <1>5, <2>2, <3>1
    <3>3. ASSUME l \in A, m \in A PROVE l = m
      <4>1. pos[l] = pos[m] BY <1>3, <1>5, <1>5a, <2>2, <3>3
      <4>2. QED BY <3>3, <4>1 DEF Shape, Placed
    <3>4. QED BY <3>2, <3>3
  <2>3. QED BY <1>5, <2>1, <2>2 DEF Placed
<1>11. Downwards(u, B, P, E)
  <2>1. SUFFICES ASSUME NEW m \in B, NEW d \in Sides, u.child_[d][m] # Nil
                 PROVE  /\ u.child_[d][m] \in B /\ u.parent_[u.child_[d][m]] = m
                        /\ E[d][u.child_[d][m]] = E[d][m]
                        /\ E[Opposite(d)][u.child_[d][m]] = P[m]
    BY DEF Downwards
  <2>2. m \in A BY <1>8, <2>1
  <2>3. CASE m = p /\ d = s
    <3>1. CASE s = "left"
      <4>1. P[p] = q + 1 /\ E["left"][p] = q - 1 BY <1>3, <1>4, <1>5, <1>7, <3>1 DEF Lift
      <4>2. QED BY <1>5, <1>8, <2>3, <3>1, <4>1 DEF Opposite
    <3>2. CASE s = "right"
      <4>1. P[p] = q - 1 /\ E["right"][p] = q + 1 BY <1>3, <1>4, <1>5, <1>7, <3>2 DEF Lift
      <4>2. QED BY <1>5, <1>8, <2>3, <3>2, <4>1 DEF Opposite
    <3>3. QED BY <1>1, <3>1, <3>2
  <2>4. CASE m # p \/ d # s
    <3>1. u.child_[d][m] = t.child_[d][m] BY <1>8, <2>2, <2>4
    <3>2. /\ t.child_[d][m] \in A /\ t.parent_[t.child_[d][m]] = m
          /\ edge[d][t.child_[d][m]] = edge[d][m]
          /\ edge[Opposite(d)][t.child_[d][m]] = pos[m]
      BY <1>9, <2>1, <2>2, <3>1
    <3>3. QED BY <1>2, <1>5, <1>8, <2>2, <3>1, <3>2
  <2>5. QED BY <2>3, <2>4
<1>12. Gapless(u, B, P, E)
  <2>1. SUFFICES ASSUME NEW m \in A
                 PROVE  /\ u.child_["left"][m] = Nil => E["left"][m] = P[m] - 1
                        /\ u.child_["right"][m] = Nil => E["right"][m] = P[m] + 1
    BY <1>4, <1>5 DEF Gapless
  <2>2. ASSUME u.child_["left"][m] = Nil PROVE E["left"][m] = P[m] - 1
    <3>1. m # p \/ s # "left" BY <1>1, <1>8, <2>2
    <3>2. t.child_["left"][m] = Nil BY <1>1, <1>8, <2>2, <3>1
    <3>3. edge["left"][m] = pos[m] - 1 BY <3>2 DEF Shape, Gapless
    <3>4. pos[m] # q
      <4>1. CASE s = "left"
        <5>1. m # p BY <3>1, <4>1
        <5>2. QED BY <1>7, <4>1, <5>1 DEF Shape, Placed
      <4>2. CASE s = "right"
        <5>1. edge["left"][m] # pos[p] BY <1>6, <4>2 DEF Opposite
        <5>2. QED BY <1>3, <1>7, <3>3, <4>2, <5>1
      <4>3. QED BY <1>1, <4>1, <4>2
    <3>5. QED BY <1>1, <1>3, <1>5, <1>5a, <3>3, <3>4
  <2>3. ASSUME u.child_["right"][m] = Nil PROVE E["right"][m] = P[m] + 1
    <3>1. m # p \/ s # "right" BY <1>1, <1>8, <2>3
    <3>2. t.child_["right"][m] = Nil BY <1>1, <1>8, <2>3, <3>1
    <3>3. edge["right"][m] = pos[m] + 1 BY <3>2 DEF Shape, Gapless
    <3>4. pos[m] + 1 # q
      <4>1. CASE s = "right"
        <5>1. m # p BY <3>1, <4>1
        <5>2. QED BY <1>3, <1>7, <4>1, <5>1 DEF Shape, Placed
      <4>2. CASE s = "left"
        <5>1. edge["right"][m] # pos[p] BY <1>6, <4>2 DEF Opposite
        <5>2. QED BY <1>3, <1>7, <3>3, <4>2, <5>1
      <4>3. QED BY <1>1, <4>1, <4>2
    <3>5. QED BY <1>1, <1>3, <1>5, <1>5a, <3>3, <3>4
  <2>4. QED BY <2>2, <2>3
<1>13. Upwards(u, B)
  <2>1. SUFFICES ASSUME NEW m \in A, m # t.root_
                 PROVE  /\ u.parent_[m] \in A
                        /\ \E d \in Sides : u.child_[d][u.parent_[m]] = m
    BY <1>8 DEF Upwards
  <2>2. t.parent_[m] \in A /\ \E d \in Sides : t.child_[d][t.parent_[m]] = m
    BY <2>1 DEF Shape, Upwards
  <2>3. m # Nil BY <1>1
  <2>4. QED BY <1>8, <2>2, <2>3
<1>14. Top(u, B, K + 1, E)
  <2>1. /\ t.root_ \in A /\ t.parent_[t.root_] = Nil
        /\ edge["left"][t.root_] = 0 /\ edge["right"][t.root_] = K + 1
    BY DEF Shape, Top
  <2>2. E["left"][t.root_] = 0 /\ E["right"][t.root_] = K + 1 + 1
    BY <1>1, <1>4, <1>5, <2>1 DEF Lift
  <2>3. QED BY <1>8, <2>1, <2>2 DEF Top
<1>15. QED BY <1>1, <1>10, <1>11, <1>12, <1>13, <1>14 DEF Shape, P, E

------------------------------------------------------------------------------
(* Insert: the rebalancing loop *)

\* Painting and turning touch nothing outside the tree.
LEMMA PaintTidy ==
    ASSUME NEW t \in Trees, NEW B \in SUBSET Nodes, Tidy(t, B), NEW n \in B, NEW c \in Colors
    PROVE  Tidy(Paint(t, n, c), B)
<1> DEFINE u == Paint(t, n, c)
<1>1. /\ u.child_ = t.child_ /\ u.parent_ = t.parent_
      /\ \A m \in Nodes : u.color_[m] = IF m = n THEN c ELSE t.color_[m]
  BY PaintFields
<1> HIDE DEF u
<1>2. Tidy(u, B) BY <1>1 DEF Tidy
<1>3. QED BY <1>2 DEF u

\* A turn touches no node that is not in the tree.
LEMMA RotateTidy ==
    ASSUME NEW t, NEW A, NEW K, NEW pos, NEW edge, Shape(t, A, K, pos, edge),
           NEW n \in A, NEW s \in Sides, NEW o \in Sides, o # s, t.child_[o][n] # Nil,
           NEW B \in SUBSET Nodes, A \subseteq B, Tidy(t, B)
    PROVE  Tidy(Rotate(t, n, s), B)
<1> DEFINE up == t.child_[o][n]
           inner == t.child_[s][up]
           r == Rotate(t, n, s)
<1>1. o = Opposite(s) BY DEF Sides, Opposite
<1>2. t \in Trees /\ Nil \notin Nodes BY TreeAssumption DEF Shape
<1>3. up \in A /\ up # n /\ up \in Nodes BY ChildFacts
<1>4. inner = Nil \/ inner \in A BY <1>3, ChildFacts
<1>5. t.parent_[n] # n /\ (t.parent_[n] = Nil \/ t.parent_[n] \in A)
  BY <1>2, ParentFacts
<1>6. /\ r.color_ = t.color_
      /\ \A m \in Nodes : r.parent_[m] = IF m = up THEN t.parent_[n]
                                         ELSE IF m = n THEN up
                                         ELSE IF m = inner THEN n ELSE t.parent_[m]
      /\ \A m \in Nodes, d \in Sides :
           r.child_[d][m] = IF m = up /\ d = s THEN n
                            ELSE IF m = n /\ d = o THEN inner
                            ELSE IF m = t.parent_[n] /\ d = Side(t, n) THEN up
                            ELSE t.child_[d][m]
  BY <1>1, <1>2, <1>3, <1>5, RotateFields
<1> HIDE DEF r, up, inner
<1>7. Tidy(r, B) BY <1>2, <1>3, <1>4, <1>5, <1>6 DEF Tidy
<1>8. QED BY <1>7 DEF r

\* A step of the loop touches nothing outside the tree.
LEMMA RecoloredTidy ==
    ASSUME NEW t, NEW A, NEW K, NEW pos, NEW edge, Shape(t, A, K, pos, edge),
           NEW n \in A, n # t.root_, NoTwoRed(t, A, n), t.color_[n] = "red",
           IsRed(t, t.parent_[n]), IsRed(t, GetBrother(t, t.parent_[n])),
           NEW B \in SUBSET Nodes, A \subseteq B, Tidy(t, B)
    PROVE  Tidy(Recolored(t, n)[1], B)
<1> DEFINE p == t.parent_[n]
           g == t.parent_[p]
           c == GetBrother(t, p)
           v == Paint(t, p, "black")
           w == Paint(v, c, "black")
           x == Paint(w, g, "red")
<1>1. t.color_[p] = "red" /\ c # Nil BY DEF IsRed
<1>2. p \in A /\ g \in A /\ Side(t, p) \in Sides /\ c = t.child_[Opposite(Side(t, p))][g]
  BY <1>1, RedPair
<1>3. c \in A
  <2>1. Opposite(Side(t, p)) \in Sides BY DEF Opposite, Sides
  <2>2. QED BY <1>1, <1>2, <2>1, ChildFacts
<1>4. t \in Trees /\ p \in B /\ g \in B /\ c \in B /\ "black" \in Colors /\ "red" \in Colors
  BY <1>2, <1>3 DEF Shape, Colors
<1>5. Recolored(t, n)[1] = IF t.parent_[g] = Nil THEN w ELSE x BY DEF Recolored
<1> HIDE DEF p, g, c
<1>6. v \in Trees /\ Tidy(v, B) BY <1>4, PaintFields, PaintTidy
<1> HIDE DEF v
<1>7. w \in Trees /\ Tidy(w, B) BY <1>4, <1>6, PaintFields, PaintTidy
<1> HIDE DEF w
<1>8. Tidy(x, B) BY <1>4, <1>7, PaintTidy
<1>9. QED BY <1>5, <1>7, <1>8

\* Nor does the turn of Insert.
LEMMA TurnedTidy ==
    ASSUME NEW t, NEW A, NEW K, NEW pos, NEW edge, Shape(t, A, K, pos, edge),
           NEW n \in A, n # t.root_, NoTwoRed(t, A, n), t.color_[n] = "red",
           IsRed(t, t.parent_[n]),
           NEW B \in SUBSET Nodes, A \subseteq B, Tidy(t, B)
    PROVE  Tidy(Turned(t, n), B)
<1> DEFINE p == t.parent_[n]
           g == t.parent_[p]
           s == Side(t, p)
           o == Opposite(s)
           r == IF Side(t, n) = s THEN Rotate(t, g, o) ELSE Rotate(Rotate(t, p, s), g, o)
           x == IF Side(t, n) = s THEN p ELSE n
           v == Paint(r, x, "black")
<1>1. t.color_[p] = "red" BY DEF IsRed
<1>2. /\ p \in A /\ g \in A /\ s \in Sides /\ Side(t, n) \in Sides /\ g # p
      /\ t.child_[Side(t, n)][p] = n /\ t.child_[s][g] = p
  BY <1>1, RedPair
<1>3. o \in Sides /\ o # s /\ (\A d \in Sides : d = s \/ d = o) /\ p # Nil /\ n # Nil
  BY <1>2, TreeAssumption DEF Sides, Opposite, Shape
<1>4. Turned(t, n) = Paint(v, g, "red") BY DEF Turned
<1>5. p \in B /\ g \in B /\ x \in B /\ "black" \in Colors /\ "red" \in Colors
  BY <1>2 DEF Colors
<1> HIDE DEF p, g, s, o, x
<1>6. r \in Trees /\ Tidy(r, B)
  <2>1. CASE Side(t, n) = s
    <3>1. Shape(Rotate(t, g, o), A, K, pos, RotatedEdge(t, g, o, pos, edge))
      BY <1>2, <1>3, RotateLinks
    <3>2. QED BY <1>2, <1>3, <2>1, <3>1, RotateTidy DEF Shape
  <2>2. CASE Side(t, n) # s
    <3> DEFINE q == Rotate(t, p, s)
               e == RotatedEdge(t, p, s, pos, edge)
    <3>1. t.child_[o][p] = n BY <1>2, <1>3, <2>2
    <3>2. /\ Shape(q, A, K, pos, e)
          /\ Rotation(t, q, A, p, n, s, o)
          /\ Tidy(q, B)
      BY <1>2, <1>3, <3>1, RotateLinks, RotateTidy
    <3>3. q.child_[s][g] = n BY <1>2, <1>3, <3>2 DEF Rotation
    <3> HIDE DEF q, e
    <3>4. Shape(Rotate(q, g, o), A, K, pos, RotatedEdge(q, g, o, pos, e))
      BY <1>2, <1>3, <3>2, <3>3, RotateLinks
    <3>5. Tidy(Rotate(q, g, o), B) BY <1>2, <1>3, <3>2, <3>3, RotateTidy
    <3>6. QED BY <2>2, <3>4, <3>5 DEF Shape, q
  <2>3. QED BY <2>1, <2>2
<1> HIDE DEF r
<1>7. v \in Trees /\ Tidy(v, B) BY <1>5, <1>6, PaintFields, PaintTidy
<1> HIDE DEF v
<1>8. QED BY <1>4, <1>5, <1>7, PaintTidy

\* What the loop is given and gives on: while it is at a node, this is red, not
\* the root, and all that may be wrong is that its parent is red as well.
Adjusting(t, A, K, pos, edge, u, m) ==
    /\ u \in Trees /\ SameFrame(t, u) /\ Tidy(u, A)
    /\ IF m = Nil THEN Balance(u, A, K, pos, Nil)
       ELSE /\ m \in A /\ m # u.root_ /\ u.color_[m] = "red"
            /\ Shape(u, A, K, pos, edge) /\ NoTwoRed(u, A, m)
            /\ \E h : Even(u, A, h, Nil, Nil)

\* A round of the loop: it stops with a tree in balance, or goes up to the grandparent.
LEMMA AdjustRoundKeeps ==
    ASSUME NEW t, NEW A, NEW K, NEW pos, NEW edge, NEW u, NEW m,
           Adjusting(t, A, K, pos, edge, u, m),
           NEW v, NEW k, AdjustRound(<<u, m>>) = <<v, k>>
    PROVE  /\ Adjusting(t, A, K, pos, edge, v, k)
           /\ m = Nil => v = u /\ k = Nil
           /\ k # Nil => Width(edge, m) < Width(edge, k)
<1>0. <<u, m>>[1] = u /\ <<u, m>>[2] = m OBVIOUS
<1>1. CASE m = Nil
  <2>1. AdjustRound(<<u, m>>) = <<u, m>> BY <1>1 DEF AdjustRound
  <2>2. v = u /\ k = m BY <2>1
  <2>3. QED BY <1>1, <2>2
<1>2. CASE m # Nil
  <2>1. /\ u \in Trees /\ SameFrame(t, u) /\ Tidy(u, A)
        /\ m \in A /\ m # u.root_ /\ u.color_[m] = "red"
        /\ Shape(u, A, K, pos, edge) /\ NoTwoRed(u, A, m)
    BY <1>2 DEF Adjusting
  <2>2. PICK h : Even(u, A, h, Nil, Nil) BY <1>2 DEF Adjusting
  <2>3. A \in SUBSET Nodes BY <2>1 DEF Shape
  <2>4. u.parent_[m] \in A BY <2>1, ParentFacts
  <2>5. CASE ~IsRed(u, u.parent_[m])
    <3>1. AdjustRound(<<u, m>>) = <<u, Nil>> BY <1>2, <2>5 DEF AdjustRound
    <3>2. v = u /\ k = Nil BY <3>1
    <3>3. NoTwoRed(u, A, Nil)
      <4>1. SUFFICES ASSUME NEW n \in A, NEW s \in Sides, u.color_[n] = "red"
                     PROVE  u.child_[s][n] \in {Nil, Nil} \/ u.color_[u.child_[s][n]] = "black"
        BY <2>1 DEF NoTwoRed
      <4>2. n # Nil BY <2>3, TreeAssumption
      <4>3. u.child_[s][n] = m => u.parent_[m] = n BY <1>2, <2>1, ChildFacts
      <4>4. u.child_[s][n] # m BY <2>5, <4>1, <4>2, <4>3 DEF IsRed
      <4>5. QED BY <2>1, <4>1, <4>4 DEF NoTwoRed
    <3>4. Balance(u, A, K, pos, Nil) BY <2>1, <2>2, <3>3 DEF Balance
    <3>5. QED BY <1>2, <2>1, <3>2, <3>4 DEF Adjusting
  <2>6. CASE IsRed(u, u.parent_[m]) /\ IsRed(u, GetBrother(u, u.parent_[m]))
    <3>1. AdjustRound(<<u, m>>) = Recolored(u, m) BY <1>2, <2>6 DEF AdjustRound
    <3>2. Recolored(u, m)[1] = v /\ Recolored(u, m)[2] = k BY <3>1
    <3>3. /\ SameFrame(u, v) /\ Shape(v, A, K, pos, edge)
          /\ \E f : Even(v, A, f, Nil, Nil)
          /\ NoTwoRed(v, A, k)
          /\ k # Nil => /\ k \in A /\ k # v.root_ /\ v.color_[k] = "red"
                        /\ k = u.parent_[u.parent_[m]]
      BY <2>1, <2>2, <2>6, <3>2, RecoloredKeeps
    <3>4. Tidy(v, A) BY <2>1, <2>3, <2>6, <3>2, RecoloredTidy
    <3>5. SameFrame(t, v) /\ v \in Trees BY <2>1, <3>3 DEF SameFrame, Shape
    <3>6. k = Nil => Balance(v, A, K, pos, Nil) BY <3>3 DEF Balance
    <3>7. Adjusting(t, A, K, pos, edge, v, k) BY <3>3, <3>4, <3>5, <3>6 DEF Adjusting
    <3>8. k # Nil => Width(edge, m) < Width(edge, k)
      <4>1. SUFFICES ASSUME k # Nil PROVE Width(edge, m) < Width(edge, k) OBVIOUS
      <4>2. k \in A /\ k = u.parent_[u.parent_[m]] BY <3>3, <4>1
      <4>3. Width(edge, m) < Width(edge, u.parent_[m]) BY <2>1, Narrower
      <4>4. Width(edge, u.parent_[m]) < Width(edge, k) BY <2>1, <2>4, <4>1, <4>2, Narrower
      <4>5. /\ Width(edge, m) \in 2..(K + 1) /\ Width(edge, u.parent_[m]) \in 2..(K + 1)
            /\ Width(edge, k) \in 2..(K + 1) /\ K \in Nat
        BY <2>1, <2>4, <4>2, Narrower DEF Shape
      <4>6. QED BY <4>3, <4>4, <4>5
    <3>9. QED BY <1>2, <3>7, <3>8
  <2>7. CASE IsRed(u, u.parent_[m]) /\ ~IsRed(u, GetBrother(u, u.parent_[m]))
    <3>1. AdjustRound(<<u, m>>) = <<Turned(u, m), Nil>> BY <1>2, <2>7 DEF AdjustRound
    <3>2. v = Turned(u, m) /\ k = Nil BY <3>1
    <3>3. SameFrame(u, v) /\ Balance(v, A, K, pos, Nil)
      BY <2>1, <2>2, <2>7, <3>2, TurnedKeeps
    <3>4. Tidy(v, A) BY <2>1, <2>3, <2>7, <3>2, TurnedTidy
    <3>5. SameFrame(t, v) /\ v \in Trees BY <2>1, <3>3 DEF SameFrame, Balance, Shape
    <3>6. QED BY <1>2, <3>2, <3>3, <3>4, <3>5 DEF Adjusting
  <2>8. QED BY <2>5, <2>6, <2>7
<1>3. QED BY <1>1, <1>2

\* A round of Insert's loop leaves a tree and a node.
LEMMA AdjustRoundPair ==
    ASSUME NEW u, NEW m PROVE \E v, k : AdjustRound(<<u, m>>) = <<v, k>>
<1>1. <<u, m>>[1] = u /\ <<u, m>>[2] = m OBVIOUS
<1>2. \E v, k : Recolored(u, m) = <<v, k>> BY DEF Recolored
<1>3. QED BY <1>1, <1>2 DEF AdjustRound

\* The loop ends, with a tree in balance.
LEMMA AdjustKeeps ==
    ASSUME NEW t, NEW A, NEW K, NEW pos, NEW edge, NEW n,
           Adjusting(t, A, K, pos, edge, t, n), n # Nil, K <= Cardinality(Nodes)
    PROVE  Adjusting(t, A, K, pos, edge, AdjustAfterInsert(t, n), Nil)
<1> DEFINE N == Cardinality(Nodes)
           S == {l \in Trees \X NodesOrNil : Adjusting(t, A, K, pos, edge, l[1], l[2])}
           Done == {l \in S : l[2] = Nil}
           f == [l \in S |-> AdjustRound(l)]
           rank == [l \in S |-> IF l[2] = Nil THEN 0 ELSE K + 1 - Width(edge, l[2])]
           s0 == <<t, n>>
<1>0. N \in Nat BY FS_CardinalityType, TreeAssumption
<1>1. /\ Shape(t, A, K, pos, edge) /\ n \in A /\ A \subseteq Nodes /\ K \in Nat /\ Nil \notin Nodes
  BY TreeAssumption DEF Adjusting, Shape
<1>2. s0 \in S
  <2>1. t \in Trees /\ n \in NodesOrNil BY <1>1 DEF Shape, NodesOrNil
  <2>2. QED BY <2>1
<1>3. ASSUME NEW l \in S
      PROVE  /\ AdjustRound(l) \in S
             /\ l[2] = Nil => AdjustRound(l)[2] = Nil
             /\ AdjustRound(l)[2] # Nil => Width(edge, l[2]) < Width(edge, AdjustRound(l)[2])
  <2>1. PICK u, m : l = <<u, m>> /\ Adjusting(t, A, K, pos, edge, u, m) OBVIOUS
  <2>2. PICK v, k : AdjustRound(l) = <<v, k>> BY <2>1, AdjustRoundPair
  <2>3. /\ Adjusting(t, A, K, pos, edge, v, k)
        /\ m = Nil => v = u /\ k = Nil
        /\ k # Nil => Width(edge, m) < Width(edge, k)
    BY <2>1, <2>2, AdjustRoundKeeps
  <2>4. v \in Trees /\ k \in NodesOrNil BY <1>1, <2>3 DEF Adjusting, NodesOrNil
  <2>5. QED BY <2>1, <2>2, <2>3, <2>4
<1>4. \A l \in S : l[2] # Nil => Width(edge, l[2]) \in 2..(K + 1)
  <2>1. SUFFICES ASSUME NEW l \in S, l[2] # Nil PROVE Width(edge, l[2]) \in 2..(K + 1) OBVIOUS
  <2>2. Shape(l[1], A, K, pos, edge) /\ l[2] \in A BY <2>1 DEF Adjusting
  <2>3. QED BY <2>2, Narrower
<1>5. f \in [S -> S] /\ Done \in SUBSET S BY <1>3
<1>6. rank \in [S -> Nat] BY <1>1, <1>4
<1>7. \A l \in Done : f[l] \in Done BY <1>3
<1>8. \A l \in S \ Done : f[l] \in Done \/ rank[f[l]] < rank[l]
  <2>1. SUFFICES ASSUME NEW l \in S \ Done, f[l] \notin Done PROVE rank[f[l]] < rank[l] OBVIOUS
  <2>2. f[l] = AdjustRound(l) /\ f[l] \in S BY <1>3
  <2>3. l[2] # Nil /\ f[l][2] # Nil BY <2>1, <2>2
  <2>4. Width(edge, l[2]) < Width(edge, f[l][2]) BY <1>3, <2>2, <2>3
  <2>5. QED BY <1>1, <1>4, <2>2, <2>3, <2>4
<1>9. rank[s0] < N BY <1>0, <1>1, <1>2, <1>4
<1>10. PICK g : Run(g, N, S, f, s0) /\ g[N] \in Done
  <2> HIDE DEF S, f, rank, s0, Done, N
  <2>1. QED BY <1>0, <1>2, <1>5, <1>6, <1>7, <1>8, <1>9, Loops
<1>11. /\ g \in [0..N -> S] /\ g[0] = s0
       /\ \A i \in 1..N : g[i] = AdjustRound(g[i - 1])
  <2>1. /\ g \in [0..N -> S] /\ g[0] = s0
        /\ \A i \in 1..N : g[i] = f[g[i - 1]]
    BY <1>10 DEF Run
  <2>2. \A i \in 1..N : g[i - 1] \in S BY <1>0, <2>1
  <2>3. QED BY <2>1, <2>2
<1>12. g = [i \in 0..N |-> IF i = 0 THEN s0 ELSE AdjustRound(g[i - 1])]
  <2> HIDE DEF S, f, s0, N
  <2>1. QED BY <1>0, <1>11
<1>13. PICK F : /\ F = [i \in 0..N |-> IF i = 0 THEN s0 ELSE AdjustRound(F[i - 1])]
                /\ Rounds(AdjustRound, s0) = F[N]
  <2> HIDE DEF S, f, s0
  <2>1. QED BY <1>12 DEF Rounds
<1>14. F[N] = g[N]
  <2> HIDE DEF S, f, s0, N
  <2>1. F[0] = g[0] BY <1>0, <1>11, <1>13
  <2>2. \A i \in 0..N : i < N /\ F[i] = g[i] => F[i + 1] = g[i + 1]
    <3>1. SUFFICES ASSUME NEW i \in 0..N, i < N, F[i] = g[i] PROVE F[i + 1] = g[i + 1] OBVIOUS
    <3>2. i + 1 \in 0..N /\ i + 1 # 0 /\ (i + 1) - 1 = i BY <1>0, <3>1
    <3>3. QED BY <1>12, <1>13, <3>1, <3>2
  <2>3. \A i \in 0..N : F[i] = g[i] BY <1>0, <2>1, <2>2, SameRun
  <2>4. N \in 0..N BY <1>0
  <2>5. QED BY <2>3, <2>4
<1>15. AdjustAfterInsert(t, n) = g[N][1] BY <1>13, <1>14 DEF AdjustAfterInsert
<1>16. QED BY <1>10, <1>15

------------------------------------------------------------------------------
(* Insert *)

\* The place of a new node: behind all nodes of its key and of lower ones.
Behind(A, pos, n, q) == \A x \in A : pos[x] < q <=> Key[x] <= Key[n]

\* A tree with a node more still has no more nodes than there are.
LEMMA OneMore ==
    ASSUME NEW A \in SUBSET Nodes, NEW n \in Nodes \ A
    PROVE  /\ Cardinality(A \cup {n}) = Cardinality(A) + 1
           /\ Cardinality(A) \in Nat /\ Cardinality(A) + 1 <= Cardinality(Nodes)
           /\ Cardinality(Nodes) \in Nat
<1>1. IsFiniteSet(A) /\ IsFiniteSet(Nodes) /\ Cardinality(A) \in Nat /\ Cardinality(Nodes) \in Nat
  BY TreeAssumption, FS_Subset, FS_CardinalityType
<1>2. Cardinality(A \cup {n}) = Cardinality(A) + 1 BY <1>1, FS_AddElement
<1>3. Cardinality(A \cup {n}) <= Cardinality(Nodes)
  <2>1. A \cup {n} \subseteq Nodes OBVIOUS
  <2>2. QED BY <1>1, <2>1, FS_Subset
<1>4. QED BY <1>1, <1>2, <1>3

\* The first node of a tree becomes its root and both its ends.
LEMMA InsertFirst ==
    ASSUME NEW t, NEW K, NEW pos, Whole(t, K, pos), t.root_ = Nil, NEW n \in Nodes
    PROVE  LET u == Inserted(t, n)
           IN  t.alive = {} /\ u.alive = {n} /\ Whole(u, 1, PosWith(pos, n, 1))
<1> DEFINE u == Inserted(t, n)
           P == PosWith(pos, n, 1)
<1>1. PICK edge : Shape(t, t.alive, K, pos, edge) BY DEF Whole, Balance
<1>2. t \in Trees /\ n # Nil /\ Nil \notin Nodes BY <1>1, TreeAssumption DEF Shape
<1>3. t.alive = {} BY <1>1, <1>2 DEF Shape, Top
<1>4. (\A s \in Sides : t.child_[s][n] = Nil) /\ t.parent_[n] = Nil /\ t.color_[n] = "black"
  BY <1>3 DEF Whole, Tidy
<1>5. t.size_ = 0 BY <1>3, FS_EmptySet DEF Whole
<1>6. u = [t EXCEPT !.root_ = n, !.min_ = n, !.max_ = n, !.size_ = t.size_ + 1,
                    !.alive = t.alive \cup {n}]
  BY DEF Inserted
<1>7. /\ u.root_ = n /\ u.min_ = n /\ u.max_ = n /\ u.size_ = 1 /\ u.alive = {n}
      /\ u.child_ = t.child_ /\ u.parent_ = t.parent_ /\ u.color_ = t.color_
  BY <1>2, <1>3, <1>5, <1>6 DEF Trees
<1>8. u \in Trees
  <2>1. n \in NodesOrNil /\ t.size_ + 1 \in Int /\ t.alive \cup {n} \in SUBSET Nodes
    BY <1>3, <1>5 DEF NodesOrNil
  <2>2. QED BY <1>2, <1>6, <2>1 DEF Trees
<1> HIDE DEF u
<1> DEFINE E == EdgeWith(edge, n, 1)
<1>9. /\ pos \in [Nodes -> Int] /\ edge \in [Sides -> [Nodes -> Int]]
      /\ "left" \in Sides /\ "right" \in Sides
  BY <1>1 DEF Shape, Placed, Sides
<1>10. /\ P \in [Nodes -> Int] /\ E \in [Sides -> [Nodes -> Int]]
       /\ P[n] = 1 /\ E["left"][n] = 0 /\ E["right"][n] = 2
  BY <1>9 DEF PosWith, EdgeWith, Lift
<1> HIDE DEF P, E
<1>11. Shape(u, {n}, 1, P, E)
  <2>1. Placed({n}, 1, P, E) BY <1>10 DEF Placed
  <2>2. Downwards(u, {n}, P, E) BY <1>4, <1>7 DEF Downwards
  <2>3. Gapless(u, {n}, P, E) BY <1>10 DEF Gapless
  <2>4. Upwards(u, {n}) BY <1>7 DEF Upwards
  <2>5. Top(u, {n}, 1, E) BY <1>4, <1>7, <1>10 DEF Top
  <2>6. QED BY <1>8, <2>1, <2>2, <2>3, <2>4, <2>5 DEF Shape
<1>12. Even(u, {n}, [m \in Nodes |-> 1], Nil, Nil) BY <1>4, <1>7 DEF Even
<1>13. NoTwoRed(u, {n}, Nil) BY <1>4, <1>7 DEF NoTwoRed
<1>14. Balance(u, {n}, 1, P, Nil) BY <1>11, <1>12, <1>13 DEF Balance
<1>15. Tidy(u, {n}) BY <1>3, <1>7 DEF Whole, Tidy
<1>16. Sorted({n}, P) BY <1>10 DEF Sorted
<1>17. Ends(u, {n}, 1, P) BY <1>7, <1>10 DEF Ends
<1>18. Cardinality({n}) = 1 BY FS_Singleton
<1>19. QED BY <1>3, <1>7, <1>14, <1>15, <1>16, <1>17, <1>18 DEF Whole, u, P

\* The tree with a new red leaf, before it is put in balance.
Linked(t, n) ==
    LET p == Leaf(t, n)
        s == WayDown(n, p)
    IN  [t EXCEPT !.child_[s][p] = n, !.parent_[n] = p, !.color_[n] = "red",
                  !.min_ = IF s = "left" /\ @ = p THEN n ELSE @,
                  !.max_ = IF s = "right" /\ @ = p THEN n ELSE @,
                  !.alive = @ \cup {n}]

\* What Insert has written before it adjusts the colours.
LEMMA LinkedFields ==
    ASSUME NEW t \in Trees, NEW n \in Nodes, NEW p \in Nodes, p = Leaf(t, n),
           NEW s \in Sides, s = WayDown(n, p)
    PROVE  LET u == Linked(t, n)
           IN  /\ Attached(t, u, n, p, s)
               /\ u.size_ = t.size_ /\ u.alive = t.alive \cup {n}
               /\ u.min_ = IF s = "left" /\ t.min_ = p THEN n ELSE t.min_
               /\ u.max_ = IF s = "right" /\ t.max_ = p THEN n ELSE t.max_
               /\ \A m \in Nodes : u.color_[m] = IF m = n THEN "red" ELSE t.color_[m]
<1> DEFINE u == Linked(t, n)
           mi == IF s = "left" /\ t.min_ = p THEN n ELSE t.min_
           ma == IF s = "right" /\ t.max_ = p THEN n ELSE t.max_
<1>1. u = [t EXCEPT !.child_[s][p] = n, !.parent_[n] = p, !.color_[n] = "red",
                    !.min_ = mi, !.max_ = ma, !.alive = t.alive \cup {n}]
  BY DEF Linked
<1>2. mi \in NodesOrNil /\ ma \in NodesOrNil BY DEF Trees, NodesOrNil
<1> HIDE DEF u, mi, ma
<1>3. /\ u.root_ = t.root_ /\ u.size_ = t.size_ /\ u.alive = t.alive \cup {n}
      /\ u.min_ = mi /\ u.max_ = ma
      /\ u.child_ = [t.child_ EXCEPT ![s][p] = n]
      /\ u.parent_ = [t.parent_ EXCEPT ![n] = p]
      /\ u.color_ = [t.color_ EXCEPT ![n] = "red"]
  BY <1>1 DEF Trees
<1>4. u \in Trees
  BY <1>1, <1>2 DEF Trees, NodesOrNil, Colors
<1>5. Attached(t, u, n, p, s) BY <1>3, <1>4 DEF Attached, Trees
<1>6. \A m \in Nodes : u.color_[m] = IF m = n THEN "red" ELSE t.color_[m]
  BY <1>3 DEF Trees
<1>7. QED BY <1>3, <1>5, <1>6 DEF u, mi, ma

\* With the new leaf, the tree is as it should be but for a red leaf that may be
\* under a red node.
LEMMA LinkedKeeps ==
    ASSUME NEW t, NEW K, NEW pos, Whole(t, K, pos), t.root_ # Nil,
           NEW n \in Nodes \ t.alive
    PROVE  \E q \in 1..(K + 1) : \E edge :
               LET u == Linked(t, n)
                   A == t.alive \cup {n}
                   P == PosWith(pos, n, q)
               IN  /\ u.alive = A /\ u.size_ = K /\ Behind(t.alive, pos, n, q)
                   /\ Adjusting(u, A, K + 1, P, edge, u, n)
                   /\ Sorted(A, P) /\ Ends(u, A, K + 1, P)
<1> DEFINE u == Linked(t, n)
           A == t.alive
           B == A \cup {n}
           p == Leaf(t, n)
           s == WayDown(n, p)
           q == Slot(pos, p, s)
           P == PosWith(pos, n, q)
<1>1. PICK edge, h : Shape(t, A, K, pos, edge) /\ Even(t, A, h, Nil, Nil) /\ NoTwoRed(t, A, Nil)
  BY DEF Whole, Balance
<1>2. /\ t \in Trees /\ A \subseteq Nodes /\ K \in Nat /\ Nil \notin Nodes /\ n # Nil
      /\ pos \in [Nodes -> Int] /\ edge \in [Sides -> [Nodes -> Int]]
      /\ Key \in [Nodes -> Int] /\ h \in [Nodes -> Nat]
      /\ "left" \in Sides /\ "right" \in Sides /\ (\A d \in Sides : d = "left" \/ d = "right")
  BY <1>1, TreeAssumption DEF Shape, Placed, Sides, Even
<1>3. A # {} BY <1>1 DEF Shape, Top
<1>4. /\ p \in A /\ s \in Sides /\ t.child_[s][p] = Nil
      /\ Between(A, pos, edge, n, p)
  BY <1>1, <1>3, LeafFacts DEF Whole
<1>5. /\ Attached(t, u, n, p, s)
      /\ u.size_ = t.size_ /\ u.alive = B
      /\ u.min_ = IF s = "left" /\ t.min_ = p THEN n ELSE t.min_
      /\ u.max_ = IF s = "right" /\ t.max_ = p THEN n ELSE t.max_
      /\ \A m \in Nodes : u.color_[m] = IF m = n THEN "red" ELSE t.color_[m]
  BY <1>2, <1>4, LinkedFields
<1>6. s = WayDown(n, p) OBVIOUS
<1> HIDE DEF u, p, s
<1>7. (\A d \in Sides : t.child_[d][n] = Nil) /\ n \notin A /\ n # p
  BY <1>4 DEF Whole, Tidy
<1> DEFINE E == EdgeWith(edge, n, q)
<1>8. Shape(u, B, K + 1, P, E)
  <2> HIDE DEF q, E, P
  <2>1. q = Slot(pos, p, s) BY DEF q
  <2>2. QED BY <1>1, <1>4, <1>5, <1>7, <2>1, AttachShape DEF E, P
<1>9. \A m \in A : /\ pos[m] \in Int /\ edge["left"][m] \in Int /\ edge["right"][m] \in Int
                   /\ 0 <= edge["left"][m] /\ edge["left"][m] < pos[m]
                   /\ pos[m] < edge["right"][m] /\ edge["right"][m] <= K + 1
  BY <1>1, <1>2 DEF Shape, Placed
<1>10. /\ q \in 1..(K + 1)
       /\ s = "left" => q = pos[p] /\ edge["left"][p] = q - 1
       /\ s = "right" => q = pos[p] + 1 /\ edge["right"][p] = q
  BY <1>1, <1>2, <1>4, <1>9 DEF Shape, Gapless, Slot
<1>11. P[n] = q /\ \A m \in A : P[m] = Lift(q, pos[m])
  BY <1>2, <1>7 DEF PosWith
<1> HIDE DEF q, P, E
<1>12. Behind(A, pos, n, q)
  <2>1. SUFFICES ASSUME NEW x \in A PROVE pos[x] < q <=> Key[x] <= Key[n] BY DEF Behind
  <2>2. Key[x] \in Int /\ Key[p] \in Int /\ Key[n] \in Int BY <1>2, <1>4
  <2>3. /\ pos[x] <= edge["left"][p] => Key[x] <= Key[n]
        /\ pos[x] >= edge["right"][p] => Key[n] < Key[x]
    BY <1>4 DEF Between
  <2>4. /\ pos[x] <= pos[p] => Key[x] <= Key[p]
        /\ pos[x] >= pos[p] => Key[p] <= Key[x]
    <3>1. pos[x] = pos[p] => x = p BY <1>1, <1>4 DEF Shape, Placed
    <3>2. QED BY <1>4, <1>9, <2>2, <3>1 DEF Whole, Sorted
  <2>5. CASE s = "left"
    <3>1. Key[n] < Key[p] BY <1>6, <2>5 DEF WayDown
    <3>2. QED BY <1>4, <1>9, <1>10, <2>2, <2>3, <2>4, <2>5, <3>1
  <2>6. CASE s = "right"
    <3>1. ~(Key[n] < Key[p]) BY <1>6, <2>6 DEF WayDown
    <3>2. QED BY <1>4, <1>9, <1>10, <2>2, <2>3, <2>4, <2>6, <3>1
  <2>7. QED BY <1>2, <1>4, <2>5, <2>6
<1>13. Sorted(B, P)
  <2>1. SUFFICES ASSUME NEW l \in B, NEW m \in B, P[l] < P[m] PROVE Key[l] <= Key[m]
    BY DEF Sorted
  <2>2. \A x \in B : Key[x] \in Int BY <1>2
  <2>3. CASE l = n /\ m \in A
    <3>1. ~(pos[m] < q) BY <1>9, <1>10, <1>11, <2>1, <2>3 DEF Lift
    <3>2. QED BY <1>12, <2>2, <2>3, <3>1 DEF Behind
  <2>4. CASE l \in A /\ m = n
    <3>1. pos[l] < q BY <1>9, <1>10, <1>11, <2>1, <2>4 DEF Lift
    <3>2. QED BY <1>12, <2>4, <3>1 DEF Behind
  <2>5. CASE l \in A /\ m \in A
    <3>1. pos[l] < pos[m] BY <1>9, <1>10, <1>11, <2>1, <2>5 DEF Lift
    <3>2. QED BY <2>5, <3>1 DEF Whole, Sorted
  <2>6. CASE l = n /\ m = n BY <1>10, <1>11, <2>1, <2>6
  <2>7. QED BY <2>3, <2>4, <2>5, <2>6
<1>14. Ends(u, B, K + 1, P)
  <2>1. t.min_ \in A /\ t.max_ \in A /\ pos[t.min_] = 1 /\ pos[t.max_] = K
    BY <1>3 DEF Whole, Ends
  <2>2. u.min_ \in B /\ P[u.min_] = 1
    <3>1. CASE s = "left" /\ t.min_ = p BY <1>5, <1>10, <1>11, <2>1, <3>1
    <3>2. CASE ~(s = "left" /\ t.min_ = p)
      <4>1. pos[t.min_] # q
        <5>1. CASE s = "left"
          <6>1. t.min_ # p BY <3>2, <5>1
          <6>2. QED BY <1>1, <1>4, <1>10, <2>1, <5>1, <6>1 DEF Shape, Placed
        <5>2. CASE s = "right" BY <1>4, <1>9, <1>10, <2>1, <5>2
        <5>3. QED BY <1>2, <1>4, <5>1, <5>2
      <4>2. u.min_ = t.min_ BY <1>5, <3>2
      <4>3. QED BY <1>10, <1>11, <2>1, <4>1, <4>2 DEF Lift
    <3>3. QED BY <3>1, <3>2
  <2>3. u.max_ \in B /\ P[u.max_] = K + 1
    <3>1. CASE s = "right" /\ t.max_ = p BY <1>5, <1>10, <1>11, <2>1, <3>1
    <3>2. CASE ~(s = "right" /\ t.max_ = p)
      <4>1. pos[t.max_] >= q
        <5>1. CASE s = "right"
          <6>1. t.max_ # p BY <3>2, <5>1
          <6>2. pos[p] # K BY <1>1, <1>4, <2>1, <6>1 DEF Shape, Placed
          <6>3. QED BY <1>2, <1>4, <1>9, <1>10, <2>1, <5>1, <6>2
        <5>2. CASE s = "left" BY <1>2, <1>4, <1>9, <1>10, <2>1, <5>2
        <5>3. QED BY <1>2, <1>4, <5>1, <5>2
      <4>2. u.max_ = t.max_ BY <1>5, <3>2
      <4>3. QED BY <1>2, <1>10, <1>11, <2>1, <4>1, <4>2 DEF Lift
    <3>3. QED BY <3>1, <3>2
  <2>4. QED BY <2>2, <2>3 DEF Ends
<1>15. /\ u.root_ = t.root_ /\ u.child_[s][p] = n
       /\ \A d \in Sides : u.child_[d][n] = Nil
       /\ \A m \in Nodes, d \in Sides : m # p \/ d # s => u.child_[d][m] = t.child_[d][m]
       /\ \A m \in Nodes : m # n => u.parent_[m] = t.parent_[m] /\ u.color_[m] = t.color_[m]
       /\ u.color_[n] = "red" /\ p \in Nodes
  BY <1>2, <1>4, <1>5, <1>7 DEF Attached
<1>16. \A m \in A, d \in Sides : t.child_[d][m] # Nil => t.child_[d][m] \in A /\ t.child_[d][m] # n
  BY <1>1, <1>7, ChildFacts
<1> DEFINE f == [h EXCEPT ![n] = 0]
<1>17. f \in [Nodes -> Nat] /\ f[n] = 0 /\ \A m \in A : f[m] = h[m] /\ h[m] \in Nat /\ m # n
  BY <1>2, <1>7
<1> HIDE DEF f
<1>18. Even(u, B, f, Nil, Nil)
  <2>1. SUFFICES ASSUME NEW m \in B, NEW d \in Sides
                 PROVE  f[m] = (IF u.child_[d][m] = Nil THEN 0 ELSE f[u.child_[d][m]])
                               + (IF u.color_[m] = "red" THEN 0 ELSE 1)
    BY <1>2, <1>17 DEF Even
  <2>2. CASE m = n BY <1>15, <1>17, <2>2
  <2>3. CASE m \in A
    <3>1. u.color_[m] = t.color_[m] /\ m \in Nodes BY <1>2, <1>15, <1>17, <2>3
    <3>2. h[m] = (IF t.child_[d][m] = Nil THEN 0 ELSE h[t.child_[d][m]])
                 + (IF t.color_[m] = "red" THEN 0 ELSE 1)
      BY <1>1, <1>2, <2>3 DEF Even
    <3>3. CASE m = p /\ d = s BY <1>2, <1>4, <1>15, <1>17, <3>1, <3>2, <3>3
    <3>4. CASE m # p \/ d # s
      <4>1. u.child_[d][m] = t.child_[d][m] BY <1>15, <3>1, <3>4
      <4>2. QED BY <1>16, <1>17, <2>3, <3>1, <3>2, <4>1
    <3>5. QED BY <3>3, <3>4
  <2>4. QED BY <2>2, <2>3
<1>19. NoTwoRed(u, B, n)
  <2>1. u.color_[u.root_] = "black"
    <3>1. t.root_ \in A /\ t.color_[t.root_] = "black" BY <1>1, <1>3 DEF NoTwoRed, Shape, Top
    <3>2. QED BY <1>2, <1>7, <1>15, <3>1
  <2>2. SUFFICES ASSUME NEW m \in B, NEW d \in Sides, u.color_[m] = "red"
                 PROVE  u.child_[d][m] \in {Nil, n} \/ u.color_[u.child_[d][m]] = "black"
    BY <2>1 DEF NoTwoRed
  <2>3. CASE m = n \/ (m = p /\ d = s) BY <1>15, <2>3
  <2>4. CASE m # n /\ ~(m = p /\ d = s)
    <3>1. m \in A /\ m \in Nodes /\ t.color_[m] = "red" /\ u.child_[d][m] = t.child_[d][m]
      BY <1>2, <1>15, <2>2, <2>4
    <3>2. t.child_[d][m] = Nil \/ t.color_[t.child_[d][m]] = "black"
      BY <1>1, <3>1 DEF NoTwoRed
    <3>3. QED BY <1>2, <1>15, <1>16, <3>1, <3>2
  <2>5. QED BY <2>3, <2>4
<1>20. Tidy(u, B)
  <2>1. SUFFICES ASSUME NEW m \in Nodes \ B
                 PROVE  /\ \A d \in Sides : u.child_[d][m] = Nil
                        /\ u.parent_[m] = Nil /\ u.color_[m] = "black"
    BY DEF Tidy
  <2>2. m # n /\ m # p /\ m \in Nodes \ A BY <1>4
  <2>3. /\ \A d \in Sides : t.child_[d][m] = Nil
        /\ t.parent_[m] = Nil /\ t.color_[m] = "black"
    BY <2>2 DEF Whole, Tidy
  <2>4. QED BY <1>15, <2>2, <2>3
<1>21. Adjusting(u, B, K + 1, P, E, u, n)
  <2>1. u \in Trees /\ SameFrame(u, u) /\ n # u.root_
    BY <1>1, <1>3, <1>7, <1>8, <1>15 DEF Shape, SameFrame, Top
  <2>2. QED BY <1>2, <1>8, <1>15, <1>18, <1>19, <1>20, <2>1 DEF Adjusting
<1>22. u.size_ = K BY <1>5 DEF Whole
<1>23. QED BY <1>5, <1>10, <1>12, <1>13, <1>14, <1>21, <1>22 DEF u, P

\* Insert gives the node its place and leaves the tree whole.
LEMMA InsertKeeps ==
    ASSUME NEW t, NEW K, NEW pos, Whole(t, K, pos), NEW n \in Nodes \ t.alive
    PROVE  \E q \in 1..(K + 1) :
               /\ Behind(t.alive, pos, n, q)
               /\ Inserted(t, n).alive = t.alive \cup {n}
               /\ Whole(Inserted(t, n), K + 1, PosWith(pos, n, q))
<1> DEFINE v == Inserted(t, n)
<1>1. CASE t.root_ = Nil
  <2>1. t.alive = {} /\ v.alive = {n} /\ Whole(v, 1, PosWith(pos, n, 1)) BY <1>1, InsertFirst
  <2>2. K = 0 BY <2>1, FS_EmptySet DEF Whole
  <2>3. 1 \in 1..(K + 1) /\ K + 1 = 1 BY <2>2
  <2>4. Behind(t.alive, pos, n, 1) BY <2>1 DEF Behind
  <2>5. t.alive \cup {n} = {n} BY <2>1
  <2> HIDE DEF v
  <2>6. QED BY <2>1, <2>3, <2>4, <2>5 DEF v
<1>2. CASE t.root_ # Nil
  <2> DEFINE u == Linked(t, n)
             A == t.alive \cup {n}
             w == AdjustAfterInsert(u, n)
  <2>0. PICK q \in 1..(K + 1) : \E edge :
              /\ u.alive = A /\ u.size_ = K /\ Behind(t.alive, pos, n, q)
              /\ Adjusting(u, A, K + 1, PosWith(pos, n, q), edge, u, n)
              /\ Sorted(A, PosWith(pos, n, q)) /\ Ends(u, A, K + 1, PosWith(pos, n, q))
    BY <1>2, LinkedKeeps
  <2>1. PICK edge :
              /\ u.alive = A /\ u.size_ = K /\ Behind(t.alive, pos, n, q)
              /\ Adjusting(u, A, K + 1, PosWith(pos, n, q), edge, u, n)
              /\ Sorted(A, PosWith(pos, n, q)) /\ Ends(u, A, K + 1, PosWith(pos, n, q))
    BY <2>0
  <2> DEFINE P == PosWith(pos, n, q)
  <2>2. t.alive \in SUBSET Nodes /\ n # Nil
    BY TreeAssumption DEF Whole, Balance, Shape
  <2>3. /\ K + 1 = Cardinality(A) /\ K + 1 <= Cardinality(Nodes) /\ K \in Nat
    BY <2>2, OneMore DEF Whole
  <2>4. v = [w EXCEPT !.size_ = w.size_ + 1] BY <1>2 DEF Inserted, Linked
  <2> HIDE DEF u, A, v, P
  <2>5. Adjusting(u, A, K + 1, P, edge, w, Nil)
    BY <2>1, <2>2, <2>3, AdjustKeeps DEF P
  <2> HIDE DEF w
  <2>6. /\ w \in Trees /\ SameFrame(u, w) /\ Tidy(w, A) /\ Balance(w, A, K + 1, P, Nil)
    BY <2>5 DEF Adjusting
  <2>7. /\ v.root_ = w.root_ /\ v.child_ = w.child_ /\ v.parent_ = w.parent_
        /\ v.color_ = w.color_ /\ v.size_ = w.size_ + 1 /\ v.alive = w.alive
        /\ v.min_ = w.min_ /\ v.max_ = w.max_
    BY <2>4, <2>6 DEF Trees
  <2>8. w.alive = A /\ w.size_ = K /\ Ends(w, A, K + 1, P)
    BY <2>1, <2>6 DEF SameFrame, Ends, P
  <2>9. v \in Trees BY <2>3, <2>4, <2>6, <2>8 DEF Trees
  <2>10. Balance(v, A, K + 1, P, Nil)
    <3>1. PICK e, h : Shape(w, A, K + 1, P, e) /\ Even(w, A, h, Nil, Nil) /\ NoTwoRed(w, A, Nil)
      BY <2>6 DEF Balance
    <3>2. Shape(v, A, K + 1, P, e) BY <2>7, <2>9, <3>1, SameLinks
    <3>3. Even(v, A, h, Nil, Nil) BY <2>7, <3>1 DEF Even
    <3>4. NoTwoRed(v, A, Nil) BY <2>7, <3>1 DEF NoTwoRed
    <3>5. QED BY <3>2, <3>3, <3>4 DEF Balance
  <2>11. Tidy(v, A) BY <2>6, <2>7 DEF Tidy
  <2>12. Ends(v, A, K + 1, P) BY <2>7, <2>8 DEF Ends
  <2>13. Whole(v, K + 1, P) BY <2>1, <2>3, <2>7, <2>8, <2>10, <2>11, <2>12 DEF Whole, P
  <2>14. QED BY <2>1, <2>7, <2>8, <2>13 DEF v, P, A
<1>3. QED BY <1>1, <1>2

------------------------------------------------------------------------------
(* Erase: taking a node with at most one child out *)

\* The positions and edges once n has given up its position.
PosWithout(pos, n) == [m \in Nodes |-> IF pos[m] > pos[n] THEN pos[m] - 1 ELSE pos[m]]

EdgeWithout(pos, edge, n) ==
    [d \in Sides |-> [m \in Nodes |->
        IF edge[d][m] > pos[n] \/ (edge[d][m] = pos[n] /\ d = "left") THEN edge[d][m] - 1
        ELSE edge[d][m]]]

\* What putting c, the only child of n or none, in the place of n makes of the links.
Detached(t, u, A, n, c) ==
    /\ u \in Trees /\ u.root_ = IF t.root_ = n THEN c ELSE t.root_
    /\ \A m \in A \ {n}, d \in Sides :
        u.child_[d][m] = IF t.child_[d][m] = n THEN c ELSE t.child_[d][m]
    /\ \A m \in A \ {n} : u.parent_[m] = IF m = c THEN t.parent_[n] ELSE t.parent_[m]

\* A tree without the node is a tree.
LEMMA DetachShape ==
    ASSUME NEW t, NEW A, NEW K, NEW pos, NEW edge, Shape(t, A, K, pos, edge),
           NEW n \in A, NEW s \in Sides, NEW o \in Sides, o # s, t.child_[o][n] = Nil,
           NEW c, c = t.child_[s][n], NEW u, Detached(t, u, A, n, c)
    PROVE  Shape(u, A \ {n}, K - 1, PosWithout(pos, n), EdgeWithout(pos, edge, n))
<1> DEFINE B == A \ {n}
           P == PosWithout(pos, n)
           E == EdgeWithout(pos, edge, n)
           q == pos[n]
<1>1. /\ A \subseteq Nodes /\ t \in Trees /\ u \in Trees /\ K \in Nat /\ Nil \notin Nodes /\ Nil \notin A
      /\ n \in Nodes /\ n # Nil
      /\ pos \in [Nodes -> Int] /\ edge \in [Sides -> [Nodes -> Int]]
      /\ "left" \in Sides /\ "right" \in Sides /\ \A d \in Sides : d = "left" \/ d = "right"
  BY TreeAssumption DEF Shape, Placed, Detached, Sides
<1>2. /\ Opposite(o) = s /\ Opposite(s) = o /\ \A d \in Sides : d = s \/ d = o
      /\ \A d \in Sides : Opposite(d) \in Sides /\ Opposite(d) # d
      /\ Opposite("left") = "right" /\ Opposite("right") = "left"
      /\ s = "left" => o = "right"
      /\ s = "right" => o = "left"
  BY DEF Sides, Opposite
<1>3. \A m \in A : /\ pos[m] \in Int /\ edge["left"][m] \in Int /\ edge["right"][m] \in Int
                   /\ 0 <= edge["left"][m] /\ edge["left"][m] < pos[m]
                   /\ pos[m] < edge["right"][m] /\ edge["right"][m] <= K + 1
  BY <1>1 DEF Shape, Placed
<1>4. q \in Int /\ 1 <= q /\ q <= K BY <1>1, <1>3
<1>5. \A m \in B : m \in A /\ m # n /\ pos[m] # q BY DEF Shape, Placed
<1> HIDE DEF q
<1>6. /\ P \in [Nodes -> Int] /\ E \in [Sides -> [Nodes -> Int]]
      /\ \A m \in A : P[m] = IF pos[m] > q THEN pos[m] - 1 ELSE pos[m]
      /\ \A m \in A : E["left"][m] = IF edge["left"][m] >= q THEN edge["left"][m] - 1
                                     ELSE edge["left"][m]
      /\ \A m \in A : E["right"][m] = IF edge["right"][m] > q THEN edge["right"][m] - 1
                                      ELSE edge["right"][m]
  <2>1. \A m \in Nodes : /\ P[m] = IF pos[m] > q THEN pos[m] - 1 ELSE pos[m]
                         /\ \A d \in Sides :
                              E[d][m] = IF edge[d][m] > q \/ (edge[d][m] = q /\ d = "left")
                                        THEN edge[d][m] - 1 ELSE edge[d][m]
    BY DEF PosWithout, EdgeWithout, q
  <2>2. P \in [Nodes -> Int] BY <1>1, <1>4 DEF PosWithout, q
  <2>3. E \in [Sides -> [Nodes -> Int]] BY <1>1, <1>4 DEF EdgeWithout, q
  <2>4. ASSUME NEW m \in A
        PROVE  /\ P[m] = IF pos[m] > q THEN pos[m] - 1 ELSE pos[m]
               /\ E["left"][m] = IF edge["left"][m] >= q THEN edge["left"][m] - 1
                                 ELSE edge["left"][m]
               /\ E["right"][m] = IF edge["right"][m] > q THEN edge["right"][m] - 1
                                  ELSE edge["right"][m]
    <3>1. m \in Nodes /\ edge["left"][m] \in Int BY <1>1, <1>3
    <3>2. P[m] = IF pos[m] > q THEN pos[m] - 1 ELSE pos[m] BY <2>1, <3>1
    <3>3. E["left"][m] = IF edge["left"][m] > q \/ edge["left"][m] = q
                         THEN edge["left"][m] - 1 ELSE edge["left"][m]
      BY <1>1, <2>1, <3>1
    <3>4. E["right"][m] = IF edge["right"][m] > q THEN edge["right"][m] - 1
                          ELSE edge["right"][m]
      BY <1>1, <2>1, <3>1
    <3>5. QED BY <1>4, <3>1, <3>2, <3>3, <3>4
  <2>5. QED BY <2>2, <2>3, <2>4
<1> HIDE DEF P, E
<1>7. /\ o = "left" => edge["left"][n] = q - 1
      /\ o = "right" => edge["right"][n] = q + 1
  BY <1>1 DEF Shape, Gapless, q
<1>8. c # Nil => /\ c \in A /\ c # n /\ t.parent_[c] = n /\ c # t.root_
                 /\ edge[s][c] = edge[s][n] /\ edge[o][c] = q
  BY <1>2, ChildFacts DEF q
<1>9. /\ u.root_ = IF t.root_ = n THEN c ELSE t.root_
      /\ \A m \in B, d \in Sides :
           u.child_[d][m] = IF t.child_[d][m] = n THEN c ELSE t.child_[d][m]
      /\ \A m \in B : u.parent_[m] = IF m = c THEN t.parent_[n] ELSE t.parent_[m]
  BY DEF Detached
<1>10. \A m \in A, d \in Sides : t.child_[d][m] # Nil =>
          /\ t.child_[d][m] \in A /\ t.parent_[t.child_[d][m]] = m
          /\ edge[d][t.child_[d][m]] = edge[d][m]
          /\ edge[Opposite(d)][t.child_[d][m]] = pos[m]
          /\ t.child_[d][m] # t.root_
  BY ChildFacts
\* Seen from the nodes that stay, an edge at a node moves as the node does.
<1>11. \A m \in B, k \in A, d \in Sides : edge[d][k] = pos[m] => E[d][k] = P[m]
  <2>1. SUFFICES ASSUME NEW m \in B, NEW k \in A, NEW d \in Sides, edge[d][k] = pos[m]
                 PROVE  E[d][k] = P[m]
    OBVIOUS
  <2>2. pos[m] \in Int /\ pos[m] # q /\ m \in A BY <1>3, <1>5
  <2>3. P[m] = IF pos[m] > q THEN pos[m] - 1 ELSE pos[m] BY <1>6, <2>2
  <2>4. CASE d = "left" BY <1>4, <1>6, <2>1, <2>2, <2>3, <2>4
  <2>5. CASE d = "right" BY <1>4, <1>6, <2>1, <2>2, <2>3, <2>5
  <2>6. QED BY <1>1, <2>4, <2>5
<1>12. \A k, m \in A, d \in Sides : edge[d][k] = edge[d][m] => E[d][k] = E[d][m]
  BY <1>1, <1>6
\* An edge at n is, seen from the child, the edge of n.
<1>13. E[o][n] = IF o = "left" THEN q - 1 ELSE q
  BY <1>1, <1>4, <1>6, <1>7
<1>14. c # Nil => E[o][c] = E[o][n] /\ E[s][c] = E[s][n]
  BY <1>1, <1>4, <1>6, <1>8, <1>12, <1>13
<1>15. Placed(B, K - 1, P, E)
  <2>1. ASSUME NEW m \in B
        PROVE  /\ 0 <= E["left"][m] /\ E["left"][m] < P[m]
               /\ P[m] < E["right"][m] /\ E["right"][m] <= K - 1 + 1
    <3>1. /\ pos[m] \in Int /\ edge["left"][m] \in Int /\ edge["right"][m] \in Int
          /\ 0 <= edge["left"][m] /\ edge["left"][m] < pos[m]
          /\ pos[m] < edge["right"][m] /\ edge["right"][m] <= K + 1 /\ pos[m] # q
      BY <1>3, <1>5
    <3>2. /\ P[m] = IF pos[m] > q THEN pos[m] - 1 ELSE pos[m]
          /\ E["left"][m] = IF edge["left"][m] >= q THEN edge["left"][m] - 1
                            ELSE edge["left"][m]
          /\ E["right"][m] = IF edge["right"][m] > q THEN edge["right"][m] - 1
                             ELSE edge["right"][m]
      BY <1>6
    <3>3. QED BY <1>1, <1>4, <3>1, <3>2
  <2>2. ASSUME NEW l \in B, NEW m \in B, P[l] = P[m] PROVE l = m
    <3>1. pos[l] = pos[m] BY <1>3, <1>4, <1>5, <1>6, <2>2
    <3>2. QED BY <3>1 DEF Shape, Placed
  <2>3. QED BY <1>6, <2>1, <2>2 DEF Placed
<1>16. Downwards(u, B, P, E)
  <2>1. SUFFICES ASSUME NEW m \in B, NEW d \in Sides, u.child_[d][m] # Nil
                 PROVE  /\ u.child_[d][m] \in B /\ u.parent_[u.child_[d][m]] = m
                        /\ E[d][u.child_[d][m]] = E[d][m]
                        /\ E[Opposite(d)][u.child_[d][m]] = P[m]
    BY DEF Downwards
  <2>2. m \in A /\ m # n OBVIOUS
  <2>3. CASE t.child_[d][m] = n
    <3>1. u.child_[d][m] = c BY <1>9, <2>3
    <3>2. t.parent_[n] = m /\ edge[d][n] = edge[d][m] /\ edge[Opposite(d)][n] = pos[m]
      BY <1>1, <1>10, <2>2, <2>3
    <3>3. c # Nil /\ c \in B /\ u.parent_[c] = m BY <1>8, <1>9, <2>1, <3>1, <3>2
    <3>4. E[d][c] = E[d][n] /\ E[Opposite(d)][c] = E[Opposite(d)][n]
      BY <1>2, <1>14, <3>3
    <3>5. E[d][n] = E[d][m] BY <1>12, <2>2, <3>2
    <3>6. E[Opposite(d)][n] = P[m] BY <1>2, <1>11, <3>2
    <3>7. QED BY <3>1, <3>3, <3>4, <3>5, <3>6
  <2>4. CASE t.child_[d][m] # n
    <3> DEFINE k == t.child_[d][m]
    <3>1. u.child_[d][m] = k BY <1>9, <2>4
    <3>2. /\ k \in B /\ t.parent_[k] = m /\ edge[d][k] = edge[d][m]
          /\ edge[Opposite(d)][k] = pos[m]
      BY <1>10, <2>1, <2>2, <2>4, <3>1
    <3> HIDE DEF k
    <3>3. k # c BY <1>1, <1>8, <2>2, <3>2
    <3>4. u.parent_[k] = m BY <1>9, <3>2, <3>3
    <3>5. E[d][k] = E[d][m] /\ E[Opposite(d)][k] = P[m] BY <1>2, <1>11, <1>12, <2>2, <3>2
    <3>6. QED BY <3>1, <3>2, <3>4, <3>5
  <2>5. QED BY <2>3, <2>4
<1>17. Gapless(u, B, P, E)
  <2>1. SUFFICES ASSUME NEW m \in B, NEW d \in Sides, u.child_[d][m] = Nil
                 PROVE  E[d][m] = IF d = "left" THEN P[m] - 1 ELSE P[m] + 1
    BY <1>1 DEF Gapless
  <2>2. m \in A /\ m # n OBVIOUS
  <2>3. CASE t.child_[d][m] = n
    <3>1. c = Nil BY <1>9, <2>1, <2>3
    <3>2. edge[d][n] = edge[d][m] /\ edge[Opposite(d)][n] = pos[m]
      BY <1>1, <1>10, <2>2, <2>3
    <3>3. edge["left"][n] = q - 1 /\ edge["right"][n] = q + 1
      BY <1>1, <3>1 DEF Shape, Gapless, q
    <3>4. CASE d = "left"
      <4>1. edge["left"][m] = q - 1 /\ pos[m] = q + 1 BY <1>2, <3>2, <3>3, <3>4
      <4>2. QED BY <1>4, <1>6, <2>2, <3>4, <4>1
    <3>5. CASE d = "right"
      <4>1. edge["right"][m] = q + 1 /\ pos[m] = q - 1 BY <1>2, <3>2, <3>3, <3>5
      <4>2. QED BY <1>4, <1>6, <2>2, <3>5, <4>1
    <3>6. QED BY <1>1, <3>4, <3>5
  <2>4. CASE t.child_[d][m] # n
    <3>1. t.child_[d][m] = Nil BY <1>9, <2>1, <2>4
    <3>2. CASE d = "left"
      <4>1. edge["left"][m] = pos[m] - 1 BY <2>2, <3>1, <3>2 DEF Shape, Gapless
      <4>2. QED BY <1>3, <1>4, <1>5, <1>6, <2>2, <3>2, <4>1
    <3>3. CASE d = "right"
      <4>1. edge["right"][m] = pos[m] + 1 BY <2>2, <3>1, <3>3 DEF Shape, Gapless
      <4>2. QED BY <1>3, <1>4, <1>5, <1>6, <2>2, <3>3, <4>1
    <3>4. QED BY <1>1, <3>2, <3>3
  <2>5. QED BY <2>3, <2>4
<1>18. Upwards(u, B)
  <2>1. SUFFICES ASSUME NEW m \in B, m # u.root_
                 PROVE  u.parent_[m] \in B /\ \E d \in Sides : u.child_[d][u.parent_[m]] = m
    BY DEF Upwards
  <2>2. m \in A /\ m # n /\ m # Nil BY <1>1
  <2>3. CASE m = c
    <3>1. n # t.root_ BY <1>9, <2>1, <2>3
    <3>2. t.parent_[n] \in A /\ \E d \in Sides : t.child_[d][t.parent_[n]] = n
      BY <3>1 DEF Shape, Upwards
    <3>3. t.parent_[n] # n BY <3>1, ParentFacts
    <3>4. u.parent_[m] = t.parent_[n] BY <1>9, <2>3
    <3>5. QED BY <1>9, <2>3, <3>2, <3>3, <3>4
  <2>4. CASE m # c
    <3>1. m # t.root_ BY <1>9, <2>1, <2>2
    <3>2. t.parent_[m] \in A /\ \E d \in Sides : t.child_[d][t.parent_[m]] = m
      BY <2>2, <3>1 DEF Shape, Upwards
    <3>3. t.parent_[m] # n BY <1>2, <2>2, <2>4, <3>2
    <3>4. u.parent_[m] = t.parent_[m] BY <1>9, <2>4
    <3>5. QED BY <1>9, <2>2, <3>2, <3>3, <3>4
  <2>5. QED BY <2>3, <2>4
<1>19. Top(u, B, K - 1, E)
  <2>1. /\ t.root_ \in A /\ t.parent_[t.root_] = Nil
        /\ edge["left"][t.root_] = 0 /\ edge["right"][t.root_] = K + 1
    BY DEF Shape, Top
  <2>2. E["left"][t.root_] = 0 /\ E["right"][t.root_] = K BY <1>1, <1>4, <1>6, <2>1
  <2>3. CASE t.root_ # n
    <3>1. u.root_ = t.root_ /\ t.root_ \in B BY <1>9, <2>1, <2>3
    <3>2. t.root_ # c BY <1>1, <1>8, <2>1
    <3>3. u.parent_[t.root_] = Nil BY <1>9, <2>1, <3>1, <3>2
    <3>4. QED BY <1>1, <2>2, <3>1, <3>3 DEF Top
  <2>4. CASE t.root_ = n /\ c # Nil
    <3>1. u.root_ = c /\ c \in B BY <1>8, <1>9, <2>4
    <3>2. u.parent_[c] = Nil BY <1>9, <2>1, <2>4, <3>1
    <3>3. E["left"][c] = 0 /\ E["right"][c] = K BY <1>1, <1>2, <1>14, <2>2, <2>4
    <3>4. QED BY <1>1, <3>1, <3>2, <3>3 DEF Top
  <2>5. CASE t.root_ = n /\ c = Nil
    <3>1. edge["left"][n] = q - 1 /\ edge["right"][n] = q + 1
      BY <1>1, <2>5 DEF Shape, Gapless, q
    <3>2. q = 1 /\ K = 1 BY <1>1, <1>4, <2>1, <2>5, <3>1
    <3>3. B = {} BY <1>1, <1>3, <1>5, <3>2
    <3>4. QED BY <1>9, <2>5, <3>3 DEF Top
  <2>6. QED BY <2>3, <2>4, <2>5
<1>20. K - 1 \in Nat BY <1>1, <1>4
<1>21. QED BY <1>1, <1>15, <1>16, <1>17, <1>18, <1>19, <1>20 DEF Shape, P, E

\* The ends of the tree are right, or n is one and has to hand it on.
EndsBut(t, A, K, pos, n) ==
    /\ IF t.min_ = n THEN pos[n] = 1
       ELSE t.min_ \in A /\ PosWithout(pos, n)[t.min_] = 1
    /\ IF t.max_ = n THEN pos[n] = K
       ELSE t.max_ \in A /\ PosWithout(pos, n)[t.max_] = K - 1

\* An end that is not n still stands first or last when n is left out.
LEMMA EndsWhole ==
    ASSUME NEW t, NEW A, NEW K, NEW pos, NEW edge, Shape(t, A, K, pos, edge),
           Ends(t, A, K, pos), NEW n \in A
    PROVE  EndsBut(t, A, K, pos, n)
<1>1. t.min_ \in A /\ t.max_ \in A /\ pos[t.min_] = 1 /\ pos[t.max_] = K BY DEF Ends
<1>2. /\ A \subseteq Nodes /\ K \in Nat /\ pos \in [Nodes -> Int]
      /\ pos[n] \in Int /\ 1 <= pos[n] /\ pos[n] <= K
  BY DEF Shape, Placed, Sides
<1>3. \A m \in A : m # n => pos[m] # pos[n] BY DEF Shape, Placed
<1>4. \A m \in A : PosWithout(pos, n)[m] = IF pos[m] > pos[n] THEN pos[m] - 1 ELSE pos[m]
  BY <1>2 DEF PosWithout
<1>5. QED BY <1>1, <1>2, <1>3, <1>4 DEF EndsBut

\* The tree u without n, but for what n itself holds.
Rid(t, u, A, K, pos, n) ==
    /\ u \in Trees /\ u.alive = t.alive /\ u.size_ = t.size_ /\ Tidy(u, A \cup {n})
    /\ Balance(u, A, K, pos, Nil) /\ Ends(u, A, K, pos)

\* What cutting off a leaf changes.
LEMMA UnlinkFields ==
    ASSUME NEW t, NEW A, NEW K, NEW pos, NEW edge, Shape(t, A, K, pos, edge),
           NEW n \in A, n # t.root_
    PROVE  LET u == Unlink(t, n)
               p == t.parent_[n]
               s == Side(t, n)
           IN  /\ p \in A \ {n} /\ s \in Sides /\ t.child_[s][p] = n
               /\ u \in Trees /\ u.root_ = t.root_ /\ u.size_ = t.size_ /\ u.alive = t.alive
               /\ u.parent_ = t.parent_ /\ u.color_ = t.color_
               /\ u.min_ = IF s = "left" /\ t.min_ = n THEN p ELSE t.min_
               /\ u.max_ = IF s = "right" /\ t.max_ = n THEN p ELSE t.max_
               /\ \A m \in Nodes, d \in Sides :
                    u.child_[d][m] = IF m = p /\ d = s THEN Nil ELSE t.child_[d][m]
<1> DEFINE u == Unlink(t, n)
           p == t.parent_[n]
           s == Side(t, n)
           mi == IF s = "left" /\ t.min_ = n THEN p ELSE t.min_
           ma == IF s = "right" /\ t.max_ = n THEN p ELSE t.max_
<1>1. p \in A \ {n} /\ s \in Sides /\ t.child_[s][p] = n BY ParentFacts
<1>2. t \in Trees /\ A \subseteq Nodes /\ Nil \notin Nodes BY TreeAssumption DEF Shape
<1>3. u = [t EXCEPT !.child_[s][p] = Nil, !.min_ = mi, !.max_ = ma] BY DEF Unlink
<1> HIDE DEF u, s, p
<1>4. mi \in NodesOrNil /\ ma \in NodesOrNil BY <1>1, <1>2 DEF Trees, NodesOrNil
<1> HIDE DEF mi, ma
<1>5. /\ u.root_ = t.root_ /\ u.size_ = t.size_ /\ u.alive = t.alive
      /\ u.parent_ = t.parent_ /\ u.color_ = t.color_ /\ u.min_ = mi /\ u.max_ = ma
      /\ u.child_ = [t.child_ EXCEPT ![s][p] = Nil]
  BY <1>2, <1>3 DEF Trees
<1>6. u \in Trees BY <1>1, <1>2, <1>3, <1>4 DEF Trees, NodesOrNil
<1>7. \A m \in Nodes, d \in Sides :
        u.child_[d][m] = IF m = p /\ d = s THEN Nil ELSE t.child_[d][m]
  BY <1>1, <1>2, <1>5 DEF Trees
<1>8. QED BY <1>1, <1>5, <1>6, <1>7 DEF u, s, p, mi, ma

\* Cutting off a leaf that is not counted as black leaves the rest as it was.
LEMMA UnlinkKeeps ==
    ASSUME NEW t, NEW A, NEW K, NEW pos, NEW edge, Shape(t, A, K, pos, edge),
           NEW n \in A, n # t.root_, \A d \in Sides : t.child_[d][n] = Nil,
           NEW h, NEW x, NEW y, Even(t, A, h, x, y), y \in {Nil, n}, x # n, h[n] = 0,
           NoTwoRed(t, A, Nil), EndsBut(t, A, K, pos, n), Tidy(t, A),
           NEW u, u = Unlink(t, n)
    PROVE  /\ Shape(u, A \ {n}, K - 1, PosWithout(pos, n), EdgeWithout(pos, edge, n))
           /\ Even(u, A \ {n}, h, x, Nil) /\ NoTwoRed(u, A \ {n}, Nil)
           /\ Ends(u, A \ {n}, K - 1, PosWithout(pos, n)) /\ Tidy(u, A)
           /\ u.size_ = t.size_ /\ u.alive = t.alive /\ u.root_ = t.root_
           /\ u.parent_ = t.parent_ /\ u.color_ = t.color_
<1> DEFINE p == t.parent_[n]
           s == Side(t, n)
           B == A \ {n}
           q == PosWithout(pos, n)
<1>1. /\ p \in A \ {n} /\ s \in Sides /\ t.child_[s][p] = n
      /\ u \in Trees /\ u.root_ = t.root_ /\ u.size_ = t.size_ /\ u.alive = t.alive
      /\ u.parent_ = t.parent_ /\ u.color_ = t.color_
      /\ u.min_ = IF s = "left" /\ t.min_ = n THEN p ELSE t.min_
      /\ u.max_ = IF s = "right" /\ t.max_ = n THEN p ELSE t.max_
      /\ \A m \in Nodes, d \in Sides :
           u.child_[d][m] = IF m = p /\ d = s THEN Nil ELSE t.child_[d][m]
  BY UnlinkFields
<1>2. /\ t \in Trees /\ A \subseteq Nodes /\ Nil \notin Nodes /\ n # Nil /\ K \in Nat
      /\ pos \in [Nodes -> Int] /\ "left" \in Sides /\ "right" \in Sides
      /\ \A d \in Sides : d = "left" \/ d = "right"
  BY TreeAssumption DEF Shape, Placed, Sides
<1>3. /\ t.parent_[n] = p /\ edge[s][n] = edge[s][p] /\ edge[Opposite(s)][n] = pos[p]
  BY <1>1, <1>2, ChildFacts
<1>3a. s = Side(t, n) OBVIOUS
<1> HIDE DEF p, s
<1>4. \A m \in A, d \in Sides : t.child_[d][m] = n => m = p /\ d = s
  <2>1. SUFFICES ASSUME NEW m \in A, NEW d \in Sides, t.child_[d][m] = n PROVE m = p /\ d = s
    OBVIOUS
  <2>2. t.parent_[n] = m /\ Side(t, n) = d BY <1>2, <2>1, ChildFacts
  <2>3. QED BY <2>2 DEF p, s
<1>5. \A m \in A, d \in Sides :
        u.child_[d][m] = IF t.child_[d][m] = n THEN Nil ELSE t.child_[d][m]
  BY <1>1, <1>2, <1>4
<1>6. Detached(t, u, A, n, Nil)
  <2>1. \A m \in A : m # Nil BY <1>2
  <2>2. QED BY <1>1, <1>5, <2>1 DEF Detached
<1>7. Shape(u, B, K - 1, PosWithout(pos, n), EdgeWithout(pos, edge, n))
  <2>1. "left" # "right" OBVIOUS
  <2>2. QED BY <1>2, <1>6, <2>1, DetachShape
<1>8. Even(u, B, h, x, Nil)
  <2>1. h \in [Nodes -> Nat] BY DEF Even
  <2>2. SUFFICES ASSUME NEW m \in B, NEW d \in Sides
                 PROVE  h[m] = (IF u.child_[d][m] = Nil THEN 0
                                ELSE IF u.child_[d][m] = x THEN h[u.child_[d][m]] + 1
                                ELSE h[u.child_[d][m]])
                               + (IF u.color_[m] = "red" THEN 0 ELSE 1)
    BY <2>1 DEF Even
  <2>3. m \in A \ {y} BY <1>2
  <2>4. h[m] = (IF t.child_[d][m] = Nil THEN 0
                ELSE IF t.child_[d][m] = x THEN h[t.child_[d][m]] + 1
                ELSE h[t.child_[d][m]])
               + (IF t.color_[m] = "red" THEN 0 ELSE 1)
    BY <2>3 DEF Even
  <2>5. u.color_[m] = t.color_[m] BY <1>1
  <2>6. CASE t.child_[d][m] = n
    <3>1. u.child_[d][m] = Nil BY <1>5, <2>3, <2>6
    <3>2. QED BY <1>2, <2>4, <2>5, <2>6, <3>1
  <2>7. CASE t.child_[d][m] # n
    <3>1. u.child_[d][m] = t.child_[d][m] BY <1>5, <2>3, <2>7
    <3>2. QED BY <2>4, <2>5, <3>1
  <2>8. QED BY <2>6, <2>7
<1>9. NoTwoRed(u, B, Nil)
  <2>1. u.color_[u.root_] = "black" BY <1>1 DEF NoTwoRed
  <2>2. QED BY <1>1, <1>5, <2>1 DEF NoTwoRed
<1>10. Tidy(u, A) BY <1>1, <1>2 DEF Tidy
<1>11. Ends(u, B, K - 1, q)
  <2>1. \A m \in A : q[m] = IF pos[m] > pos[n] THEN pos[m] - 1 ELSE pos[m]
    BY <1>2 DEF PosWithout
  <2>2. \A m \in A : pos[m] \in Int /\ 1 <= pos[m] /\ pos[m] <= K
    BY <1>2 DEF Shape, Placed
  <2>3. edge["left"][n] = pos[n] - 1 /\ edge["right"][n] = pos[n] + 1
    BY <1>2 DEF Shape, Gapless
  <2>4. /\ s = "left" => pos[p] = pos[n] + 1
        /\ s = "right" => pos[p] = pos[n] - 1
    BY <1>3, <2>3 DEF Opposite
  <2> HIDE DEF q
  <2>5. u.min_ \in B /\ q[u.min_] = 1
    <3>1. CASE t.min_ = n
      <4>1. pos[n] = 1 BY <3>1 DEF EndsBut
      <4>2. s = "left" BY <1>1, <1>2, <2>2, <2>4, <4>1
      <4>3. u.min_ = p /\ pos[p] = 2 BY <1>1, <2>4, <3>1, <4>1, <4>2
      <4>4. QED BY <1>1, <2>1, <4>1, <4>3
    <3>2. CASE t.min_ # n BY <1>1, <3>2 DEF EndsBut, q
    <3>3. QED BY <3>1, <3>2
  <2>6. u.max_ \in B /\ q[u.max_] = K - 1
    <3>1. CASE t.max_ = n
      <4>1. pos[n] = K BY <3>1 DEF EndsBut
      <4>2. s = "right" BY <1>1, <1>2, <2>2, <2>4, <4>1
      <4>3. u.max_ = p /\ pos[p] = K - 1 BY <1>1, <2>4, <3>1, <4>1, <4>2
      <4>4. QED BY <1>1, <1>2, <2>1, <4>1, <4>3
    <3>2. CASE t.max_ # n BY <1>1, <3>2 DEF EndsBut, q
    <3>3. QED BY <3>1, <3>2
  <2>7. QED BY <2>5, <2>6 DEF Ends
<1>12. QED BY <1>1, <1>7, <1>8, <1>9, <1>10, <1>11

\* What putting the only child in the place of a node changes.
LEMMA DropFields ==
    ASSUME NEW t \in Trees, NEW n \in Nodes, NEW s \in Sides,
           NEW c, c = t.child_[s][n], c \in Nodes
    PROVE  LET u == DropWithChild(t, n, s)
           IN  /\ u \in Trees /\ u.size_ = t.size_ /\ u.alive = t.alive
               /\ u.root_ = IF t.parent_[n] = Nil THEN c ELSE t.root_
               /\ \A m \in Nodes, d \in Sides :
                    u.child_[d][m] = IF m = t.parent_[n] /\ d = Side(t, n) THEN c
                                     ELSE t.child_[d][m]
               /\ \A m \in Nodes : u.parent_[m] = IF m = c THEN t.parent_[n] ELSE t.parent_[m]
               /\ \A m \in Nodes : u.color_[m] = IF m = c THEN "black" ELSE t.color_[m]
               /\ u.min_ = IF s = "right" /\ t.min_ = n THEN c ELSE t.min_
               /\ u.max_ = IF s = "left" /\ t.max_ = n THEN c ELSE t.max_
<1> DEFINE u == DropWithChild(t, n, s)
           r == Relink(t, n, c)
           mi == IF s = "right" /\ t.min_ = n THEN c ELSE t.min_
           ma == IF s = "left" /\ t.max_ = n THEN c ELSE t.max_
<1>1. Nil \notin Nodes /\ Side(t, n) \in Sides BY TreeAssumption DEF Side, Sides
<1>2. /\ r \in Trees /\ r.size_ = t.size_ /\ r.alive = t.alive
      /\ r.root_ = IF t.parent_[n] = Nil THEN c ELSE t.root_
      /\ r.parent_ = t.parent_ /\ r.color_ = t.color_ /\ r.min_ = t.min_ /\ r.max_ = t.max_
      /\ \A m \in Nodes, d \in Sides :
            r.child_[d][m] = IF m = t.parent_[n] /\ d = Side(t, n) THEN c ELSE t.child_[d][m]
  <2>1. CASE t.parent_[n] = Nil BY <1>1, <2>1 DEF Relink, Trees, NodesOrNil
  <2>2. CASE t.parent_[n] # Nil
    <3>1. t.parent_[n] \in Nodes BY <2>2 DEF Trees, NodesOrNil
    <3>2. QED BY <1>1, <2>2, <3>1 DEF Relink, Trees, NodesOrNil
  <2>3. QED BY <2>1, <2>2
<1>3. u = [r EXCEPT !.parent_[c] = t.parent_[n], !.color_[c] = "black",
                    !.max_ = ma, !.min_ = mi]
  <2>1. r.min_ = t.min_ /\ r.max_ = t.max_ BY <1>2
  <2>2. u = [r EXCEPT !.parent_[c] = t.parent_[n], !.color_[c] = "black",
                      !.max_ = IF s = "left" /\ @ = n THEN c ELSE @,
                      !.min_ = IF s = "right" /\ @ = n THEN c ELSE @]
    BY DEF DropWithChild
  <2> HIDE DEF u, r
  <2>3. r \in Trees BY <1>2
  <2>4. QED BY <2>1, <2>2, <2>3 DEF Trees
<1> HIDE DEF u, r
<1>4. mi \in NodesOrNil /\ ma \in NodesOrNil /\ t.parent_[n] \in NodesOrNil /\ "black" \in Colors
  BY DEF Trees, NodesOrNil, Colors
<1> HIDE DEF mi, ma
<1>5. /\ u.root_ = r.root_ /\ u.size_ = r.size_ /\ u.alive = r.alive /\ u.child_ = r.child_
      /\ u.min_ = mi /\ u.max_ = ma
      /\ u.parent_ = [r.parent_ EXCEPT ![c] = t.parent_[n]]
      /\ u.color_ = [r.color_ EXCEPT ![c] = "black"]
  BY <1>2, <1>3 DEF Trees
<1>6. u \in Trees BY <1>2, <1>3, <1>4 DEF Trees
<1>7. /\ \A m \in Nodes : u.parent_[m] = IF m = c THEN t.parent_[n] ELSE t.parent_[m]
      /\ \A m \in Nodes : u.color_[m] = IF m = c THEN "black" ELSE t.color_[m]
  BY <1>2, <1>5 DEF Trees
<1>8. QED BY <1>2, <1>5, <1>6, <1>7 DEF u, mi, ma

\* A black node with one child: the child is a red leaf and takes its place in
\* black.  The child may not yet point back at the node, as in the tree t that
\* SwapWithFormer makes of w.
LEMMA DropKeeps ==
    ASSUME NEW w, NEW A, NEW K, NEW pos, NEW edge, Shape(w, A, K, pos, edge),
           NEW h, Even(w, A, h, Nil, Nil), NoTwoRed(w, A, Nil),
           NEW n \in A, w.color_[n] = "black", EndsBut(w, A, K, pos, n), Tidy(w, A),
           NEW s \in Sides, NEW o \in Sides, o # s, w.child_[o][n] = Nil,
           NEW c, c = w.child_[s][n], c # Nil,
           NEW t \in Trees, SameFrame(w, t), t.root_ = w.root_, t.child_ = w.child_,
           t.color_ = w.color_, \A m \in Nodes : m # c => t.parent_[m] = w.parent_[m],
           NEW u, u = DropWithChild(t, n, s)
    PROVE  Rid(w, u, A \ {n}, K - 1, PosWithout(pos, n), n)
<1> DEFINE B == A \ {n}
           q == PosWithout(pos, n)
<1>1. /\ w \in Trees /\ A \subseteq Nodes /\ Nil \notin Nodes /\ n # Nil /\ K \in Nat
      /\ pos \in [Nodes -> Int] /\ "left" \in Sides /\ "right" \in Sides
      /\ (\A d \in Sides : d = "left" \/ d = "right") /\ (\A d \in Sides : d = s \/ d = o)
      /\ h \in [Nodes -> Nat]
  BY TreeAssumption DEF Shape, Placed, Sides, Even
<1>2. /\ c \in A /\ c # n /\ c \in Nodes /\ w.parent_[c] = n /\ Side(w, c) = s /\ c # w.root_
      /\ edge[s][c] = edge[s][n] /\ edge[Opposite(s)][c] = pos[n]
  BY <1>1, ChildFacts
<1>3. \A m \in A, d \in Sides : w.child_[d][m] # Nil =>
        /\ w.child_[d][m] \in A /\ w.parent_[w.child_[d][m]] = m /\ Side(w, w.child_[d][m]) = d
  BY ChildFacts
<1>4. /\ u \in Trees /\ u.size_ = w.size_ /\ u.alive = w.alive
      /\ u.root_ = IF w.parent_[n] = Nil THEN c ELSE w.root_
      /\ \A m \in Nodes, d \in Sides :
           u.child_[d][m] = IF m = w.parent_[n] /\ d = Side(w, n) THEN c ELSE w.child_[d][m]
      /\ \A m \in Nodes : u.parent_[m] = IF m = c THEN w.parent_[n] ELSE w.parent_[m]
      /\ \A m \in Nodes : u.color_[m] = IF m = c THEN "black" ELSE w.color_[m]
      /\ u.min_ = IF s = "right" /\ w.min_ = n THEN c ELSE w.min_
      /\ u.max_ = IF s = "left" /\ w.max_ = n THEN c ELSE w.max_
  <2>1. t.parent_[n] = w.parent_[n] /\ n \in Nodes BY <1>1, <1>2
  <2>2. Side(t, n) = Side(w, n) BY <2>1 DEF Side
  <2>3. c = t.child_[s][n] OBVIOUS
  <2>4. /\ u \in Trees /\ u.size_ = t.size_ /\ u.alive = t.alive
        /\ u.root_ = IF t.parent_[n] = Nil THEN c ELSE t.root_
        /\ \A m \in Nodes, d \in Sides :
             u.child_[d][m] = IF m = t.parent_[n] /\ d = Side(t, n) THEN c
                              ELSE t.child_[d][m]
        /\ \A m \in Nodes : u.parent_[m] = IF m = c THEN t.parent_[n] ELSE t.parent_[m]
        /\ \A m \in Nodes : u.color_[m] = IF m = c THEN "black" ELSE t.color_[m]
        /\ u.min_ = IF s = "right" /\ t.min_ = n THEN c ELSE t.min_
        /\ u.max_ = IF s = "left" /\ t.max_ = n THEN c ELSE t.max_
    BY <1>2, <2>1, <2>3, DropFields
  <2>5. \A m \in Nodes : u.parent_[m] = IF m = c THEN w.parent_[n] ELSE w.parent_[m]
    BY <2>1, <2>4
  <2>6. QED BY <2>1, <2>2, <2>4, <2>5 DEF SameFrame
<1>5. \A m \in A, d \in Sides :
        u.child_[d][m] = IF w.child_[d][m] = n THEN c ELSE w.child_[d][m]
  <2>1. SUFFICES ASSUME NEW m \in A, NEW d \in Sides
                 PROVE  u.child_[d][m] = IF w.child_[d][m] = n THEN c ELSE w.child_[d][m]
    OBVIOUS
  <2>2. w.child_[d][m] = n => m = w.parent_[n] /\ d = Side(w, n) BY <1>1, <1>3
  <2>3. m = w.parent_[n] /\ d = Side(w, n) => w.child_[d][m] = n
    <3>1. SUFFICES ASSUME m = w.parent_[n], d = Side(w, n) PROVE w.child_[d][m] = n OBVIOUS
    <3>2. w.parent_[n] # Nil BY <1>1, <3>1
    <3>3. QED BY <3>1, <3>2, ParentFacts
  <2>4. QED BY <1>1, <1>4, <2>2, <2>3
<1>6. u.root_ = IF w.root_ = n THEN c ELSE w.root_
  <2>1. w.root_ = n => w.parent_[n] = Nil BY <1>1 DEF Shape, Top
  <2>2. w.root_ # n => w.parent_[n] # Nil BY ParentFacts
  <2>3. QED BY <1>4, <2>1, <2>2
<1>7. Detached(w, u, A, n, c)
  BY <1>1, <1>4, <1>5, <1>6 DEF Detached
<1>8. Shape(u, B, K - 1, q, EdgeWithout(pos, edge, n))
  BY <1>7, DetachShape
<1>9. h[n] = 1 /\ h[c] = 0 /\ w.color_[c] = "red"
  <2>1. h[n] = (IF w.child_[o][n] = Nil THEN 0 ELSE h[w.child_[o][n]]) + 1
    BY <1>1 DEF Even
  <2>2. h[n] = h[c] + 1 BY <1>1 DEF Even
  <2>3. h[c] \in Nat BY <1>1, <1>2
  <2>4. h[c] = 0 /\ h[n] = 1 BY <2>1, <2>2, <2>3
  <2>5. h[c] = (IF w.child_[s][c] = Nil THEN 0 ELSE h[w.child_[s][c]])
               + (IF w.color_[c] = "red" THEN 0 ELSE 1)
    BY <1>1, <1>2 DEF Even
  <2>6. w.child_[s][c] # Nil => h[w.child_[s][c]] \in Nat BY <1>1, <1>2, <1>3
  <2>7. w.color_[c] = "red" BY <2>4, <2>5, <2>6
  <2>8. QED BY <2>4, <2>7
<1>10. \A d \in Sides : w.child_[d][c] = Nil
  <2>1. SUFFICES ASSUME NEW d \in Sides, w.child_[d][c] # Nil PROVE FALSE OBVIOUS
  <2> DEFINE k == w.child_[d][c]
  <2>2. k \in A /\ k \in Nodes BY <1>1, <1>2, <1>3, <2>1
  <2>3. w.color_[k] = "black" BY <1>2, <1>9, <2>1 DEF NoTwoRed
  <2>4. h[c] = h[k]
    <3>1. h[c] = (IF k = Nil THEN 0 ELSE h[k]) + (IF w.color_[c] = "red" THEN 0 ELSE 1)
      BY <1>1, <1>2, <2>1 DEF Even
    <3>2. h[k] \in Nat BY <1>1, <2>2
    <3>3. QED BY <1>9, <2>1, <3>1, <3>2
  <2>5. h[k] = (IF w.child_[s][k] = Nil THEN 0 ELSE h[w.child_[s][k]]) + 1
    BY <1>1, <2>2, <2>3 DEF Even
  <2>6. w.child_[s][k] # Nil => h[w.child_[s][k]] \in Nat BY <1>1, <1>3, <2>2
  <2> HIDE DEF k
  <2>7. QED BY <1>9, <2>4, <2>5, <2>6
<1> DEFINE f == [h EXCEPT ![c] = 1]
<1>11. f \in [Nodes -> Nat] /\ f[c] = 1 /\ \A m \in Nodes : m # c => f[m] = h[m]
  BY <1>1, <1>2
<1> HIDE DEF f
<1>12. \A m \in A, d \in Sides : w.child_[d][m] = c => m = n
  BY <1>1, <1>2, <1>3
<1>13. Even(u, B, f, Nil, Nil)
  <2>1. SUFFICES ASSUME NEW m \in B, NEW d \in Sides
                 PROVE  f[m] = (IF u.child_[d][m] = Nil THEN 0 ELSE f[u.child_[d][m]])
                               + (IF u.color_[m] = "red" THEN 0 ELSE 1)
    BY <1>1, <1>11 DEF Even
  <2>2. m \in A /\ m # n /\ m \in Nodes BY <1>1
  <2>3. CASE m = c
    <3>1. u.child_[d][c] = Nil BY <1>1, <1>2, <1>5, <1>10
    <3>2. u.color_[c] = "black" BY <1>2, <1>4
    <3>3. QED BY <1>11, <2>3, <3>1, <3>2
  <2>4. CASE m # c
    <3>1. u.color_[m] = w.color_[m] /\ f[m] = h[m] BY <1>4, <1>11, <2>2, <2>4
    <3>2. h[m] = (IF w.child_[d][m] = Nil THEN 0 ELSE h[w.child_[d][m]])
                 + (IF w.color_[m] = "red" THEN 0 ELSE 1)
      BY <1>1, <2>2 DEF Even
    <3>3. CASE w.child_[d][m] = n
      <4>1. u.child_[d][m] = c BY <1>5, <2>2, <3>3
      <4>2. QED BY <1>1, <1>2, <1>9, <1>11, <3>1, <3>2, <3>3, <4>1
    <3>4. CASE w.child_[d][m] # n
      <4>1. u.child_[d][m] = w.child_[d][m] /\ w.child_[d][m] # c BY <1>5, <1>12, <2>2, <3>4
      <4>2. w.child_[d][m] # Nil => w.child_[d][m] \in Nodes BY <1>1, <1>3, <2>2
      <4>3. QED BY <1>11, <3>1, <3>2, <4>1, <4>2
    <3>5. QED BY <3>3, <3>4
  <2>5. QED BY <2>3, <2>4
<1>14. NoTwoRed(u, B, Nil)
  <2>1. u.color_[u.root_] = "black"
    <3>1. w.root_ \in A /\ w.color_[w.root_] = "black" BY DEF NoTwoRed, Shape, Top
    <3>2. QED BY <1>1, <1>2, <1>4, <1>6, <3>1
  <2>2. SUFFICES ASSUME NEW m \in B, NEW d \in Sides, u.color_[m] = "red"
                 PROVE  u.child_[d][m] \in {Nil, Nil} \/ u.color_[u.child_[d][m]] = "black"
    BY <2>1 DEF NoTwoRed
  <2>3. m \in A /\ m # n /\ m \in Nodes /\ m # c /\ w.color_[m] = "red" BY <1>1, <1>4, <2>2
  <2>4. CASE w.child_[d][m] = n BY <1>2, <1>4, <1>5, <2>3, <2>4
  <2>5. CASE w.child_[d][m] # n
    <3>1. u.child_[d][m] = w.child_[d][m] BY <1>5, <2>3, <2>5
    <3>2. w.child_[d][m] = Nil \/ w.color_[w.child_[d][m]] = "black" BY <2>3 DEF NoTwoRed
    <3>3. w.child_[d][m] # Nil => w.child_[d][m] \in Nodes BY <1>1, <1>3, <2>3
    <3>4. QED BY <1>4, <3>1, <3>2, <3>3
  <2>6. QED BY <2>4, <2>5
<1>15. Balance(u, B, K - 1, q, Nil)
  <2> HIDE DEF q
  <2>1. QED BY <1>8, <1>13, <1>14 DEF Balance
<1>16. Tidy(u, B \cup {n})
  <2>1. B \cup {n} = A OBVIOUS
  <2>2. w.parent_[n] = Nil \/ w.parent_[n] \in A BY ParentFacts
  <2>3. \A m \in Nodes \ A : m # w.parent_[n] /\ m # c BY <1>1, <1>2, <2>2
  <2>4. Tidy(u, A) BY <1>4, <2>3 DEF Tidy
  <2>5. QED BY <2>1, <2>4
<1>17. Ends(u, B, K - 1, q)
  <2>1. \A m \in A : q[m] = IF pos[m] > pos[n] THEN pos[m] - 1 ELSE pos[m]
    BY <1>1 DEF PosWithout
  <2>2. \A m \in A : pos[m] \in Int /\ 1 <= pos[m] /\ pos[m] <= K
    BY <1>1 DEF Shape, Placed
  <2>3. edge["left"][c] = pos[c] - 1 /\ edge["right"][c] = pos[c] + 1
    BY <1>2, <1>10, <1>1 DEF Shape, Gapless
  <2>4. /\ s = "left" => pos[c] = pos[n] - 1
        /\ s = "right" => pos[c] = pos[n] + 1
    BY <1>1, <1>2, <2>2, <2>3 DEF Opposite
  <2> HIDE DEF q
  <2>5. u.min_ \in B /\ q[u.min_] = 1
    <3>1. CASE w.min_ = n
      <4>1. pos[n] = 1 BY <3>1 DEF EndsBut
      <4>2. s = "right" BY <1>1, <1>2, <2>2, <2>4, <4>1
      <4>3. u.min_ = c /\ pos[c] = 2 BY <1>4, <2>4, <3>1, <4>1, <4>2
      <4>4. QED BY <1>2, <2>1, <4>1, <4>3
    <3>2. CASE w.min_ # n BY <1>4, <3>2 DEF EndsBut, q
    <3>3. QED BY <3>1, <3>2
  <2>6. u.max_ \in B /\ q[u.max_] = K - 1
    <3>1. CASE w.max_ = n
      <4>1. pos[n] = K BY <3>1 DEF EndsBut
      <4>2. s = "left" BY <1>1, <1>2, <2>2, <2>4, <4>1
      <4>3. u.max_ = c /\ pos[c] = K - 1 BY <1>4, <2>4, <3>1, <4>1, <4>2
      <4>4. QED BY <1>1, <1>2, <2>1, <4>1, <4>3
    <3>2. CASE w.max_ # n BY <1>4, <3>2 DEF EndsBut, q
    <3>3. QED BY <3>1, <3>2
  <2>7. QED BY <1>2, <2>5, <2>6 DEF Ends
<1>18. QED BY <1>4, <1>15, <1>16, <1>17 DEF Rid

------------------------------------------------------------------------------
(* Erase: a side that lacks a black node *)

\* Under n a black node is missing; nothing else is wrong.  y is n when this is the
\* leaf about to be cut off.
Short(t, A, K, pos, edge, h, n, y) ==
    /\ Shape(t, A, K, pos, edge) /\ Even(t, A, h, n, y) /\ NoTwoRed(t, A, Nil)
    /\ n \in A /\ n # t.root_ /\ t.color_[n] = "black" /\ y \in {Nil, n}

Black(t, n) == IF t.color_[n] = "red" THEN 0 ELSE 1

\* There is a brother, and it is one black node higher.
LEMMA BrotherFacts ==
    ASSUME NEW t, NEW A, NEW K, NEW pos, NEW edge, NEW h, NEW n, NEW y,
           Short(t, A, K, pos, edge, h, n, y),
           NEW p, p = t.parent_[n], NEW b, b = GetBrother(t, n),
           NEW s, s = Side(t, n), NEW o, o = Opposite(s)
    PROVE  /\ s \in Sides /\ o \in Sides /\ o # s /\ (\A d \in Sides : d = s \/ d = o)
           /\ p \in A /\ p # n /\ p # Nil /\ t.child_[s][p] = n
           /\ b \in A /\ b # n /\ b # p /\ b # Nil /\ b # t.root_
           /\ b = t.child_[o][p] /\ t.parent_[b] = p
           /\ h \in [Nodes -> Nat] /\ h[n] \in Nat /\ h[b] = h[n] + 1 /\ h[p] = h[b] + Black(t, p)
<1>1. /\ Shape(t, A, K, pos, edge) /\ Even(t, A, h, n, y) /\ y \in {Nil, n}
      /\ n \in A /\ n # t.root_
  BY DEF Short
<1>2. A \subseteq Nodes /\ Nil \notin Nodes /\ n # Nil /\ n \in Nodes BY <1>1, TreeAssumption DEF Shape
<1>3. p \in A /\ p # n /\ p # Nil /\ s \in Sides /\ t.child_[s][p] = n BY <1>1, <1>2, ParentFacts
<1>4. o \in Sides /\ o # s /\ (\A d \in Sides : d = s \/ d = o) BY <1>3 DEF Opposite, Sides
<1>5. b = t.child_[o][p] BY <1>1, <1>2, <1>3, ChildFacts
<1>6. h \in [Nodes -> Nat] /\ h[n] \in Nat BY <1>1, <1>2 DEF Even
<1>7. p \in A \ {y} BY <1>1, <1>3
<1>8. h[p] = h[n] + 1 + Black(t, p)
  <2>1. h[p] = (IF t.child_[s][p] = Nil THEN 0
                ELSE IF t.child_[s][p] = n THEN h[t.child_[s][p]] + 1
                ELSE h[t.child_[s][p]]) + Black(t, p)
    BY <1>1, <1>3, <1>7 DEF Even, Black
  <2>2. QED BY <1>2, <1>3, <2>1
<1>9. b # Nil => b # n /\ b \in A /\ b # p /\ b # t.root_ /\ t.parent_[b] = p
  <2>1. SUFFICES ASSUME b # Nil PROVE b # n /\ b \in A /\ b # p /\ b # t.root_ /\ t.parent_[b] = p
    OBVIOUS
  <2>2. b \in A /\ b # p /\ b # t.root_ /\ t.parent_[b] = p /\ Side(t, b) = o
    BY <1>1, <1>3, <1>4, <1>5, <2>1, ChildFacts
  <2>3. b # n BY <1>4, <2>2
  <2>4. QED BY <2>2, <2>3
<1>10. h[p] = (IF b = Nil THEN 0 ELSE h[b]) + Black(t, p)
  <2>1. h[p] = (IF t.child_[o][p] = Nil THEN 0
                ELSE IF t.child_[o][p] = n THEN h[t.child_[o][p]] + 1
                ELSE h[t.child_[o][p]]) + Black(t, p)
    BY <1>1, <1>4, <1>7 DEF Even, Black
  <2>2. QED BY <1>5, <1>9, <2>1
<1>11. Black(t, p) \in {0, 1} BY DEF Black
<1>12. b # Nil BY <1>6, <1>8, <1>10, <1>11
<1>13. h[b] \in Nat BY <1>2, <1>6, <1>9, <1>12
<1>14. h[b] = h[n] + 1 BY <1>6, <1>8, <1>10, <1>11, <1>12, <1>13
<1>15. QED BY <1>3, <1>4, <1>5, <1>6, <1>9, <1>10, <1>12, <1>14

\* The heights of a node and its child, with c missing none.
LEMMA StepDown ==
    ASSUME NEW t, NEW A, NEW K, NEW pos, NEW edge, Shape(t, A, K, pos, edge),
           NEW h, NEW x, NEW y, Even(t, A, h, x, y), NEW m \in A \ {y}, NEW d \in Sides
    PROVE  /\ h[m] \in Nat /\ (t.child_[d][m] # Nil => t.child_[d][m] \in A /\ h[t.child_[d][m]] \in Nat)
           /\ h[m] = (IF t.child_[d][m] = Nil THEN 0
                      ELSE IF t.child_[d][m] = x THEN h[t.child_[d][m]] + 1
                      ELSE h[t.child_[d][m]]) + Black(t, m)
<1>1. h \in [Nodes -> Nat] /\ A \subseteq Nodes BY DEF Even, Shape
<1>2. t.child_[d][m] # Nil => t.child_[d][m] \in A BY ChildFacts
<1>3. h[m] = (IF t.child_[d][m] = Nil THEN 0
              ELSE IF t.child_[d][m] = x THEN h[t.child_[d][m]] + 1
              ELSE h[t.child_[d][m]]) + Black(t, m)
  BY DEF Even, Black
<1>4. QED BY <1>1, <1>2, <1>3

\* A red brother: after the turn the brother is a black child of his, and the
\* parent is red.
LEMMA RedBrotherKeeps ==
    ASSUME NEW t, NEW A, NEW K, NEW pos, NEW edge, NEW h, NEW n, NEW y,
           Short(t, A, K, pos, edge, h, n, y), IsRed(t, GetBrother(t, n)),
           NEW B \in SUBSET Nodes, A \subseteq B, Tidy(t, B), NEW u, u = WithBlackBrother(t, n)
    PROVE  /\ \E e, f : Short(u, A, K, pos, e, f, n, y) /\ f[n] = h[n]
           /\ u.child_["left"][n] = t.child_["left"][n] /\ u.child_["right"][n] = t.child_["right"][n]
           /\ SameFrame(t, u) /\ Tidy(u, B)
           /\ IsRed(u, u.parent_[n]) /\ ~IsRed(u, GetBrother(u, n))
<1> DEFINE p == t.parent_[n]
           b == GetBrother(t, n)
           s == Side(t, n)
           o == Opposite(s)
           z == Paint(t, p, "red")
           v == Paint(z, b, "black")
           r == Rotate(v, p, s)
           w == t.child_[s][b]
<1>1. /\ Shape(t, A, K, pos, edge) /\ Even(t, A, h, n, y) /\ NoTwoRed(t, A, Nil)
      /\ n \in A /\ n # t.root_ /\ t.color_[n] = "black" /\ y \in {Nil, n}
  BY DEF Short
<1>2. /\ s \in Sides /\ o \in Sides /\ o # s /\ (\A d \in Sides : d = s \/ d = o)
      /\ p \in A /\ p # n /\ p # Nil /\ t.child_[s][p] = n
      /\ b \in A /\ b # n /\ b # p /\ b # Nil /\ b # t.root_
      /\ b = t.child_[o][p] /\ t.parent_[b] = p
      /\ h \in [Nodes -> Nat] /\ h[n] \in Nat /\ h[b] = h[n] + 1 /\ h[p] = h[b] + Black(t, p)
  BY BrotherFacts
<1>3. t.color_[b] = "red" BY DEF IsRed
<1>4. /\ t \in Trees /\ A \in SUBSET Nodes /\ Nil \notin A /\ (\A m \in A : m \in Nodes)
      /\ "red" \in Colors /\ "black" \in Colors /\ n # Nil
  BY <1>1, TreeAssumption DEF Shape, Colors
<1>5. u = r BY DEF WithBlackBrother
<1> HIDE DEF p, b, s, o
<1>6. t.color_[p] # "red" BY <1>1, <1>2, <1>3 DEF NoTwoRed
<1>7. /\ z \in Trees /\ z.root_ = t.root_ /\ z.child_ = t.child_ /\ z.parent_ = t.parent_
      /\ SameFrame(t, z)
      /\ \A m \in Nodes : z.color_[m] = IF m = p THEN "red" ELSE t.color_[m]
  BY <1>2, <1>4, PaintFields DEF SameFrame
<1>8. Tidy(z, B) BY <1>2, <1>4, PaintTidy
<1> HIDE DEF z
<1>9. /\ v \in Trees /\ v.root_ = z.root_ /\ v.child_ = z.child_ /\ v.parent_ = z.parent_
      /\ SameFrame(z, v)
      /\ \A m \in Nodes : v.color_[m] = IF m = b THEN "black" ELSE z.color_[m]
  <2>1. z \in Trees /\ b \in Nodes /\ "black" \in Colors BY <1>2, <1>4, <1>7
  <2>2. QED BY <2>1, PaintFields DEF SameFrame
<1>10. Tidy(v, B) BY <1>2, <1>4, <1>7, <1>8, PaintTidy
<1> HIDE DEF v
<1>11. v.root_ = t.root_ /\ v.child_ = t.child_ /\ v.parent_ = t.parent_ /\ SameFrame(t, v)
  BY <1>7, <1>9 DEF SameFrame
<1>12. Shape(v, A, K, pos, edge) BY <1>1, <1>9, <1>11, SameLinks
<1>13. v.child_[o][p] = b BY <1>2, <1>11
<1>14. /\ Rotation(v, r, A, p, b, s, o)
       /\ Shape(r, A, K, pos, RotatedEdge(v, p, s, pos, edge))
  BY <1>2, <1>12, <1>13, RotateLinks
<1>15. Tidy(r, B) BY <1>2, <1>4, <1>10, <1>12, <1>13, RotateTidy
<1> HIDE DEF r
<1>16. /\ SameFrame(t, r)
       /\ r.root_ = IF t.root_ = p THEN b ELSE t.root_
       /\ r.child_[s][b] = p /\ r.child_[o][b] = t.child_[o][b]
       /\ r.child_[o][p] = w /\ r.child_[s][p] = n
       /\ \A m \in A \ {p, b}, d \in Sides :
            /\ t.child_[d][m] # b
            /\ r.child_[d][m] = IF t.child_[d][m] = p THEN b ELSE t.child_[d][m]
  BY <1>2, <1>11, <1>14 DEF Rotation, SameFrame
<1>17. \A m \in Nodes : r.color_[m] = IF m = b THEN "black" ELSE IF m = p THEN "red" ELSE t.color_[m]
  <2>1. r.color_ = v.color_ BY <1>14 DEF Rotation
  <2>2. QED BY <1>7, <1>9, <2>1
<1>18. b \in A \ {y} /\ p \in A \ {y} BY <1>1, <1>2
<1>19. \A d \in Sides : /\ t.child_[d][b] \in A /\ t.child_[d][b] # Nil /\ t.child_[d][b] # n
                        /\ t.child_[d][b] # p /\ t.child_[d][b] # b
                        /\ h[t.child_[d][b]] = h[b] /\ h[b] \in Nat
                        /\ t.color_[t.child_[d][b]] = "black"
  <2>1. SUFFICES ASSUME NEW d \in Sides
                 PROVE  /\ t.child_[d][b] \in A /\ t.child_[d][b] # Nil /\ t.child_[d][b] # n
                        /\ t.child_[d][b] # p /\ t.child_[d][b] # b
                        /\ h[t.child_[d][b]] = h[b] /\ h[b] \in Nat
                        /\ t.color_[t.child_[d][b]] = "black"
    OBVIOUS
  <2> DEFINE k == t.child_[d][b]
  <2>2. /\ h[b] \in Nat /\ (k # Nil => k \in A /\ h[k] \in Nat)
        /\ h[b] = (IF k = Nil THEN 0 ELSE IF k = n THEN h[k] + 1 ELSE h[k]) + Black(t, b)
    BY <1>1, <1>18, StepDown
  <2>3. Black(t, b) = 0 BY <1>3 DEF Black
  <2>4. k # Nil => t.parent_[k] = b /\ k # b BY <1>1, <1>2, ChildFacts
  <2>5. t.parent_[n] = p BY DEF p
  <2>6. k # Nil /\ k # n BY <1>2, <2>2, <2>3, <2>4, <2>5
  <2>7. k # p
    <3>1. SUFFICES ASSUME k = p PROVE FALSE OBVIOUS
    <3>2. Width(edge, p) < Width(edge, b) BY <1>1, <1>2, <2>6, <3>1, Narrower
    <3>3. Width(edge, b) < Width(edge, p) BY <1>1, <1>2, Narrower
    <3>4. Width(edge, p) \in 2..(K + 1) /\ Width(edge, b) \in 2..(K + 1) /\ K \in Nat
      BY <1>1, <1>2, Narrower DEF Shape
    <3>5. QED BY <3>2, <3>3, <3>4
  <2>8. t.color_[k] = "black" BY <1>1, <1>2, <1>3, <2>6 DEF NoTwoRed
  <2>9. QED BY <2>2, <2>3, <2>4, <2>6, <2>7, <2>8
<1>20. w \in A /\ w # Nil /\ w # n /\ w # p /\ w # b /\ h[w] = h[b] /\ t.color_[w] = "black"
  BY <1>2, <1>19
<1> HIDE DEF w
<1> DEFINE f == [h EXCEPT ![p] = h[b], ![b] = h[p]]
<1>21. /\ f \in [Nodes -> Nat] /\ f[p] = h[b] /\ f[b] = h[p]
       /\ \A m \in Nodes : m # p /\ m # b => f[m] = h[m]
  BY <1>2, <1>4
<1> HIDE DEF f
<1>22. h[p] = h[b] + 1 /\ h[b] \in Nat /\ h[b] = h[n] + 1
  BY <1>2, <1>6, <1>19 DEF Black
<1>23. Even(r, A, f, n, y)
  <2>1. SUFFICES ASSUME NEW m \in A \ {y}, NEW d \in Sides
                 PROVE  f[m] = (IF r.child_[d][m] = Nil THEN 0
                                ELSE IF r.child_[d][m] = n THEN f[r.child_[d][m]] + 1
                                ELSE f[r.child_[d][m]])
                               + (IF r.color_[m] = "red" THEN 0 ELSE 1)
    BY <1>21 DEF Even
  <2>2. CASE m = p
    <3>1. r.color_[p] = "red" BY <1>2, <1>4, <1>17
    <3>2. CASE d = s
      <4>1. f[n] = h[n] BY <1>1, <1>2, <1>4, <1>21
      <4>2. r.child_[d][m] = n BY <1>16, <2>2, <3>2
      <4>3. QED BY <1>4, <1>21, <1>22, <2>2, <3>1, <4>1, <4>2
    <3>3. CASE d = o BY <1>2, <1>4, <1>16, <1>20, <1>21, <1>22, <2>2, <3>1, <3>3
    <3>4. QED BY <1>2, <3>2, <3>3
  <2>3. CASE m = b
    <3>1. r.color_[b] = "black" BY <1>2, <1>4, <1>17
    <3>2. CASE d = s BY <1>2, <1>4, <1>16, <1>21, <1>22, <2>3, <3>1, <3>2
    <3>3. CASE d = o
      <4> DEFINE k == t.child_[o][b]
      <4>1. k \in A /\ k # Nil /\ k # n /\ k # p /\ k # b /\ h[k] = h[b] BY <1>2, <1>19
      <4>2. r.child_[o][b] = k BY <1>16
      <4>3. f[k] = h[b] BY <1>4, <1>21, <4>1
      <4> HIDE DEF k
      <4>4. QED BY <1>21, <1>22, <2>3, <3>1, <3>3, <4>1, <4>2, <4>3
    <3>4. QED BY <1>2, <3>2, <3>3
  <2>4. CASE m # p /\ m # b
    <3>1. /\ t.child_[d][m] # b
          /\ r.child_[d][m] = IF t.child_[d][m] = p THEN b ELSE t.child_[d][m]
      BY <1>16, <2>4
    <3>2. /\ t.child_[d][m] # Nil => t.child_[d][m] \in A
          /\ h[m] = (IF t.child_[d][m] = Nil THEN 0
                     ELSE IF t.child_[d][m] = n THEN h[t.child_[d][m]] + 1
                     ELSE h[t.child_[d][m]]) + Black(t, m)
      BY <1>1, StepDown
    <3>3. f[m] = h[m] /\ r.color_[m] = t.color_[m] BY <1>4, <1>17, <1>21, <2>4
    <3>4. CASE t.child_[d][m] = p BY <1>2, <1>21, <3>1, <3>2, <3>3, <3>4 DEF Black
    <3>5. CASE t.child_[d][m] # p
      <4>1. t.child_[d][m] # Nil => f[t.child_[d][m]] = h[t.child_[d][m]]
        BY <1>4, <1>21, <3>1, <3>2, <3>5
      <4>2. QED BY <3>1, <3>2, <3>3, <3>5, <4>1 DEF Black
    <3>6. QED BY <3>4, <3>5
  <2>5. QED BY <2>2, <2>3, <2>4
<1>24. NoTwoRed(r, A, Nil)
  <2>1. r.color_[r.root_] = "black"
    <3>1. t.root_ \in A /\ t.color_[t.root_] = "black" BY <1>1 DEF NoTwoRed, Shape, Top
    <3>2. QED BY <1>2, <1>4, <1>16, <1>17, <3>1
  <2>2. SUFFICES ASSUME NEW m \in A, NEW d \in Sides, r.color_[m] = "red"
                 PROVE  r.child_[d][m] \in {Nil, Nil} \/ r.color_[r.child_[d][m]] = "black"
    BY <2>1 DEF NoTwoRed
  <2>3. m # b BY <1>4, <1>17, <2>2
  <2>4. CASE m = p
    <3>1. CASE d = s BY <1>1, <1>2, <1>4, <1>16, <1>17, <2>4, <3>1
    <3>2. CASE d = o BY <1>2, <1>4, <1>16, <1>17, <1>20, <2>4, <3>2
    <3>3. QED BY <1>2, <3>1, <3>2
  <2>5. CASE m # p
    <3>1. t.color_[m] = "red" BY <1>4, <1>17, <2>2, <2>3, <2>5
    <3>2. t.child_[d][m] = Nil \/ t.color_[t.child_[d][m]] = "black" BY <1>1, <3>1 DEF NoTwoRed
    <3>3. t.child_[d][m] # Nil => t.child_[d][m] \in Nodes BY <1>1, ChildFacts
    <3>4. QED BY <1>2, <1>4, <1>16, <1>17, <2>3, <2>5, <3>2, <3>3
  <2>6. QED BY <2>4, <2>5
<1>25. /\ r.color_[n] = "black" /\ n # r.root_ /\ f[n] = h[n]
       /\ \A d \in Sides : r.child_[d][n] = t.child_[d][n]
  <2>1. r.color_[n] = "black" /\ n # r.root_ /\ f[n] = h[n]
    BY <1>1, <1>2, <1>4, <1>16, <1>17, <1>21
  <2>2. ASSUME NEW d \in Sides PROVE r.child_[d][n] = t.child_[d][n]
    <3>1. t.child_[d][n] # p
      <4>1. SUFFICES ASSUME t.child_[d][n] = p PROVE FALSE OBVIOUS
      <4>2. Width(edge, p) < Width(edge, n) BY <1>1, <1>2, <4>1, Narrower
      <4>3. Width(edge, n) < Width(edge, p) BY <1>1, <1>2, Narrower DEF p
      <4>4. Width(edge, p) \in 2..(K + 1) /\ Width(edge, n) \in 2..(K + 1) /\ K \in Nat
        BY <1>1, <1>2, Narrower DEF Shape
      <4>5. QED BY <4>2, <4>3, <4>4
    <3>2. QED BY <1>1, <1>2, <1>16, <3>1
  <2>3. QED BY <2>1, <2>2
<1>26. Short(r, A, K, pos, RotatedEdge(v, p, s, pos, edge), f, n, y)
  BY <1>1, <1>14, <1>23, <1>24, <1>25 DEF Short
<1>27. IsRed(r, r.parent_[n]) /\ ~IsRed(r, GetBrother(r, n))
  <2>1. r.parent_[n] = p /\ GetBrother(r, n) = r.child_[Opposite(s)][p]
    BY <1>2, <1>4, <1>14, <1>16, ChildFacts
  <2>2. GetBrother(r, n) = w BY <1>16, <2>1 DEF o
  <2>3. r.color_[p] = "red" /\ r.color_[w] = "black" BY <1>2, <1>4, <1>17, <1>20
  <2>4. QED BY <1>2, <2>1, <2>2, <2>3 DEF IsRed
<1>28. "left" \in Sides /\ "right" \in Sides BY DEF Sides
<1>29. QED BY <1>5, <1>15, <1>16, <1>25, <1>26, <1>27, <1>28

\* A black brother without red children becomes red: the shortage is made good if
\* the parent was red, and is that of the parent otherwise.
LEMMA PaintBrotherKeeps ==
    ASSUME NEW t, NEW A, NEW K, NEW pos, NEW edge, NEW h, NEW n, NEW y,
           Short(t, A, K, pos, edge, h, n, y),
           ~IsRed(t, GetBrother(t, n)), RedNephews(t, n) = {},
           NEW B \in SUBSET Nodes, A \subseteq B, Tidy(t, B), NEW u, u = PaintBrother(t, n),
           NEW x, x = IF IsRed(t, t.parent_[n]) THEN Nil ELSE t.parent_[n]
    PROVE  /\ SameFrame(t, u) /\ Tidy(u, B) /\ Shape(u, A, K, pos, edge)
           /\ \E f : Even(u, A, f, x, y) /\ f[n] = h[n]
           /\ NoTwoRed(u, A, Nil)
           /\ t.parent_[n] \in A /\ u.color_[t.parent_[n]] = "black"
           /\ u.child_ = t.child_ /\ u.parent_ = t.parent_ /\ u.root_ = t.root_
<1> DEFINE p == t.parent_[n]
           b == GetBrother(t, n)
           s == Side(t, n)
           o == Opposite(s)
           z == Paint(t, b, "red")
           v == Paint(z, p, "black")
<1>1. /\ Shape(t, A, K, pos, edge) /\ Even(t, A, h, n, y) /\ NoTwoRed(t, A, Nil)
      /\ n \in A /\ n # t.root_ /\ t.color_[n] = "black" /\ y \in {Nil, n}
  BY DEF Short
<1>2. /\ s \in Sides /\ o \in Sides /\ o # s /\ (\A d \in Sides : d = s \/ d = o)
      /\ p \in A /\ p # n /\ p # Nil /\ t.child_[s][p] = n
      /\ b \in A /\ b # n /\ b # p /\ b # Nil /\ b # t.root_
      /\ b = t.child_[o][p] /\ t.parent_[b] = p
      /\ h \in [Nodes -> Nat] /\ h[n] \in Nat /\ h[b] = h[n] + 1 /\ h[p] = h[b] + Black(t, p)
  BY BrotherFacts
<1>3. t.color_[b] # "red" BY <1>2 DEF IsRed
<1>4. /\ t \in Trees /\ A \in SUBSET Nodes /\ Nil \notin A /\ (\A m \in A : m \in Nodes)
      /\ "red" \in Colors /\ "black" \in Colors /\ n # Nil /\ b \in Nodes /\ p \in Nodes
  BY <1>1, <1>2, TreeAssumption DEF Shape, Colors
<1>5. u = v BY DEF PaintBrother
<1>6. \A d \in Sides : ~IsRed(t, t.child_[d][b]) BY DEF RedNephews
<1>7. x = IF t.color_[p] = "red" THEN Nil ELSE p BY <1>2 DEF IsRed
<1> HIDE DEF p, b, s, o
<1>8. /\ z \in Trees /\ z.root_ = t.root_ /\ z.child_ = t.child_ /\ z.parent_ = t.parent_
      /\ SameFrame(t, z)
      /\ \A m \in Nodes : z.color_[m] = IF m = b THEN "red" ELSE t.color_[m]
  BY <1>4, PaintFields DEF SameFrame
<1>9. Tidy(z, B) BY <1>2, <1>4, PaintTidy
<1> HIDE DEF z
<1>10. /\ v \in Trees /\ v.root_ = z.root_ /\ v.child_ = z.child_ /\ v.parent_ = z.parent_
       /\ SameFrame(z, v)
       /\ \A m \in Nodes : v.color_[m] = IF m = p THEN "black" ELSE z.color_[m]
  <2>1. z \in Trees /\ p \in Nodes /\ "black" \in Colors BY <1>4, <1>8
  <2>2. QED BY <2>1, PaintFields DEF SameFrame
<1>11. Tidy(v, B) BY <1>2, <1>4, <1>8, <1>9, PaintTidy
<1> HIDE DEF v
<1>12. /\ u.root_ = t.root_ /\ u.child_ = t.child_ /\ u.parent_ = t.parent_ /\ SameFrame(t, u)
       /\ \A m \in Nodes : u.color_[m] = IF m = p THEN "black" ELSE IF m = b THEN "red" ELSE t.color_[m]
       /\ u \in Trees
  BY <1>5, <1>8, <1>10 DEF SameFrame
<1>13. Shape(u, A, K, pos, edge) BY <1>1, <1>12, SameLinks
<1>14. \A m \in A, d \in Sides : t.child_[d][m] # Nil =>
        /\ t.child_[d][m] \in A /\ t.parent_[t.child_[d][m]] = m
  BY <1>1, ChildFacts
<1>15. h[b] \in Nat /\ h[p] \in Nat BY <1>2, <1>4
<1> DEFINE f == [h EXCEPT ![b] = h[n], ![p] = h[b]]
<1>16. /\ f \in [Nodes -> Nat] /\ f[b] = h[n] /\ f[p] = h[b]
       /\ \A m \in Nodes : m # p /\ m # b => f[m] = h[m]
  BY <1>2, <1>4, <1>15
<1> HIDE DEF f
<1>17. f[n] = h[n] BY <1>1, <1>2, <1>4, <1>16
<1>18. x # n /\ x # b /\ (x = p \/ x = Nil) BY <1>2, <1>4, <1>7
<1>19. Even(u, A, f, x, y)
  <2>1. SUFFICES ASSUME NEW m \in A \ {y}, NEW d \in Sides
                 PROVE  f[m] = (IF t.child_[d][m] = Nil THEN 0
                                ELSE IF t.child_[d][m] = x THEN f[t.child_[d][m]] + 1
                                ELSE f[t.child_[d][m]])
                               + (IF u.color_[m] = "red" THEN 0 ELSE 1)
    BY <1>12, <1>16 DEF Even
  <2> DEFINE k == t.child_[d][m]
  <2>2. /\ k # Nil => k \in A /\ k \in Nodes /\ t.parent_[k] = m /\ h[k] \in Nat
        /\ h[m] = (IF k = Nil THEN 0 ELSE IF k = n THEN h[k] + 1 ELSE h[k]) + Black(t, m)
    BY <1>1, <1>4, <1>14, StepDown
  <2>3. t.parent_[n] = p BY DEF p
  <2>4. CASE m = p
    <3>1. u.color_[p] = "black" BY <1>4, <1>12
    <3>2. CASE d = s
      <4>1. k = n BY <1>2, <2>4, <3>2
      <4>2. QED BY <1>2, <1>4, <1>16, <1>17, <1>18, <2>4, <3>1, <4>1
    <3>3. CASE d = o
      <4>1. k = b BY <1>2, <2>4, <3>3
      <4>2. QED BY <1>2, <1>16, <1>18, <2>4, <3>1, <4>1
    <3>4. QED BY <1>2, <3>2, <3>3
  <2>5. CASE m = b
    <3>1. u.color_[b] = "red" BY <1>2, <1>4, <1>12
    <3>2. h[b] = (IF k = Nil THEN 0 ELSE h[k]) + 1
      <4>1. Black(t, b) = 1 BY <1>3 DEF Black
      <4>2. k # n \/ k = Nil BY <1>2, <2>2, <2>3, <2>5
      <4>3. QED BY <1>4, <2>2, <2>5, <4>1, <4>2
    <3>3. h[n] = IF k = Nil THEN 0 ELSE h[k] BY <1>2, <1>15, <2>2, <3>2
    <3>4. k # Nil => k # b /\ k # p
      <4>1. SUFFICES ASSUME k # Nil PROVE k # b /\ k # p OBVIOUS
      <4>2. k # b BY <1>2, <2>2, <2>5, <4>1
      <4>3. k # p
        <5>1. SUFFICES ASSUME k = p PROVE FALSE OBVIOUS
        <5>2. Width(edge, p) < Width(edge, b) BY <1>1, <1>2, <2>5, <4>1, <5>1, Narrower
        <5>3. Width(edge, b) < Width(edge, p) BY <1>1, <1>2, Narrower
        <5>4. Width(edge, p) \in 2..(K + 1) /\ Width(edge, b) \in 2..(K + 1) /\ K \in Nat
          BY <1>1, <1>2, Narrower DEF Shape
        <5>5. QED BY <5>2, <5>3, <5>4
      <4>4. QED BY <4>2, <4>3
    <3>5. k # Nil => f[k] = h[k] /\ k # x BY <1>4, <1>16, <1>18, <2>2, <3>4
    <3> HIDE DEF k
    <3>6. f[b] = (IF k = Nil THEN 0 ELSE IF k = x THEN f[k] + 1 ELSE f[k]) + 0
      BY <1>2, <1>16, <3>3, <3>5
    <3>7. QED BY <2>5, <3>1, <3>6 DEF k
  <2>6. CASE m # p /\ m # b
    <3>1. f[m] = h[m] /\ u.color_[m] = t.color_[m] BY <1>4, <1>12, <1>16, <2>6
    <3>2. k # Nil => k # n /\ k # b BY <1>2, <2>2, <2>3, <2>6
    <3>3. CASE k = p
      <4>1. h[m] = h[p] + Black(t, m) BY <1>2, <2>2, <3>3
      <4>2. h[p] = (IF p = x THEN f[p] + 1 ELSE f[p])
        BY <1>2, <1>7, <1>15, <1>16 DEF Black
      <4>3. QED BY <1>2, <3>1, <3>3, <4>1, <4>2 DEF Black
    <3>4. CASE k # p
      <4>1. k # Nil => k # x /\ f[k] = h[k] BY <1>4, <1>16, <1>18, <2>2, <3>2, <3>4
      <4> HIDE DEF k
      <4>2. h[m] = (IF k = Nil THEN 0 ELSE h[k]) + Black(t, m) BY <2>2, <3>2
      <4>3. f[m] = (IF k = Nil THEN 0 ELSE IF k = x THEN f[k] + 1 ELSE f[k]) + Black(t, m)
        BY <3>1, <4>1, <4>2
      <4>4. QED BY <3>1, <4>3 DEF k, Black
    <3>5. QED BY <3>3, <3>4
  <2>7. QED BY <2>4, <2>5, <2>6
<1>20. NoTwoRed(u, A, Nil)
  <2>1. u.color_[u.root_] = "black"
    <3>1. t.root_ \in A /\ t.color_[t.root_] = "black" BY <1>1 DEF NoTwoRed, Shape, Top
    <3>2. QED BY <1>2, <1>4, <1>12, <3>1
  <2>2. SUFFICES ASSUME NEW m \in A, NEW d \in Sides, u.color_[m] = "red"
                 PROVE  t.child_[d][m] \in {Nil, Nil} \/ u.color_[t.child_[d][m]] = "black"
    BY <1>12, <2>1 DEF NoTwoRed
  <2>3. m # p BY <1>4, <1>12, <2>2
  <2>4. CASE m = b
    <3>1. t.child_[d][b] = Nil \/ t.color_[t.child_[d][b]] # "red" BY <1>6 DEF IsRed
    <3>2. t.child_[d][b] # Nil => t.child_[d][b] \in Nodes /\ t.child_[d][b] # b
      BY <1>1, <1>2, ChildFacts
    <3>3. t.child_[d][b] # Nil => t.color_[t.child_[d][b]] = "black"
      BY <1>4, <3>1, <3>2 DEF Trees, Colors
    <3>4. QED BY <1>12, <2>4, <3>2, <3>3
  <2>5. CASE m # b
    <3>1. t.color_[m] = "red" BY <1>4, <1>12, <2>2, <2>3, <2>5
    <3>2. t.child_[d][m] = Nil \/ t.color_[t.child_[d][m]] = "black" BY <1>1, <3>1 DEF NoTwoRed
    <3>3. t.child_[d][m] # Nil => t.child_[d][m] \in Nodes /\ t.child_[d][m] # b
      BY <1>2, <1>4, <1>14, <2>3
    <3>4. QED BY <1>12, <3>2, <3>3
  <2>6. QED BY <2>4, <2>5
<1>21. u.color_[p] = "black" BY <1>4, <1>12
<1>22. QED BY <1>2, <1>5, <1>11, <1>12, <1>13, <1>17, <1>19, <1>20, <1>21 DEF p

\* The height of the side d of m.
Under(t, h, m, d) == IF t.child_[d][m] = Nil THEN 0 ELSE h[t.child_[d][m]]

\* The black brother b of n under p has a red child k.
Nephew(t, A, h, n, y, p, b, k, s, o) ==
    /\ s \in Sides /\ o \in Sides /\ o # s /\ (\A d \in Sides : d = s \/ d = o)
    /\ n \in A /\ p \in A /\ b \in A /\ k \in A
    /\ p # n /\ b # n /\ b # p /\ k # n /\ k # p /\ k # b /\ y \in {Nil, n} /\ n # t.root_
    /\ b # t.root_ /\ t.child_[s][p] = n /\ t.child_[o][p] = b /\ t.parent_[n] = p
    /\ t.color_[b] = "black" /\ t.color_[k] = "red" /\ t.color_[n] = "black"
    /\ h \in [Nodes -> Nat] /\ h[b] = h[n] + 1 /\ h[p] = h[b] + Black(t, p) /\ h[k] = h[n]
    /\ \A d \in Sides :
        /\ Under(t, h, b, d) = h[n] /\ Under(t, h, k, d) = h[n]
        /\ t.child_[d][b] # n /\ t.child_[d][b] # p /\ t.child_[d][b] # b
        /\ t.child_[d][k] # n /\ t.child_[d][k] # p /\ t.child_[d][k] # b /\ t.child_[d][k] # k
        /\ t.child_[d][k] = Nil \/ t.color_[t.child_[d][k]] = "black"
        /\ t.child_[d][n] # p
    /\ \A m \in A, d \in Sides : t.child_[d][m] # Nil => t.child_[d][m] \in A
    /\ \A m \in A, d \in Sides :
        t.color_[m] = "red" => t.child_[d][m] = Nil \/ t.color_[t.child_[d][m]] = "black"
    /\ \A m \in A \ {y, p}, d \in Sides : h[m] = Under(t, h, m, d) + Black(t, m)
    /\ \A m \in A \ {b}, d \in Sides : t.child_[d][m] # k
    /\ \A d \in Sides : t.child_[d][b] = k => t.child_[IF d = s THEN o ELSE s][b] # k
    /\ t.root_ \in A /\ t.color_[t.root_] = "black"

\* A node is not under a node under it.
LEMMA NoCycle ==
    ASSUME NEW t, NEW A, NEW K, NEW pos, NEW edge, Shape(t, A, K, pos, edge),
           NEW m \in A, NEW d \in Sides, t.child_[d][m] # Nil
    PROVE  \A e \in Sides : /\ t.child_[e][t.child_[d][m]] # m
                            /\ t.child_[e][t.child_[d][m]] # Nil =>
                                    \A a \in Sides : t.child_[a][t.child_[e][t.child_[d][m]]] # m
<1> DEFINE c == t.child_[d][m]
<1>1. K \in Nat /\ A \subseteq Nodes /\ Nil \notin A BY TreeAssumption DEF Shape
<1>2. c \in A /\ Width(edge, c) < Width(edge, m) BY Narrower, ChildFacts
<1>3. \A v \in A : Width(edge, v) \in 2..(K + 1) BY Narrower
<1> HIDE DEF c
<1>4. ASSUME NEW e \in Sides
      PROVE  /\ t.child_[e][c] # m
             /\ t.child_[e][c] # Nil => \A a \in Sides : t.child_[a][t.child_[e][c]] # m
  <2> DEFINE w == t.child_[e][c]
  <2>1. w # Nil => w \in A /\ Width(edge, w) < Width(edge, c) BY <1>2, Narrower, ChildFacts
  <2> HIDE DEF w
  <2>2. w # m BY <1>1, <1>2, <1>3, <2>1
  <2>3. ASSUME w # Nil, NEW a \in Sides PROVE t.child_[a][w] # m
    <3>1. t.child_[a][w] # Nil => Width(edge, t.child_[a][w]) < Width(edge, w)
      BY <2>1, <2>3, Narrower
    <3>2. QED BY <1>1, <1>2, <1>3, <2>1, <2>3, <3>1
  <2>4. QED BY <2>2, <2>3 DEF w
<1>5. QED BY <1>4 DEF c

\* Where the red nephew stands, and what black heights it and its parent have.
LEMMA NephewFacts ==
    ASSUME NEW t, NEW A, NEW K, NEW pos, NEW edge, NEW h, NEW n, NEW y,
           Short(t, A, K, pos, edge, h, n, y), ~IsRed(t, GetBrother(t, n)),
           NEW d \in Sides, IsRed(t, t.child_[d][GetBrother(t, n)])
    PROVE  Nephew(t, A, h, n, y, t.parent_[n], GetBrother(t, n), t.child_[d][GetBrother(t, n)],
                  Side(t, n), Opposite(Side(t, n)))
<1> DEFINE p == t.parent_[n]
           b == GetBrother(t, n)
           k == t.child_[d][b]
           s == Side(t, n)
           o == Opposite(s)
<1>1. /\ Shape(t, A, K, pos, edge) /\ Even(t, A, h, n, y) /\ NoTwoRed(t, A, Nil)
      /\ n \in A /\ n # t.root_ /\ t.color_[n] = "black" /\ y \in {Nil, n}
  BY DEF Short
<1>2. /\ s \in Sides /\ o \in Sides /\ o # s /\ (\A e \in Sides : e = s \/ e = o)
      /\ p \in A /\ p # n /\ p # Nil /\ t.child_[s][p] = n
      /\ b \in A /\ b # n /\ b # p /\ b # Nil /\ b # t.root_
      /\ b = t.child_[o][p] /\ t.parent_[b] = p
      /\ h \in [Nodes -> Nat] /\ h[n] \in Nat /\ h[b] = h[n] + 1 /\ h[p] = h[b] + Black(t, p)
  BY BrotherFacts
<1>3. t \in Trees /\ A \subseteq Nodes /\ Nil \notin Nodes /\ \A m \in A : m \in Nodes
  BY <1>1, TreeAssumption DEF Shape
<1>4. t.color_[b] = "black" /\ t.color_[k] = "red" /\ k # Nil
  BY <1>2, <1>3 DEF IsRed, Trees, Colors
<1>5. t.parent_[n] = p OBVIOUS
<1> HIDE DEF p, b, s, o
<1>6. k \in A /\ k # b /\ t.parent_[k] = b
  <2>1. b \in A /\ d \in Sides /\ t.child_[d][b] # Nil BY <1>2, <1>4
  <2>2. QED BY <1>1, <2>1, ChildFacts
<1>7. \A m \in A, e \in Sides : t.child_[e][m] # Nil =>
        t.child_[e][m] \in A /\ t.parent_[t.child_[e][m]] = m /\ t.child_[e][m] # m
  BY <1>1, ChildFacts
<1> HIDE DEF k
<1>8. \A m \in A \ {y}, e \in Sides : h[m] \in Nat /\
        h[m] = (IF t.child_[e][m] = Nil THEN 0
                ELSE IF t.child_[e][m] = n THEN h[t.child_[e][m]] + 1
                ELSE h[t.child_[e][m]]) + Black(t, m)
  BY <1>1, StepDown
<1>9. \A m \in A \ {y, p}, e \in Sides : h[m] = Under(t, h, m, e) + Black(t, m)
  <2>1. SUFFICES ASSUME NEW m \in A \ {y, p}, NEW e \in Sides
                 PROVE  h[m] = Under(t, h, m, e) + Black(t, m)
    OBVIOUS
  <2>2. t.child_[e][m] # n \/ t.child_[e][m] = Nil BY <1>5, <1>7
  <2>3. h[m] = (IF t.child_[e][m] = Nil THEN 0
                ELSE IF t.child_[e][m] = n THEN h[t.child_[e][m]] + 1
                ELSE h[t.child_[e][m]]) + Black(t, m)
    BY <1>8
  <2>4. QED BY <2>2, <2>3 DEF Under
<1>10. k # n BY <1>2, <1>5, <1>6
<1>11. \A m \in A, e \in Sides :
        t.color_[m] = "red" => t.child_[e][m] = Nil \/ t.color_[t.child_[e][m]] = "black"
  BY <1>1 DEF NoTwoRed
<1>12. \A e \in Sides : /\ t.child_[e][b] # p /\ t.child_[e][n] # p
                        /\ t.child_[e][k] # b /\ t.child_[e][k] # p
  <2>1. \A e \in Sides : t.child_[e][b] # p
    BY <1>1, <1>2, NoCycle
  <2>2. \A e \in Sides : t.child_[e][n] # p
    <3>1. t.child_[s][p] # Nil BY <1>1, <1>2, <1>3
    <3>2. QED BY <1>1, <1>2, <3>1, NoCycle
  <2>3. \A e \in Sides : t.child_[e][k] # b BY <1>1, <1>2, <1>4, NoCycle DEF k
  <2>4. \A e \in Sides : t.child_[e][k] # p
    <3>1. t.child_[o][p] # Nil BY <1>2
    <3>2. \A e \in Sides : t.child_[e][t.child_[o][p]] # Nil =>
             \A a \in Sides : t.child_[a][t.child_[e][t.child_[o][p]]] # p
      BY <1>1, <1>2, <3>1, NoCycle
    <3>3. t.child_[d][t.child_[o][p]] = k BY <1>2 DEF k
    <3>4. QED BY <1>4, <3>2, <3>3
  <2>5. QED BY <2>1, <2>2, <2>3, <2>4
<1>13. \A e \in Sides : Under(t, h, b, e) = h[n]
  <2>1. SUFFICES ASSUME NEW e \in Sides PROVE Under(t, h, b, e) = h[n] OBVIOUS
  <2>2. h[b] = Under(t, h, b, e) + Black(t, b) BY <1>1, <1>2, <1>3, <1>9
  <2>3. Black(t, b) = 1 BY <1>4 DEF Black
  <2>4. Under(t, h, b, e) \in Nat BY <1>2, <1>3, <1>7 DEF Under
  <2>5. QED BY <1>2, <2>2, <2>3, <2>4
<1>14. h[k] = h[n]
  <2>1. Under(t, h, b, d) = h[k] BY <1>4 DEF Under, k
  <2>2. QED BY <1>13, <2>1
<1>15. \A e \in Sides : Under(t, h, k, e) = h[n]
  <2>1. SUFFICES ASSUME NEW e \in Sides PROVE Under(t, h, k, e) = h[n] OBVIOUS
  <2>2. k # p BY <1>2, <1>12 DEF k
  <2>3. h[k] = Under(t, h, k, e) + Black(t, k) BY <1>1, <1>3, <1>6, <1>9, <1>10, <2>2
  <2>4. Black(t, k) = 0 BY <1>4 DEF Black
  <2>5. Under(t, h, k, e) \in Nat BY <1>2, <1>3, <1>6, <1>7 DEF Under
  <2>6. QED BY <1>14, <2>3, <2>4, <2>5
<1>16. k # p BY <1>12 DEF k
<1>17. \A e \in Sides : /\ t.child_[e][b] # n /\ t.child_[e][b] # b
                        /\ t.child_[e][k] # n /\ t.child_[e][k] # k
  <2>1. n # Nil /\ b # Nil /\ k # Nil BY <1>1, <1>2, <1>3, <1>4
  <2>2. QED BY <1>2, <1>5, <1>6, <1>7, <1>16, <2>1
<1>18. t.root_ \in A /\ t.color_[t.root_] = "black" BY <1>1 DEF NoTwoRed, Shape, Top
<1>19. \A e \in Sides : t.child_[e][k] = Nil \/ t.color_[t.child_[e][k]] = "black"
  BY <1>4, <1>6, <1>11
<1>19a. \A m \in A \ {b}, e \in Sides : t.child_[e][m] # k BY <1>4, <1>6, <1>7
<1>19b. ASSUME NEW e \in Sides, t.child_[e][b] = k PROVE t.child_[IF e = s THEN o ELSE s][b] # k
  <2>1. Side(t, k) = e BY <1>1, <1>2, <1>4, <1>19b, ChildFacts
  <2>2. ASSUME NEW a \in Sides, t.child_[a][b] = k PROVE a = e
    BY <1>1, <1>2, <1>4, <2>1, <2>2, ChildFacts
  <2>3. QED BY <1>2, <2>2
<1>20. Nephew(t, A, h, n, y, p, b, k, s, o)
  BY <1>1, <1>2, <1>4, <1>5, <1>6, <1>7, <1>9, <1>10, <1>11, <1>12, <1>13, <1>14, <1>15, <1>16,
     <1>17, <1>18, <1>19, <1>19a, <1>19b DEF Nephew
<1>21. QED BY <1>20 DEF p, b, k, s, o

\* What making the shortage under n good gives.
Level(t, u, A, K, pos, h, n, y) ==
    /\ SameFrame(t, u) /\ NoTwoRed(u, A, Nil) /\ n # u.root_
    /\ \A d \in Sides : u.child_[d][n] = t.child_[d][n]
    /\ \E e, f : Shape(u, A, K, pos, e) /\ Even(u, A, f, Nil, y) /\ f[n] = h[n]

OuterTurn(t, u, A, n, p, b, k, s, o) ==
    /\ k = t.child_[o][b]
    /\ u.root_ = IF t.root_ = p THEN b ELSE t.root_
    /\ u.child_[s][b] = p /\ u.child_[o][b] = k
    /\ u.child_[s][p] = n /\ u.child_[o][p] = t.child_[s][b]
    /\ \A m \in A \ {p, b}, d \in Sides :
        /\ t.child_[d][m] # b
        /\ u.child_[d][m] = IF t.child_[d][m] = p THEN b ELSE t.child_[d][m]
    /\ \A m \in A : u.color_[m] = IF m = b THEN t.color_[p]
                                  ELSE IF m \in {p, k} THEN "black" ELSE t.color_[m]

\* The outer nephew: the brother is turned above the parent.
LEMMA OuterKeeps ==
    ASSUME NEW t, NEW A, NEW h, NEW n, NEW y, NEW p, NEW b, NEW k, NEW s, NEW o,
           Nephew(t, A, h, n, y, p, b, k, s, o),
           A \subseteq Nodes, Nil \notin A,
           NEW u, OuterTurn(t, u, A, n, p, b, k, s, o)
    PROVE  /\ NoTwoRed(u, A, Nil) /\ n # u.root_
           /\ \A d \in Sides : u.child_[d][n] = t.child_[d][n]
           /\ \E f : Even(u, A, f, Nil, y) /\ f[n] = h[n]
<1>0. /\ k = t.child_[o][b]
      /\ u.root_ = IF t.root_ = p THEN b ELSE t.root_
      /\ u.child_[s][b] = p /\ u.child_[o][b] = k
      /\ u.child_[s][p] = n /\ u.child_[o][p] = t.child_[s][b]
      /\ \A m \in A \ {p, b}, d \in Sides :
          /\ t.child_[d][m] # b
          /\ u.child_[d][m] = IF t.child_[d][m] = p THEN b ELSE t.child_[d][m]
      /\ \A m \in A : u.color_[m] = IF m = b THEN t.color_[p]
                                    ELSE IF m \in {p, k} THEN "black" ELSE t.color_[m]
  BY DEF OuterTurn
<1> USE <1>0
<1>1. /\ s \in Sides /\ o \in Sides /\ o # s /\ (\A d \in Sides : d = s \/ d = o)
      /\ n \in A /\ p \in A /\ b \in A /\ k \in A
      /\ p # n /\ b # n /\ b # p /\ k # n /\ k # p /\ k # b /\ y \in {Nil, n} /\ n # t.root_
      /\ t.child_[s][p] = n /\ t.child_[o][p] = b
      /\ t.color_[b] = "black" /\ t.color_[k] = "red" /\ t.color_[n] = "black"
      /\ h \in [Nodes -> Nat] /\ h[b] = h[n] + 1 /\ h[p] = h[b] + Black(t, p) /\ h[k] = h[n]
      /\ t.root_ \in A /\ t.color_[t.root_] = "black" /\ b # t.root_
  BY DEF Nephew
<1>2. \A d \in Sides :
        /\ Under(t, h, b, d) = h[n] /\ Under(t, h, k, d) = h[n]
        /\ t.child_[d][b] # n /\ t.child_[d][b] # p /\ t.child_[d][b] # b
        /\ t.child_[d][k] # n /\ t.child_[d][k] # p /\ t.child_[d][k] # b /\ t.child_[d][k] # k
        /\ t.child_[d][k] = Nil \/ t.color_[t.child_[d][k]] = "black"
        /\ t.child_[d][n] # p
  BY DEF Nephew
<1>3. \A m \in A, d \in Sides :
        /\ t.child_[d][m] # Nil => t.child_[d][m] \in A
        /\ t.color_[m] = "red" => t.child_[d][m] = Nil \/ t.color_[t.child_[d][m]] = "black"
  BY DEF Nephew
<1>4. \A m \in A \ {y, p}, d \in Sides : h[m] = Under(t, h, m, d) + Black(t, m)
  BY DEF Nephew
<1>4a. /\ \A m \in A \ {b}, d \in Sides : t.child_[d][m] # k
       /\ t.child_[s][b] # k
  BY <1>1 DEF Nephew
<1>5. \A m \in A : h[m] \in Nat /\ m \in Nodes BY <1>1
<1> DEFINE f == [h EXCEPT ![p] = h[b], ![b] = h[p], ![k] = h[b]]
<1>6. /\ f \in [Nodes -> Nat] /\ f[p] = h[b] /\ f[b] = h[p] /\ f[k] = h[b]
      /\ \A m \in A \ {p, b, k} : f[m] = h[m]
  BY <1>1, <1>5
<1> HIDE DEF f
<1>7. f[n] = h[n] BY <1>1, <1>6
<1>8. /\ u.color_[b] = t.color_[p] /\ u.color_[p] = "black" /\ u.color_[k] = "black"
      /\ \A m \in A \ {p, b, k} : u.color_[m] = t.color_[m]
  BY <1>1
<1>9. ASSUME NEW m \in A \ {y}, NEW d \in Sides
      PROVE  f[m] = Under(u, f, m, d) + Black(u, m)
  <2>1. CASE m = p
    <3>1. Black(u, p) = 1 BY <1>8 DEF Black
    <3>2. Under(u, f, p, s) = h[n] BY <1>1, <1>7 DEF Under
    <3>3. Under(u, f, p, o) = h[n]
      <4> DEFINE i == t.child_[s][b]
      <4>1. Under(t, h, b, s) = h[n] BY <1>1, <1>2
      <4>2. i # Nil => i \in A \ {p, b, k} BY <1>1, <1>2, <1>3, <1>4a
      <4>3. u.child_[o][p] = i OBVIOUS
      <4>4. Under(u, f, p, o) = IF i = Nil THEN 0 ELSE f[i] BY <4>3 DEF Under
      <4>5. h[n] = IF i = Nil THEN 0 ELSE h[i] BY <4>1 DEF Under
      <4> HIDE DEF i
      <4>6. QED BY <1>6, <4>2, <4>4, <4>5
    <3>4. QED BY <1>1, <1>6, <2>1, <3>1, <3>2, <3>3
  <2>2. CASE m = b
    <3>1. Black(u, b) = Black(t, p) BY <1>8 DEF Black
    <3>2. Under(u, f, b, s) = h[b] /\ Under(u, f, b, o) = h[b] BY <1>1, <1>6 DEF Under
    <3>3. QED BY <1>1, <1>6, <2>2, <3>1, <3>2
  <2>3. CASE m = k
    <3>1. Black(u, k) = 1 BY <1>8 DEF Black
    <3>2. u.child_[d][k] = t.child_[d][k] BY <1>1, <1>2
    <3>3. t.child_[d][k] # Nil => t.child_[d][k] \in A \ {p, b, k} BY <1>1, <1>2, <1>3
    <3>4. Under(t, h, k, d) = h[n] BY <1>2
    <3>5. Under(u, f, k, d) = h[n] BY <1>6, <3>2, <3>3, <3>4 DEF Under
    <3>6. QED BY <1>1, <1>6, <2>3, <3>1, <3>5
  <2>4. CASE m \notin {p, b, k}
    <3>1. h[m] = Under(t, h, m, d) + Black(t, m) BY <1>4, <2>4
    <3>2. f[m] = h[m] /\ Black(u, m) = Black(t, m) BY <1>6, <1>8, <2>4 DEF Black
    <3>3. t.child_[d][m] # b /\ t.child_[d][m] # k /\ (t.child_[d][m] # Nil => t.child_[d][m] \in A)
      BY <1>3, <1>4a, <2>4
    <3>4. CASE t.child_[d][m] = p
      <4>1. u.child_[d][m] = b BY <2>4, <3>4
      <4>2. Under(u, f, m, d) = h[p] BY <1>1, <1>6, <4>1 DEF Under
      <4>3. Under(t, h, m, d) = h[p] BY <1>1, <3>4 DEF Under
      <4>4. QED BY <3>1, <3>2, <4>2, <4>3
    <3>5. CASE t.child_[d][m] # p
      <4>1. u.child_[d][m] = t.child_[d][m] BY <2>4, <3>5
      <4>2. Under(u, f, m, d) = Under(t, h, m, d) BY <1>6, <3>3, <3>5, <4>1 DEF Under
      <4>3. QED BY <3>1, <3>2, <4>2
    <3>6. QED BY <3>4, <3>5
  <2>5. QED BY <2>1, <2>2, <2>3, <2>4
<1>10. Even(u, A, f, Nil, y)
  <2>1. SUFFICES ASSUME NEW m \in A \ {y}, NEW d \in Sides
                 PROVE  f[m] = (IF u.child_[d][m] = Nil THEN 0
                                ELSE IF u.child_[d][m] = Nil THEN f[u.child_[d][m]] + 1
                                ELSE f[u.child_[d][m]])
                               + (IF u.color_[m] = "red" THEN 0 ELSE 1)
    BY <1>6 DEF Even
  <2>2. f[m] = Under(u, f, m, d) + Black(u, m) BY <1>9
  <2>3. QED BY <2>2 DEF Under, Black
<1>11. NoTwoRed(u, A, Nil)
  <2>1. u.color_[u.root_] = "black"
    <3>1. CASE t.root_ = p BY <1>1, <1>8, <3>1
    <3>2. CASE t.root_ # p
      <4>1. u.root_ = t.root_ BY <3>2
      <4>2. CASE t.root_ = k BY <1>8, <4>1, <4>2
      <4>3. CASE t.root_ # k BY <1>1, <1>8, <3>2, <4>1, <4>3
      <4>4. QED BY <4>2, <4>3
    <3>3. QED BY <3>1, <3>2
  <2>2. SUFFICES ASSUME NEW m \in A, NEW d \in Sides, u.color_[m] = "red"
                 PROVE  u.child_[d][m] \in {Nil, Nil} \/ u.color_[u.child_[d][m]] = "black"
    BY <2>1 DEF NoTwoRed
  <2>3. m # p /\ m # k BY <1>8, <2>2
  <2>4. CASE m = b
    <3>1. u.child_[d][m] = p \/ u.child_[d][m] = k BY <1>1, <2>4
    <3>2. QED BY <1>8, <3>1
  <2>5. CASE m # b
    <3>1. t.color_[m] = "red" BY <1>8, <2>2, <2>3, <2>5
    <3>2. t.child_[d][m] # b /\ t.child_[d][m] # k BY <1>4a, <2>3, <2>5
    <3>3. t.child_[d][m] = Nil \/ (t.child_[d][m] \in A /\ t.color_[t.child_[d][m]] = "black")
      BY <1>3, <3>1
    <3>4. CASE t.child_[d][m] = p
      <4>1. u.child_[d][m] = b /\ t.color_[p] = "black" BY <1>1, <2>3, <2>5, <3>3, <3>4
      <4>2. QED BY <1>8, <4>1
    <3>5. CASE t.child_[d][m] # p
      <4>1. u.child_[d][m] = t.child_[d][m] BY <2>3, <2>5, <3>5
      <4>2. QED BY <1>8, <3>2, <3>3, <3>5, <4>1
    <3>6. QED BY <3>4, <3>5
  <2>6. QED BY <2>4, <2>5
<1>12. n # u.root_ /\ \A d \in Sides : u.child_[d][n] = t.child_[d][n]
  BY <1>1, <1>2
<1>13. QED BY <1>7, <1>10, <1>11, <1>12

InnerTurn(t, u, A, n, p, b, k, s, o) ==
    /\ k = t.child_[s][b] /\ k # t.root_
    /\ u.root_ = IF t.root_ = p THEN k ELSE t.root_
    /\ u.child_[s][k] = p /\ u.child_[o][k] = b
    /\ u.child_[s][p] = n /\ u.child_[o][p] = t.child_[s][k]
    /\ u.child_[s][b] = t.child_[o][k] /\ u.child_[o][b] = t.child_[o][b]
    /\ \A m \in A \ {p, b, k}, d \in Sides :
        /\ t.child_[d][m] # b /\ t.child_[d][m] # k
        /\ u.child_[d][m] = IF t.child_[d][m] = p THEN k ELSE t.child_[d][m]
    /\ \A m \in A : u.color_[m] = IF m = k THEN t.color_[p]
                                  ELSE IF m = p THEN "black" ELSE t.color_[m]

\* The inner nephew: it is turned above the brother and then above the parent.
LEMMA InnerKeeps ==
    ASSUME NEW t, NEW A, NEW h, NEW n, NEW y, NEW p, NEW b, NEW k, NEW s, NEW o,
           Nephew(t, A, h, n, y, p, b, k, s, o),
           A \subseteq Nodes, Nil \notin A,
           NEW u, InnerTurn(t, u, A, n, p, b, k, s, o)
    PROVE  /\ NoTwoRed(u, A, Nil) /\ n # u.root_
           /\ \A d \in Sides : u.child_[d][n] = t.child_[d][n]
           /\ \E f : Even(u, A, f, Nil, y) /\ f[n] = h[n]
<1>0. /\ k = t.child_[s][b] /\ k # t.root_
      /\ u.root_ = IF t.root_ = p THEN k ELSE t.root_
      /\ u.child_[s][k] = p /\ u.child_[o][k] = b
      /\ u.child_[s][p] = n /\ u.child_[o][p] = t.child_[s][k]
      /\ u.child_[s][b] = t.child_[o][k] /\ u.child_[o][b] = t.child_[o][b]
      /\ \A m \in A \ {p, b, k}, d \in Sides :
          /\ t.child_[d][m] # b /\ t.child_[d][m] # k
          /\ u.child_[d][m] = IF t.child_[d][m] = p THEN k ELSE t.child_[d][m]
      /\ \A m \in A : u.color_[m] = IF m = k THEN t.color_[p]
                                    ELSE IF m = p THEN "black" ELSE t.color_[m]
  BY DEF InnerTurn
<1> USE <1>0
<1>1. /\ s \in Sides /\ o \in Sides /\ o # s /\ (\A d \in Sides : d = s \/ d = o)
      /\ n \in A /\ p \in A /\ b \in A /\ k \in A
      /\ p # n /\ b # n /\ b # p /\ k # n /\ k # p /\ k # b /\ y \in {Nil, n} /\ n # t.root_
      /\ t.child_[s][p] = n /\ t.child_[o][p] = b
      /\ t.color_[b] = "black" /\ t.color_[k] = "red" /\ t.color_[n] = "black"
      /\ h \in [Nodes -> Nat] /\ h[b] = h[n] + 1 /\ h[p] = h[b] + Black(t, p) /\ h[k] = h[n]
      /\ t.root_ \in A /\ t.color_[t.root_] = "black" /\ b # t.root_
  BY DEF Nephew
<1>2. \A d \in Sides :
        /\ Under(t, h, b, d) = h[n] /\ Under(t, h, k, d) = h[n]
        /\ t.child_[d][b] # n /\ t.child_[d][b] # p /\ t.child_[d][b] # b
        /\ t.child_[d][k] # n /\ t.child_[d][k] # p /\ t.child_[d][k] # b /\ t.child_[d][k] # k
        /\ t.child_[d][k] = Nil \/ t.color_[t.child_[d][k]] = "black"
        /\ t.child_[d][n] # p
  BY DEF Nephew
<1>3. \A m \in A, d \in Sides :
        /\ t.child_[d][m] # Nil => t.child_[d][m] \in A
        /\ t.color_[m] = "red" => t.child_[d][m] = Nil \/ t.color_[t.child_[d][m]] = "black"
  BY DEF Nephew
<1>4. \A m \in A \ {y, p}, d \in Sides : h[m] = Under(t, h, m, d) + Black(t, m)
  BY DEF Nephew
<1>4a. t.child_[o][b] # k BY <1>1 DEF Nephew
<1>5. \A m \in A : h[m] \in Nat /\ m \in Nodes BY <1>1
<1> DEFINE f == [h EXCEPT ![p] = h[b], ![k] = h[p]]
<1>6. /\ f \in [Nodes -> Nat] /\ f[p] = h[b] /\ f[k] = h[p]
      /\ \A m \in A \ {p, k} : f[m] = h[m]
  BY <1>1, <1>5
<1> HIDE DEF f
<1>7. f[n] = h[n] /\ f[b] = h[b] BY <1>1, <1>6
<1>8. /\ u.color_[k] = t.color_[p] /\ u.color_[p] = "black" /\ u.color_[b] = "black"
      /\ \A m \in A \ {p, k} : u.color_[m] = t.color_[m]
  BY <1>1
<1>8a. \A d \in Sides : t.child_[d][k] # Nil => t.child_[d][k] \in A \ {p, b, k}
  BY <1>1, <1>2, <1>3
<1>8b. \A d \in Sides : h[n] = IF t.child_[d][k] = Nil THEN 0 ELSE f[t.child_[d][k]]
  <2>1. SUFFICES ASSUME NEW d \in Sides
                 PROVE h[n] = IF t.child_[d][k] = Nil THEN 0 ELSE f[t.child_[d][k]]
    OBVIOUS
  <2>2. Under(t, h, k, d) = h[n] BY <1>2
  <2>3. QED BY <1>6, <1>8a, <2>2 DEF Under
<1>9. ASSUME NEW m \in A \ {y}, NEW d \in Sides
      PROVE  f[m] = Under(u, f, m, d) + Black(u, m)
  <2>1. CASE m = p
    <3>1. Black(u, p) = 1 BY <1>8 DEF Black
    <3>2. Under(u, f, p, s) = h[n] BY <1>1, <1>7 DEF Under
    <3>3. Under(u, f, p, o) = h[n] BY <1>1, <1>8b DEF Under
    <3>4. QED BY <1>1, <1>6, <2>1, <3>1, <3>2, <3>3
  <2>2. CASE m = b
    <3>1. Black(u, b) = 1 BY <1>8 DEF Black
    <3>2. Under(u, f, b, s) = h[n] BY <1>1, <1>8b DEF Under
    <3>3. Under(u, f, b, o) = h[n]
      <4> DEFINE i == t.child_[o][b]
      <4>1. Under(t, h, b, o) = h[n] BY <1>1, <1>2
      <4>2. i # Nil => i \in A \ {p, k} BY <1>1, <1>2, <1>3, <1>4a
      <4>3. u.child_[o][b] = i OBVIOUS
      <4>4. Under(u, f, b, o) = IF i = Nil THEN 0 ELSE f[i] BY <4>3 DEF Under
      <4>5. h[n] = IF i = Nil THEN 0 ELSE h[i] BY <4>1 DEF Under
      <4> HIDE DEF i
      <4>6. QED BY <1>6, <4>2, <4>4, <4>5
    <3>4. QED BY <1>1, <1>7, <2>2, <3>1, <3>2, <3>3
  <2>3. CASE m = k
    <3>1. Black(u, k) = Black(t, p) BY <1>8 DEF Black
    <3>2. Under(u, f, k, s) = h[b] /\ Under(u, f, k, o) = h[b] BY <1>1, <1>6, <1>7 DEF Under
    <3>3. QED BY <1>1, <1>6, <2>3, <3>1, <3>2
  <2>4. CASE m \notin {p, b, k}
    <3>1. h[m] = Under(t, h, m, d) + Black(t, m) BY <1>4, <2>4
    <3>2. f[m] = h[m] /\ Black(u, m) = Black(t, m) BY <1>6, <1>8, <2>4 DEF Black
    <3>3. t.child_[d][m] # k /\ (t.child_[d][m] # Nil => t.child_[d][m] \in A)
      BY <1>3, <2>4
    <3>4. CASE t.child_[d][m] = p
      <4>1. u.child_[d][m] = k BY <2>4, <3>4
      <4>2. Under(u, f, m, d) = h[p] BY <1>1, <1>6, <4>1 DEF Under
      <4>3. Under(t, h, m, d) = h[p] BY <1>1, <3>4 DEF Under
      <4>4. QED BY <3>1, <3>2, <4>2, <4>3
    <3>5. CASE t.child_[d][m] # p
      <4>1. u.child_[d][m] = t.child_[d][m] BY <2>4, <3>5
      <4>2. Under(u, f, m, d) = Under(t, h, m, d) BY <1>6, <3>3, <3>5, <4>1 DEF Under
      <4>3. QED BY <3>1, <3>2, <4>2
    <3>6. QED BY <3>4, <3>5
  <2>5. QED BY <2>1, <2>2, <2>3, <2>4
<1>10. Even(u, A, f, Nil, y)
  <2>1. SUFFICES ASSUME NEW m \in A \ {y}, NEW d \in Sides
                 PROVE  f[m] = (IF u.child_[d][m] = Nil THEN 0
                                ELSE IF u.child_[d][m] = Nil THEN f[u.child_[d][m]] + 1
                                ELSE f[u.child_[d][m]])
                               + (IF u.color_[m] = "red" THEN 0 ELSE 1)
    BY <1>6 DEF Even
  <2>2. f[m] = Under(u, f, m, d) + Black(u, m) BY <1>9
  <2>3. QED BY <2>2 DEF Under, Black
<1>11. NoTwoRed(u, A, Nil)
  <2>1. u.color_[u.root_] = "black"
    <3>1. CASE t.root_ = p BY <1>1, <1>8, <3>1
    <3>2. CASE t.root_ # p BY <1>1, <1>8, <3>2
    <3>3. QED BY <3>1, <3>2
  <2>2. SUFFICES ASSUME NEW m \in A, NEW d \in Sides, u.color_[m] = "red"
                 PROVE  u.child_[d][m] \in {Nil, Nil} \/ u.color_[u.child_[d][m]] = "black"
    BY <2>1 DEF NoTwoRed
  <2>3. m # p /\ m # b BY <1>8, <2>2
  <2>4. CASE m = k
    <3>1. u.child_[d][m] = p \/ u.child_[d][m] = b BY <1>1, <2>4
    <3>2. QED BY <1>8, <3>1
  <2>5. CASE m # k
    <3>1. t.color_[m] = "red" BY <1>8, <2>2, <2>3, <2>5
    <3>2. t.child_[d][m] # b /\ t.child_[d][m] # k BY <2>3, <2>5
    <3>3. t.child_[d][m] = Nil \/ (t.child_[d][m] \in A /\ t.color_[t.child_[d][m]] = "black")
      BY <1>3, <3>1
    <3>4. CASE t.child_[d][m] = p
      <4>1. u.child_[d][m] = k /\ t.color_[p] = "black" BY <1>1, <2>3, <2>5, <3>3, <3>4
      <4>2. QED BY <1>8, <4>1
    <3>5. CASE t.child_[d][m] # p
      <4>1. u.child_[d][m] = t.child_[d][m] BY <2>3, <2>5, <3>5
      <4>2. QED BY <1>8, <3>2, <3>3, <3>5, <4>1
    <3>6. QED BY <3>4, <3>5
  <2>6. QED BY <2>4, <2>5
<1>12. n # u.root_ /\ \A d \in Sides : u.child_[d][n] = t.child_[d][n]
  BY <1>1, <1>2
<1>13. QED BY <1>7, <1>10, <1>11, <1>12

\* A black brother with a red child: the turns make the shortage good.
LEMMA TurnNephewKeeps ==
    ASSUME NEW t, NEW A, NEW K, NEW pos, NEW edge, NEW h, NEW n, NEW y,
           Short(t, A, K, pos, edge, h, n, y),
           ~IsRed(t, GetBrother(t, n)), RedNephews(t, n) # {},
           NEW B \in SUBSET Nodes, A \subseteq B, Tidy(t, B), NEW u, u = TurnNephew(t, n)
    PROVE  Level(t, u, A, K, pos, h, n, y) /\ Tidy(u, B)
<1> DEFINE p == t.parent_[n]
           b == GetBrother(t, n)
           s == Side(t, n)
           o == Opposite(s)
           red == IF "left" \in RedNephews(t, n) THEN "left" ELSE "right"
           k == t.child_[red][b]
           cp == t.color_[p]
<1>1. Shape(t, A, K, pos, edge) /\ A \subseteq Nodes /\ Nil \notin Nodes /\ Nil \notin A /\ t \in Trees
  BY TreeAssumption DEF Short, Shape
<1>2. red \in Sides /\ IsRed(t, k) BY DEF RedNephews, Sides
<1>3. Nephew(t, A, h, n, y, p, b, k, s, o) BY <1>2, NephewFacts
<1>4. u = IF red = s
          THEN Paint(Paint(Rotate(Rotate(t, b, o), p, s), k, cp), p, "black")
          ELSE Paint(Paint(Paint(Rotate(t, p, s), b, cp), p, "black"), k, "black")
  BY DEF TurnNephew
<1>5. k # t.root_ /\ k # Nil
  <2>1. b \in A /\ k # Nil BY <1>2, <1>3 DEF Nephew, IsRed
  <2>2. QED BY <1>1, <1>2, <2>1, ChildFacts
<1> HIDE DEF p, b, s, o, red, k, cp
<1>6. /\ s \in Sides /\ o \in Sides /\ o # s /\ (\A d \in Sides : d = s \/ d = o)
      /\ n \in A /\ p \in A /\ b \in A /\ k \in A /\ b # p /\ k # p /\ k # b
      /\ t.child_[s][p] = n /\ t.child_[o][p] = b
  BY <1>3 DEF Nephew
<1>7. /\ p \in Nodes /\ b \in Nodes /\ k \in Nodes /\ "black" \in Colors
      /\ cp \in Colors /\ p \in B /\ b \in B /\ k \in B /\ b # Nil
  BY <1>1, <1>6 DEF Trees, Colors, cp
<1>8. CASE red = s
  <2> DEFINE q == Rotate(t, b, o)
             r == Rotate(q, p, s)
             z == Paint(r, k, cp)
             v == Paint(z, p, "black")
  <2>1. k = t.child_[s][b] BY <1>8 DEF k
  <2>2. DoubleRotation(t, r, A, p, b, k, s, o) /\ \E e : Shape(r, A, K, pos, e)
    BY <1>1, <1>5, <1>6, <1>7, <2>1, DoubleLinks
  <2>3. Tidy(r, B)
    <3>1. /\ Rotation(t, q, A, b, k, o, s)
          /\ Shape(q, A, K, pos, RotatedEdge(t, b, o, pos, edge))
          /\ Tidy(q, B)
      BY <1>1, <1>5, <1>6, <2>1, RotateLinks, RotateTidy
    <3>2. q.child_[o][p] = k BY <1>6, <3>1 DEF Rotation
    <3> HIDE DEF q
    <3>3. QED BY <1>5, <1>6, <3>1, <3>2, RotateTidy
  <2>4. u = v BY <1>4, <1>8
  <2> HIDE DEF r
  <2>5. r \in Trees BY <2>2 DEF Shape
  <2>6. /\ z \in Trees /\ z.root_ = r.root_ /\ z.child_ = r.child_ /\ z.parent_ = r.parent_
        /\ SameFrame(r, z)
        /\ \A m \in Nodes : z.color_[m] = IF m = k THEN cp ELSE r.color_[m]
    BY <1>7, <2>5, PaintFields DEF SameFrame
  <2>7. Tidy(z, B) BY <1>7, <2>3, <2>5, PaintTidy
  <2> HIDE DEF z
  <2>8. /\ v \in Trees /\ v.root_ = z.root_ /\ v.child_ = z.child_ /\ v.parent_ = z.parent_
        /\ SameFrame(z, v)
        /\ \A m \in Nodes : v.color_[m] = IF m = p THEN "black" ELSE z.color_[m]
    BY <1>7, <2>6, PaintFields DEF SameFrame
  <2>9. Tidy(v, B) BY <1>7, <2>6, <2>7, PaintTidy
  <2> HIDE DEF v
  <2>10. \E e : Shape(u, A, K, pos, e) BY <2>2, <2>4, <2>6, <2>8, SameLinks
  <2>11. SameFrame(t, u) BY <2>2, <2>4, <2>6, <2>8 DEF SameFrame, DoubleRotation
  <2>12. \A m \in A : u.color_[m] = IF m = k THEN cp
                                    ELSE IF m = p THEN "black" ELSE t.color_[m]
    BY <1>1, <1>6, <2>2, <2>4, <2>6, <2>8 DEF DoubleRotation
  <2>13. u.root_ = r.root_ /\ u.child_ = r.child_ BY <2>4, <2>6, <2>8
  <2>14. /\ u.root_ = (IF t.root_ = p THEN k ELSE t.root_)
         /\ u.child_[s][k] = p /\ u.child_[o][k] = b
         /\ u.child_[s][p] = n /\ u.child_[o][p] = t.child_[s][k]
         /\ u.child_[s][b] = t.child_[o][k] /\ u.child_[o][b] = t.child_[o][b]
         /\ \A m \in A \ {p, b, k}, d \in Sides :
                /\ t.child_[d][m] # b /\ t.child_[d][m] # k
                /\ u.child_[d][m] = IF t.child_[d][m] = p THEN k ELSE t.child_[d][m]
    BY <1>6, <2>2, <2>13 DEF DoubleRotation
  <2>14a. InnerTurn(t, u, A, n, p, b, k, s, o) BY <1>5, <2>1, <2>12, <2>14 DEF InnerTurn, cp
  <2>15. /\ NoTwoRed(u, A, Nil) /\ n # u.root_
         /\ \A d \in Sides : u.child_[d][n] = t.child_[d][n]
         /\ \E f : Even(u, A, f, Nil, y) /\ f[n] = h[n]
    BY <1>1, <1>3, <2>14a, InnerKeeps
  <2>16. QED BY <2>4, <2>9, <2>10, <2>11, <2>15 DEF Level
<1>9. CASE red # s
  <2> DEFINE r == Rotate(t, p, s)
             z == Paint(r, b, cp)
             w == Paint(z, p, "black")
             v == Paint(w, k, "black")
  <2>1. k = t.child_[o][b] BY <1>2, <1>6, <1>9 DEF k
  <2>2. /\ Rotation(t, r, A, p, b, s, o)
        /\ Shape(r, A, K, pos, RotatedEdge(t, p, s, pos, edge))
        /\ Tidy(r, B)
    BY <1>1, <1>6, <1>7, RotateLinks, RotateTidy
  <2>4. u = v BY <1>4, <1>9
  <2> HIDE DEF r
  <2>5. r \in Trees BY <2>2 DEF Shape
  <2>6. /\ z \in Trees /\ z.root_ = r.root_ /\ z.child_ = r.child_ /\ z.parent_ = r.parent_
        /\ SameFrame(r, z)
        /\ \A m \in Nodes : z.color_[m] = IF m = b THEN cp ELSE r.color_[m]
    BY <1>7, <2>5, PaintFields DEF SameFrame
  <2>7. Tidy(z, B) BY <1>7, <2>2, <2>5, PaintTidy
  <2> HIDE DEF z
  <2>8. /\ w \in Trees /\ w.root_ = z.root_ /\ w.child_ = z.child_ /\ w.parent_ = z.parent_
        /\ SameFrame(z, w)
        /\ \A m \in Nodes : w.color_[m] = IF m = p THEN "black" ELSE z.color_[m]
    BY <1>7, <2>6, PaintFields DEF SameFrame
  <2>9. Tidy(w, B) BY <1>7, <2>6, <2>7, PaintTidy
  <2> HIDE DEF w
  <2>8a. /\ v \in Trees /\ v.root_ = w.root_ /\ v.child_ = w.child_ /\ v.parent_ = w.parent_
         /\ SameFrame(w, v)
         /\ \A m \in Nodes : v.color_[m] = IF m = k THEN "black" ELSE w.color_[m]
    BY <1>7, <2>8, PaintFields DEF SameFrame
  <2>9a. Tidy(v, B) BY <1>7, <2>8, <2>9, PaintTidy
  <2> HIDE DEF v
  <2>10. \E e : Shape(u, A, K, pos, e)
    <3>1. u \in Trees /\ u.root_ = r.root_ /\ u.child_ = r.child_ /\ u.parent_ = r.parent_
      BY <2>4, <2>6, <2>8, <2>8a
    <3>2. Shape(u, A, K, pos, RotatedEdge(t, p, s, pos, edge)) BY <2>2, <3>1, SameLinks
    <3>3. QED BY <3>2
  <2>11. SameFrame(t, u) BY <2>2, <2>4, <2>6, <2>8, <2>8a DEF SameFrame, Rotation
  <2>12. \A m \in A : u.color_[m] = IF m = b THEN cp
                                    ELSE IF m \in {p, k} THEN "black" ELSE t.color_[m]
    BY <1>1, <1>6, <2>2, <2>4, <2>6, <2>8, <2>8a DEF Rotation
  <2>13. u.root_ = r.root_ /\ u.child_ = r.child_ BY <2>4, <2>6, <2>8, <2>8a
  <2>14. /\ u.root_ = (IF t.root_ = p THEN b ELSE t.root_)
         /\ u.child_[s][b] = p /\ u.child_[o][b] = k
         /\ u.child_[s][p] = n /\ u.child_[o][p] = t.child_[s][b]
         /\ \A m \in A \ {p, b}, d \in Sides :
                /\ t.child_[d][m] # b
                /\ u.child_[d][m] = IF t.child_[d][m] = p THEN b ELSE t.child_[d][m]
    BY <1>6, <2>1, <2>2, <2>13 DEF Rotation
  <2>14a. OuterTurn(t, u, A, n, p, b, k, s, o) BY <2>1, <2>12, <2>14 DEF OuterTurn, cp
  <2>15. /\ NoTwoRed(u, A, Nil) /\ n # u.root_
         /\ \A d \in Sides : u.child_[d][n] = t.child_[d][n]
         /\ \E f : Even(u, A, f, Nil, y) /\ f[n] = h[n]
    BY <1>1, <1>3, <2>14a, OuterKeeps
  <2>16. QED BY <2>4, <2>9a, <2>10, <2>11, <2>15 DEF Level
<1>10. QED BY <1>8, <1>9

\* One round of making a shortage good: x is the node where one black node is still
\* missing, Nil if there is none.
Eased(t, w, A, K, pos, edge, h, n, y, x) ==
    /\ SameFrame(t, w) /\ NoTwoRed(w, A, Nil) /\ n # w.root_
    /\ \A d \in Sides : w.child_[d][n] = t.child_[d][n]
    /\ IF x = Nil
       THEN \E e, f : Shape(w, A, K, pos, e) /\ Even(w, A, f, Nil, y) /\ f[n] = h[n]
       ELSE /\ x = t.parent_[n] /\ x \in A /\ x # n /\ w.color_[x] = "black"
            /\ Shape(w, A, K, pos, edge) /\ w.parent_ = t.parent_
            /\ \E f : Even(w, A, f, x, y) /\ f[n] = h[n]

\* One round on a shortage at n removes it or hands it to the parent of n.
LEMMA RoundEases ==
    ASSUME NEW t, NEW A, NEW K, NEW pos, NEW edge, NEW h, NEW n, NEW y,
           Short(t, A, K, pos, edge, h, n, y),
           NEW B \in SUBSET Nodes, A \subseteq B, Tidy(t, B),
           NEW u, u = WithBlackBrother(t, n),
           NEW w, w = IF RedNephews(u, n) # {} THEN TurnNephew(u, n) ELSE PaintBrother(u, n),
           NEW x, x = IF RedNephews(u, n) # {} \/ IsRed(u, u.parent_[n]) THEN Nil
                      ELSE u.parent_[n]
    PROVE  /\ Eased(t, w, A, K, pos, edge, h, n, y, x) /\ Tidy(w, B)
           /\ x = Nil => RedNephews(u, n) # {} \/ IsRed(u, u.parent_[n])
<1>0. /\ "left" \in Sides /\ "right" \in Sides /\ (\A d \in Sides : d = "left" \/ d = "right")
      /\ A \subseteq Nodes /\ Nil \notin Nodes
  BY TreeAssumption DEF Sides, Short, Shape
<1>1. \E e, f : /\ Short(u, A, K, pos, e, f, n, y) /\ f[n] = h[n]
                /\ \A d \in Sides : u.child_[d][n] = t.child_[d][n]
                /\ SameFrame(t, u) /\ Tidy(u, B) /\ ~IsRed(u, GetBrother(u, n))
                /\ \/ IsRed(u, u.parent_[n])
                   \/ u = t /\ e = edge
  <2>1. CASE IsRed(t, GetBrother(t, n))
    <3>1. /\ \E e, f : Short(u, A, K, pos, e, f, n, y) /\ f[n] = h[n]
          /\ u.child_["left"][n] = t.child_["left"][n] /\ u.child_["right"][n] = t.child_["right"][n]
          /\ SameFrame(t, u) /\ Tidy(u, B)
          /\ IsRed(u, u.parent_[n]) /\ ~IsRed(u, GetBrother(u, n))
      BY <2>1, RedBrotherKeeps
    <3>2. \A d \in Sides : u.child_[d][n] = t.child_[d][n] BY <1>0, <3>1
    <3>3. QED BY <3>1, <3>2
  <2>2. CASE ~IsRed(t, GetBrother(t, n))
    <3>1. u = t BY <2>2 DEF WithBlackBrother
    <3>2. QED BY <2>2, <3>1 DEF SameFrame
  <2>3. QED BY <2>1, <2>2
<1>2. PICK e, f : /\ Short(u, A, K, pos, e, f, n, y) /\ f[n] = h[n]
                  /\ \A d \in Sides : u.child_[d][n] = t.child_[d][n]
                  /\ SameFrame(t, u) /\ Tidy(u, B) /\ ~IsRed(u, GetBrother(u, n))
                  /\ \/ IsRed(u, u.parent_[n])
                     \/ u = t /\ e = edge
  BY <1>1
<1>3. CASE RedNephews(u, n) # {}
  <2>1. w = TurnNephew(u, n) /\ x = Nil BY <1>3
  <2>2. Level(u, w, A, K, pos, f, n, y) /\ Tidy(w, B) BY <1>2, <1>3, <2>1, TurnNephewKeeps
  <2>3. /\ SameFrame(t, w) /\ NoTwoRed(w, A, Nil) /\ n # w.root_
        /\ \A d \in Sides : w.child_[d][n] = t.child_[d][n]
    BY <1>2, <2>2 DEF Level, SameFrame
  <2>4. \E a, g : Shape(w, A, K, pos, a) /\ Even(w, A, g, Nil, y) /\ g[n] = h[n]
    BY <1>2, <2>2 DEF Level
  <2>5. QED BY <1>3, <2>1, <2>2, <2>3, <2>4 DEF Eased
<1>4. CASE RedNephews(u, n) = {}
  <2>1. w = PaintBrother(u, n) /\ x = IF IsRed(u, u.parent_[n]) THEN Nil ELSE u.parent_[n]
    BY <1>4
  <2>2. /\ SameFrame(u, w) /\ Tidy(w, B) /\ Shape(w, A, K, pos, e)
        /\ \E g : Even(w, A, g, x, y) /\ g[n] = f[n]
        /\ NoTwoRed(w, A, Nil)
        /\ u.parent_[n] \in A /\ w.color_[u.parent_[n]] = "black"
        /\ w.child_ = u.child_ /\ w.parent_ = u.parent_ /\ w.root_ = u.root_
    BY <1>2, <1>4, <2>1, PaintBrotherKeeps
  <2>3. n \in A /\ n # u.root_ /\ Shape(u, A, K, pos, e) BY <1>2 DEF Short
  <2>4. /\ SameFrame(t, w) /\ NoTwoRed(w, A, Nil) /\ n # w.root_
        /\ \A d \in Sides : w.child_[d][n] = t.child_[d][n]
    BY <1>2, <2>2, <2>3 DEF SameFrame
  <2>5. \E g : Even(w, A, g, x, y) /\ g[n] = h[n] BY <1>2, <2>2
  <2>6. CASE x = Nil
    <3>1. PICK g : Even(w, A, g, x, y) /\ g[n] = h[n] BY <2>5
    <3>2. Even(w, A, g, Nil, y) BY <2>6, <3>1
    <3>3. \E a, q : Shape(w, A, K, pos, a) /\ Even(w, A, q, Nil, y) /\ q[n] = h[n]
      BY <2>2, <3>1, <3>2
    <3>4. Eased(t, w, A, K, pos, edge, h, n, y, x) BY <2>4, <2>6, <3>3 DEF Eased
    <3>5. IsRed(u, u.parent_[n]) BY <1>0, <2>1, <2>2, <2>6
    <3>6. QED BY <2>2, <2>6, <3>4, <3>5
  <2>7. CASE x # Nil
    <3>1. ~IsRed(u, u.parent_[n]) /\ x = u.parent_[n] BY <2>1, <2>7
    <3>2. u = t /\ e = edge BY <1>2, <3>1
    <3>3. x # n BY <2>3, <3>1, ParentFacts
    <3>4. QED BY <2>2, <2>4, <2>5, <2>7, <3>1, <3>2, <3>3 DEF Eased
  <2>8. QED BY <2>6, <2>7
<1>5. QED BY <1>3, <1>4

\* The loop: while it is at a node, this is black and under it a black node is missing.
Raising(t, B, A, K, pos, edge, u, m) ==
    /\ u \in Trees /\ SameFrame(t, u) /\ Tidy(u, B) /\ B \in SUBSET Nodes /\ A \subseteq B
    /\ IF m = Nil THEN Balance(u, A, K, pos, Nil)
       ELSE /\ m \in A /\ u.color_[m] = "black"
            /\ Shape(u, A, K, pos, edge) /\ NoTwoRed(u, A, Nil)
            /\ \E h : Even(u, A, h, m, Nil)

\* A round of the loop upwards leaves a tree and a node.
LEMMA UpwardsRoundPair ==
    ASSUME NEW u, NEW m PROVE \E v, k : UpwardsRound(<<u, m>>) = <<v, k>>
<1>1. <<u, m>>[1] = u /\ <<u, m>>[2] = m OBVIOUS
<1>2. QED BY <1>1 DEF UpwardsRound

\* A round of the loop: it stops with a tree in balance, or goes up to the parent.
LEMMA UpwardsRoundKeeps ==
    ASSUME NEW t, NEW B, NEW A, NEW K, NEW pos, NEW edge, NEW u, NEW m,
           Raising(t, B, A, K, pos, edge, u, m),
           NEW v, NEW k, UpwardsRound(<<u, m>>) = <<v, k>>
    PROVE  /\ Raising(t, B, A, K, pos, edge, v, k)
           /\ m = Nil => v = u /\ k = Nil
           /\ k # Nil => Width(edge, m) < Width(edge, k)
<1>0. <<u, m>>[1] = u /\ <<u, m>>[2] = m OBVIOUS
<1>1. CASE m = Nil
  <2>1. UpwardsRound(<<u, m>>) = <<u, m>> BY <1>1 DEF UpwardsRound
  <2>2. v = u /\ k = m BY <2>1
  <2>3. QED BY <1>1, <2>2
<1>2. CASE m # Nil
  <2>1. /\ u \in Trees /\ SameFrame(t, u) /\ Tidy(u, B) /\ B \in SUBSET Nodes /\ A \subseteq B
        /\ m \in A /\ u.color_[m] = "black"
        /\ Shape(u, A, K, pos, edge) /\ NoTwoRed(u, A, Nil)
    BY <1>2 DEF Raising
  <2>2. PICK h : Even(u, A, h, m, Nil) BY <1>2 DEF Raising
  <2>3. A \in SUBSET Nodes /\ Nil \notin A BY <2>1, TreeAssumption DEF Shape
  <2>4. CASE u.parent_[m] = Nil
    <3>1. UpwardsRound(<<u, m>>) = <<u, Nil>> BY <1>0, <1>2, <2>4 DEF UpwardsRound
    <3>2. v = u /\ k = Nil BY <3>1
    <3>3. \A n \in A, d \in Sides : u.child_[d][n] # m BY <1>2, <2>1, <2>3, <2>4, ChildFacts
    <3>4. Even(u, A, h, Nil, Nil) BY <2>2, <3>3 DEF Even
    <3>5. Balance(u, A, K, pos, Nil) BY <2>1, <3>4 DEF Balance
    <3>6. QED BY <1>2, <2>1, <3>2, <3>5 DEF Raising
  <2>5. CASE u.parent_[m] # Nil
    <3> DEFINE b == WithBlackBrother(u, m)
               w == IF RedNephews(b, m) # {} THEN TurnNephew(b, m) ELSE PaintBrother(b, m)
               x == IF RedNephews(b, m) # {} \/ IsRed(b, b.parent_[m]) THEN Nil
                    ELSE b.parent_[m]
    <3>1. UpwardsRound(<<u, m>>) = <<w, x>> BY <1>0, <1>2, <2>5 DEF UpwardsRound
    <3>2. v = w /\ k = x BY <3>1
    <3>3. Short(u, A, K, pos, edge, h, m, Nil)
      <4>1. m # u.root_ BY <2>1, <2>5, ParentFacts
      <4>2. QED BY <2>1, <2>2, <4>1 DEF Short
    <3>4. Eased(u, w, A, K, pos, edge, h, m, Nil, x) /\ Tidy(w, B)
      <4> HIDE DEF w, x, b
      <4>0. b = WithBlackBrother(u, m) BY DEF b
      <4>1. w = IF RedNephews(b, m) # {} THEN TurnNephew(b, m) ELSE PaintBrother(b, m) BY DEF w
      <4>2. x = IF RedNephews(b, m) # {} \/ IsRed(b, b.parent_[m]) THEN Nil ELSE b.parent_[m]
        BY DEF x
      <4>3. QED BY <2>1, <3>3, <4>0, <4>1, <4>2, RoundEases
    <3> HIDE DEF w, x, b
    <3>5. SameFrame(t, w) BY <2>1, <3>4 DEF Eased, SameFrame
    <3>6. CASE x = Nil
      <4>1. \E e, f : Shape(w, A, K, pos, e) /\ Even(w, A, f, Nil, Nil)
        BY <3>4, <3>6 DEF Eased
      <4>2. Balance(w, A, K, pos, Nil) BY <3>4, <4>1 DEF Eased, Balance
      <4>3. w \in Trees BY <4>1 DEF Shape
      <4>4. Raising(t, B, A, K, pos, edge, w, x) BY <2>1, <3>4, <3>5, <3>6, <4>2, <4>3 DEF Raising
      <4>5. QED BY <1>2, <3>2, <3>6, <4>4
    <3>7. CASE x # Nil
      <4>1. /\ x = u.parent_[m] /\ x \in A /\ w.color_[x] = "black"
            /\ Shape(w, A, K, pos, edge) /\ NoTwoRed(w, A, Nil)
            /\ \E f : Even(w, A, f, x, Nil)
        BY <3>4, <3>7 DEF Eased
      <4>2. w \in Trees BY <4>1 DEF Shape
      <4>3. Raising(t, B, A, K, pos, edge, w, x) BY <2>1, <3>4, <3>5, <3>7, <4>1, <4>2 DEF Raising
      <4>4. Width(edge, m) < Width(edge, x) BY <2>1, <2>5, <4>1, Narrower
      <4>5. QED BY <1>2, <3>2, <4>3, <4>4
    <3>8. QED BY <3>6, <3>7
  <2>6. QED BY <2>4, <2>5
<1>3. QED BY <1>1, <1>2

\* The loop ends, with a tree in balance.
LEMMA UpwardsKeeps ==
    ASSUME NEW t, NEW B, NEW A, NEW K, NEW pos, NEW edge, NEW n,
           Raising(t, B, A, K, pos, edge, t, n), n # Nil, K <= Cardinality(Nodes)
    PROVE  Raising(t, B, A, K, pos, edge, AdjustUpwards(t, n), Nil)
<1> DEFINE N == Cardinality(Nodes)
           S == {l \in Trees \X NodesOrNil : Raising(t, B, A, K, pos, edge, l[1], l[2])}
           Done == {l \in S : l[2] = Nil}
           f == [l \in S |-> UpwardsRound(l)]
           rank == [l \in S |-> IF l[2] = Nil THEN 0 ELSE K + 1 - Width(edge, l[2])]
           s0 == <<t, n>>
<1>0. N \in Nat BY FS_CardinalityType, TreeAssumption
<1>1. /\ Shape(t, A, K, pos, edge) /\ n \in A /\ A \subseteq Nodes /\ K \in Nat /\ Nil \notin Nodes
  BY TreeAssumption DEF Raising, Shape
<1>2. s0 \in S
  <2>1. t \in Trees /\ n \in NodesOrNil BY <1>1 DEF Shape, NodesOrNil
  <2>2. QED BY <2>1
<1>3. ASSUME NEW l \in S
      PROVE  /\ UpwardsRound(l) \in S
             /\ l[2] = Nil => UpwardsRound(l)[2] = Nil
             /\ UpwardsRound(l)[2] # Nil => Width(edge, l[2]) < Width(edge, UpwardsRound(l)[2])
  <2>1. PICK u, m : l = <<u, m>> /\ Raising(t, B, A, K, pos, edge, u, m) OBVIOUS
  <2>2. PICK v, k : UpwardsRound(l) = <<v, k>> BY <2>1, UpwardsRoundPair
  <2>3. /\ Raising(t, B, A, K, pos, edge, v, k)
        /\ m = Nil => v = u /\ k = Nil
        /\ k # Nil => Width(edge, m) < Width(edge, k)
    BY <2>1, <2>2, UpwardsRoundKeeps
  <2>4. v \in Trees /\ k \in NodesOrNil BY <1>1, <2>3 DEF Raising, NodesOrNil
  <2>5. QED BY <2>1, <2>2, <2>3, <2>4
<1>4. \A l \in S : l[2] # Nil => Width(edge, l[2]) \in 2..(K + 1)
  <2>1. SUFFICES ASSUME NEW l \in S, l[2] # Nil PROVE Width(edge, l[2]) \in 2..(K + 1) OBVIOUS
  <2>2. Shape(l[1], A, K, pos, edge) /\ l[2] \in A BY <2>1 DEF Raising
  <2>3. QED BY <2>2, Narrower
<1>5. f \in [S -> S] /\ Done \in SUBSET S BY <1>3
<1>6. rank \in [S -> Nat] BY <1>1, <1>4
<1>7. \A l \in Done : f[l] \in Done BY <1>3
<1>8. \A l \in S \ Done : f[l] \in Done \/ rank[f[l]] < rank[l]
  <2>1. SUFFICES ASSUME NEW l \in S \ Done, f[l] \notin Done PROVE rank[f[l]] < rank[l] OBVIOUS
  <2>2. f[l] = UpwardsRound(l) /\ f[l] \in S BY <1>3
  <2>3. l[2] # Nil /\ f[l][2] # Nil BY <2>1, <2>2
  <2>4. Width(edge, l[2]) < Width(edge, f[l][2]) BY <1>3, <2>2, <2>3
  <2>5. QED BY <1>1, <1>4, <2>2, <2>3, <2>4
<1>9. rank[s0] < N BY <1>0, <1>1, <1>2, <1>4
<1>10. PICK g : Run(g, N, S, f, s0) /\ g[N] \in Done
  <2> HIDE DEF S, f, rank, s0, Done, N
  <2>1. QED BY <1>0, <1>2, <1>5, <1>6, <1>7, <1>8, <1>9, Loops
<1>11. /\ g \in [0..N -> S] /\ g[0] = s0
       /\ \A i \in 1..N : g[i] = UpwardsRound(g[i - 1])
  <2>1. /\ g \in [0..N -> S] /\ g[0] = s0
        /\ \A i \in 1..N : g[i] = f[g[i - 1]]
    BY <1>10 DEF Run
  <2>2. \A i \in 1..N : g[i - 1] \in S BY <1>0, <2>1
  <2>3. QED BY <2>1, <2>2
<1>12. g = [i \in 0..N |-> IF i = 0 THEN s0 ELSE UpwardsRound(g[i - 1])]
  <2> HIDE DEF S, f, s0, N
  <2>1. QED BY <1>0, <1>11
<1>13. PICK F : /\ F = [i \in 0..N |-> IF i = 0 THEN s0 ELSE UpwardsRound(F[i - 1])]
                /\ Rounds(UpwardsRound, s0) = F[N]
  <2> HIDE DEF S, f, s0
  <2>1. QED BY <1>12 DEF Rounds
<1>14. F[N] = g[N]
  <2> HIDE DEF S, f, s0, N
  <2>1. F[0] = g[0] BY <1>0, <1>11, <1>13
  <2>2. \A i \in 0..N : i < N /\ F[i] = g[i] => F[i + 1] = g[i + 1]
    <3>1. SUFFICES ASSUME NEW i \in 0..N, i < N, F[i] = g[i] PROVE F[i + 1] = g[i + 1] OBVIOUS
    <3>2. i + 1 \in 0..N /\ i + 1 # 0 /\ (i + 1) - 1 = i BY <1>0, <3>1
    <3>3. QED BY <1>12, <1>13, <3>1, <3>2
  <2>3. \A i \in 0..N : F[i] = g[i] BY <1>0, <2>1, <2>2, SameRun
  <2>4. N \in 0..N BY <1>0
  <2>5. QED BY <2>3, <2>4
<1>15. AdjustUpwards(t, n) = g[N][1] BY <1>13, <1>14 DEF AdjustUpwards
<1>16. QED BY <1>10, <1>15

\* A black leaf: the shortage it leaves behind is made good, or handed up.
LEMMA DropBlackLeafKeeps ==
    ASSUME NEW t, NEW A, NEW K, NEW pos, NEW edge, Shape(t, A, K, pos, edge),
           NEW h, Even(t, A, h, Nil, Nil), NoTwoRed(t, A, Nil),
           NEW n \in A, n # t.root_, t.color_[n] = "black", \A d \in Sides : t.child_[d][n] = Nil,
           EndsBut(t, A, K, pos, n), Tidy(t, A), K <= Cardinality(Nodes),
           NEW u, u = DropBlackLeaf(t, n)
    PROVE  Rid(t, u, A \ {n}, K - 1, PosWithout(pos, n), n)
<1> DEFINE f == [h EXCEPT ![n] = 0]
           b == WithBlackBrother(t, n)
           w == IF RedNephews(b, n) # {} THEN TurnNephew(b, n) ELSE PaintBrother(b, n)
           x == IF RedNephews(b, n) # {} \/ IsRed(b, b.parent_[n]) THEN Nil ELSE b.parent_[n]
           v == Unlink(w, n)
<1>1. A \in SUBSET Nodes /\ Nil \notin A /\ n \in Nodes /\ t \in Trees /\ K \in Nat
  BY TreeAssumption DEF Shape
<1>2. /\ f \in [Nodes -> Nat] /\ f[n] = 0 /\ \A m \in Nodes \ {n} : f[m] = h[m]
      /\ h \in [Nodes -> Nat]
  BY <1>1 DEF Even
<1> HIDE DEF f
<1>3. h[n] = 1
  <2>1. "left" \in Sides BY DEF Sides
  <2>2. n \in A \ {Nil} BY <1>1
  <2>3. h[n] = 0 + 1 BY <2>1, <2>2 DEF Even
  <2>4. QED BY <2>3
<1>4. Even(t, A, f, n, n)
  <2>1. SUFFICES ASSUME NEW m \in A \ {n}, NEW d \in Sides
                 PROVE  f[m] = (IF t.child_[d][m] = Nil THEN 0
                                ELSE IF t.child_[d][m] = n THEN f[t.child_[d][m]] + 1
                                ELSE f[t.child_[d][m]])
                               + (IF t.color_[m] = "red" THEN 0 ELSE 1)
    BY <1>2 DEF Even
  <2>2. m \in A \ {Nil} /\ m \in Nodes \ {n} BY <1>1
  <2>3. h[m] = (IF t.child_[d][m] = Nil THEN 0
                ELSE IF t.child_[d][m] = Nil THEN h[t.child_[d][m]] + 1
                ELSE h[t.child_[d][m]])
               + (IF t.color_[m] = "red" THEN 0 ELSE 1)
    BY <2>2 DEF Even
  <2>4. t.child_[d][m] # Nil => t.child_[d][m] \in Nodes BY <1>1, ChildFacts
  <2>5. f[m] = h[m] BY <1>2, <2>2
  <2>6. CASE t.child_[d][m] = n BY <1>1, <1>2, <1>3, <2>3, <2>5, <2>6
  <2>7. CASE t.child_[d][m] # n
    <3>1. t.child_[d][m] # Nil => f[t.child_[d][m]] = h[t.child_[d][m]] BY <1>2, <2>4, <2>7
    <3>2. QED BY <2>3, <2>5, <2>7, <3>1
  <2>8. QED BY <2>6, <2>7
<1>5. Short(t, A, K, pos, edge, f, n, n) BY <1>4 DEF Short
<1>6. u = IF RedNephews(b, n) # {} \/ IsRed(b, b.parent_[n]) THEN v
          ELSE AdjustUpwards(v, b.parent_[n])
  <2>1. CASE RedNephews(b, n) # {} BY <2>1 DEF DropBlackLeaf
  <2>2. CASE RedNephews(b, n) = {} BY <2>2 DEF DropBlackLeaf
  <2>3. QED BY <2>1, <2>2
<1>7. /\ Eased(t, w, A, K, pos, edge, f, n, n, x) /\ Tidy(w, A)
      /\ x = Nil => RedNephews(b, n) # {} \/ IsRed(b, b.parent_[n])
  <2> HIDE DEF w, x, b
  <2>0. b = WithBlackBrother(t, n) BY DEF b
  <2>1. w = IF RedNephews(b, n) # {} THEN TurnNephew(b, n) ELSE PaintBrother(b, n) BY DEF w
  <2>2. x = IF RedNephews(b, n) # {} \/ IsRed(b, b.parent_[n]) THEN Nil ELSE b.parent_[n]
    BY DEF x
  <2>3. A \subseteq A OBVIOUS
  <2>4. QED BY <1>1, <1>5, <2>0, <2>1, <2>2, <2>3, RoundEases
<1>8. u = IF x = Nil THEN v ELSE AdjustUpwards(v, x)
  <2> HIDE DEF v, b
  <2>1. QED BY <1>6, <1>7
<1> HIDE DEF x, b, w
<1>9. /\ SameFrame(t, w) /\ NoTwoRed(w, A, Nil) /\ n # w.root_
      /\ \A d \in Sides : w.child_[d][n] = Nil
      /\ EndsBut(w, A, K, pos, n)
  BY <1>7 DEF Eased, SameFrame, EndsBut
<1> DEFINE D == A \ {n}
           P == PosWithout(pos, n)
<1>10. ASSUME NEW e, NEW g, Shape(w, A, K, pos, e), Even(w, A, g, x, n), g[n] = f[n], x # n
       PROVE  /\ Shape(v, D, K - 1, P, EdgeWithout(pos, e, n))
              /\ Even(v, D, g, x, Nil) /\ NoTwoRed(v, D, Nil)
              /\ Ends(v, D, K - 1, P) /\ Tidy(v, A)
              /\ v.size_ = w.size_ /\ v.alive = w.alive /\ v.root_ = w.root_
              /\ v.parent_ = w.parent_ /\ v.color_ = w.color_
  BY <1>2, <1>7, <1>9, <1>10, UnlinkKeeps
<1> HIDE DEF v
<1>11. D \cup {n} = A OBVIOUS
<1>12. CASE x = Nil
  <2>1. PICK e, g : Shape(w, A, K, pos, e) /\ Even(w, A, g, Nil, n) /\ g[n] = f[n]
    BY <1>7, <1>12 DEF Eased
  <2>2. x # n BY <1>1, <1>12
  <2>3. /\ Shape(v, D, K - 1, P, EdgeWithout(pos, e, n))
        /\ Even(v, D, g, Nil, Nil) /\ NoTwoRed(v, D, Nil)
        /\ Ends(v, D, K - 1, P) /\ Tidy(v, A)
        /\ v.size_ = w.size_ /\ v.alive = w.alive
    BY <1>10, <1>12, <2>1, <2>2
  <2> HIDE DEF D, P
  <2>4. Balance(v, D, K - 1, P, Nil) BY <2>3 DEF Balance
  <2>5. v \in Trees BY <2>3 DEF Shape
  <2>6. v.size_ = t.size_ /\ v.alive = t.alive BY <1>9, <2>3 DEF SameFrame
  <2>7. QED BY <1>8, <1>11, <1>12, <2>3, <2>4, <2>5, <2>6 DEF Rid, D, P
<1>13. CASE x # Nil
  <2>1. /\ x = t.parent_[n] /\ x \in A /\ x # n /\ w.color_[x] = "black"
        /\ Shape(w, A, K, pos, edge)
    BY <1>7, <1>13 DEF Eased
  <2>2. PICK g : Even(w, A, g, x, n) /\ g[n] = f[n] BY <1>7, <1>13 DEF Eased
  <2> DEFINE e == EdgeWithout(pos, edge, n)
             z == AdjustUpwards(v, x)
  <2>3. /\ Shape(v, D, K - 1, P, e)
        /\ Even(v, D, g, x, Nil) /\ NoTwoRed(v, D, Nil)
        /\ Ends(v, D, K - 1, P) /\ Tidy(v, A)
        /\ v.size_ = w.size_ /\ v.alive = w.alive /\ v.color_ = w.color_
    BY <1>10, <2>1, <2>2
  <2>4. D \subseteq A /\ x \in D BY <2>1
  <2> HIDE DEF D, P, e
  <2>5. v \in Trees BY <2>3 DEF Shape
  <2>6. v.size_ = t.size_ /\ v.alive = t.alive BY <1>9, <2>3 DEF SameFrame
  <2>7. Raising(v, A, D, K - 1, P, e, v, x)
    BY <1>1, <1>13, <2>1, <2>2, <2>3, <2>4, <2>5 DEF Raising, SameFrame
  <2>8. K - 1 <= Cardinality(Nodes)
    <3>1. Cardinality(Nodes) \in Nat BY FS_CardinalityType, TreeAssumption
    <3>2. QED BY <1>1, <3>1
  <2>9. Raising(v, A, D, K - 1, P, e, z, Nil) BY <1>13, <2>7, <2>8, UpwardsKeeps
  <2> HIDE DEF z
  <2>10. /\ z \in Trees /\ SameFrame(v, z) /\ Tidy(z, A) /\ Balance(z, D, K - 1, P, Nil)
    BY <2>9 DEF Raising
  <2>11. Ends(z, D, K - 1, P) BY <2>3, <2>10 DEF Ends, SameFrame
  <2>12. z.size_ = t.size_ /\ z.alive = t.alive BY <2>6, <2>10 DEF SameFrame
  <2>13. u = z BY <1>8, <1>13 DEF z
  <2>14. QED BY <1>11, <2>10, <2>11, <2>12, <2>13 DEF Rid, D, P
<1>14. QED BY <1>12, <1>13

------------------------------------------------------------------------------
(* The ends of a subtree *)

\* Outermost goes down one side for as long as there is a child.
LEMMA OutermostFacts ==
    ASSUME NEW t, NEW A, NEW K, NEW pos, NEW edge, Shape(t, A, K, pos, edge),
           Tidy(t, A), NEW n \in A, NEW s \in Sides,
           NEW r, r = Outermost(t, n, s)
    PROVE  r \in A /\ t.child_[s][r] = Nil /\ edge[s][r] = edge[s][n]
<1> DEFINE Next1(q) == t.child_[s][q]
           Stop == {q \in Nodes : Next1(q) = Nil}
           rank == [q \in Nodes |-> IF q \in A THEN Width(edge, q) ELSE 0]
           next == [q \in Nodes \ Stop |-> Next1(q)]
           val == [q \in Nodes |-> q]
           Goal(q, e) == q \in A /\ t.child_[s][q] = Nil /\ edge[s][q] = e
<1>1. /\ A \subseteq Nodes /\ t \in Trees /\ K \in Nat /\ Nil \notin Nodes
      /\ pos \in [Nodes -> Int] /\ edge \in [Sides -> [Nodes -> Int]]
  BY TreeAssumption DEF Shape, Placed
<1>2. \A q \in Nodes \ Stop : /\ q \in A /\ Next1(q) \in A /\ Next1(q) # Nil
                              /\ Width(edge, Next1(q)) < Width(edge, q)
  <2>1. SUFFICES ASSUME NEW q \in Nodes \ Stop
                 PROVE  /\ q \in A /\ Next1(q) \in A /\ Next1(q) # Nil
                        /\ Width(edge, Next1(q)) < Width(edge, q)
    OBVIOUS
  <2>2. Next1(q) # Nil OBVIOUS
  <2>3. q \in A BY <2>2 DEF Tidy
  <2>4. QED BY <2>2, <2>3, ChildFacts, Narrower
<1>3. /\ rank \in [Nodes -> 0..(K + 1)] /\ K + 1 \in Nat
      /\ next \in [Nodes \ Stop -> Nodes] /\ Stop \in SUBSET Nodes
  <2>1. \A q \in A : Width(edge, q) \in 0..(K + 1) BY <1>1, Narrower
  <2>2. QED BY <1>1, <1>2, <2>1
<1>4. \A d \in Nodes \ Stop : rank[next[d]] < rank[d] BY <1>1, <1>2
<1>5. \E f : Along(f, Nodes, Stop, val, next)
  <2> HIDE DEF rank, next, Stop, val
  <2>1. QED BY <1>3, <1>4, Walks
<1>6. \E f : f = [q \in Nodes |-> IF Next1(q) = Nil THEN q ELSE f[Next1(q)]]
  <2>1. PICK f : f = [q \in Nodes |-> IF q \in Stop THEN val[q] ELSE f[next[q]]]
    BY <1>5 DEF Along
  <2>2. f = [q \in Nodes |-> IF Next1(q) = Nil THEN q ELSE f[Next1(q)]]
    <3>1. ASSUME NEW q \in Nodes
          PROVE  (IF q \in Stop THEN val[q] ELSE f[next[q]])
                 = (IF Next1(q) = Nil THEN q ELSE f[Next1(q)])
      OBVIOUS
    <3> HIDE DEF Stop, next, val, Next1
    <3>2. QED BY <2>1, <3>1
  <2>3. QED BY <2>2
<1>7. PICK f : /\ f = [q \in Nodes |-> IF Next1(q) = Nil THEN q ELSE f[Next1(q)]]
               /\ r = f[n]
  BY <1>6 DEF Outermost
<1> DEFINE B == {q \in A : ~Goal(f[q], edge[s][q])}
<1>8. B = {}
  <2>1. SUFFICES ASSUME B # {} PROVE FALSE OBVIOUS
  <2>2. PICK q \in B : \A d \in Sides : t.child_[d][q] \notin B
    <3>1. B \in SUBSET A OBVIOUS
    <3> HIDE DEF B
    <3>2. QED BY <2>1, <3>1, Lowest
  <2>3. q \in A /\ q \in Nodes /\ ~Goal(f[q], edge[s][q]) BY <1>1
  <2>4. Next1(q) # Nil
    <3>1. SUFFICES ASSUME Next1(q) = Nil PROVE FALSE OBVIOUS
    <3>2. f[q] = q BY <1>7, <2>3, <3>1
    <3>3. QED BY <2>3, <3>1, <3>2
  <2> DEFINE c == Next1(q)
  <2>5. f[q] = f[c] BY <1>7, <2>3, <2>4
  <2>6. c \in A /\ edge[s][c] = edge[s][q] BY <2>3, <2>4, ChildFacts
  <2>7. c \notin B BY <2>2
  <2>8. QED BY <2>3, <2>5, <2>6, <2>7
<1>9. QED BY <1>7, <1>8

------------------------------------------------------------------------------
(* Erase: a node and its predecessor change places *)

Swap(n, r, m) == IF m = n THEN r ELSE IF m = r THEN n ELSE m

\* The tree with the names of two nodes exchanged.
Renamed(t, n, r) ==
    [t EXCEPT !.root_ = Swap(n, r, @),
              !.child_ = [d \in Sides |-> [m \in Nodes |->
                            Swap(n, r, t.child_[d][Swap(n, r, m)])]],
              !.parent_ = [m \in Nodes |-> Swap(n, r, t.parent_[Swap(n, r, m)])],
              !.color_ = [m \in Nodes |-> t.color_[Swap(n, r, m)]]]

Exchanged(t, w, n, r) ==
    /\ w \in Trees /\ SameFrame(t, w) /\ w.root_ = Swap(n, r, t.root_)
    /\ \A m \in Nodes :
        /\ w.parent_[m] = Swap(n, r, t.parent_[Swap(n, r, m)])
        /\ w.color_[m] = t.color_[Swap(n, r, m)]
        /\ \A d \in Sides : w.child_[d][m] = Swap(n, r, t.child_[d][Swap(n, r, m)])

\* What the exchange of two names does to each link.
LEMMA RenamedFields ==
    ASSUME NEW t \in Trees, NEW n \in Nodes, NEW r \in Nodes
    PROVE  Exchanged(t, Renamed(t, n, r), n, r)
<1>1. \A m \in NodesOrNil : Swap(n, r, m) \in NodesOrNil BY DEF Swap, NodesOrNil
<1>2. \A m \in Nodes : Swap(n, r, m) \in Nodes BY DEF Swap
<1> DEFINE w == Renamed(t, n, r)
           ro == Swap(n, r, t.root_)
           ch == [d \in Sides |-> [m \in Nodes |-> Swap(n, r, t.child_[d][Swap(n, r, m)])]]
           pa == [m \in Nodes |-> Swap(n, r, t.parent_[Swap(n, r, m)])]
           co == [m \in Nodes |-> t.color_[Swap(n, r, m)]]
<1>3. /\ ro \in NodesOrNil /\ ch \in [Sides -> [Nodes -> NodesOrNil]]
      /\ pa \in [Nodes -> NodesOrNil] /\ co \in [Nodes -> Colors]
  BY <1>1, <1>2 DEF Trees
<1>4. w = [t EXCEPT !.root_ = ro, !.child_ = ch, !.parent_ = pa, !.color_ = co]
  BY DEF Renamed
<1> HIDE DEF w, ro, ch, pa, co
<1>5. /\ w \in Trees /\ SameFrame(t, w) /\ w.root_ = ro /\ w.child_ = ch /\ w.parent_ = pa
      /\ w.color_ = co
  BY <1>3, <1>4 DEF Trees, SameFrame
<1>6. \A m \in Nodes : /\ w.parent_[m] = Swap(n, r, t.parent_[Swap(n, r, m)])
                       /\ w.color_[m] = t.color_[Swap(n, r, m)]
                       /\ \A d \in Sides : w.child_[d][m] = Swap(n, r, t.child_[d][Swap(n, r, m)])
  BY <1>5 DEF pa, co, ch
<1>7. w.root_ = Swap(n, r, t.root_) BY <1>5 DEF ro
<1>8. QED BY <1>5, <1>6, <1>7 DEF Exchanged, w

\* Nothing but the names has changed: the shape, the heights and the colours are the same.
LEMMA RenamedKeeps ==
    ASSUME NEW t, NEW A, NEW K, NEW pos, NEW edge, Shape(t, A, K, pos, edge),
           NEW h, Even(t, A, h, Nil, Nil), NoTwoRed(t, A, Nil), Tidy(t, A),
           NEW n \in A, NEW r \in A, NEW w, Exchanged(t, w, n, r)
    PROVE  LET p == [m \in Nodes |-> pos[Swap(n, r, m)]]
               e == [d \in Sides |-> [m \in Nodes |-> edge[d][Swap(n, r, m)]]]
               g == [m \in Nodes |-> h[Swap(n, r, m)]]
           IN  /\ Shape(w, A, K, p, e) /\ Even(w, A, g, Nil, Nil) /\ NoTwoRed(w, A, Nil)
               /\ Tidy(w, A)
<1> DEFINE X(m) == Swap(n, r, m)
           p == [m \in Nodes |-> pos[X(m)]]
           e == [d \in Sides |-> [m \in Nodes |-> edge[d][X(m)]]]
           g == [m \in Nodes |-> h[X(m)]]
<1>1. /\ A \subseteq Nodes /\ t \in Trees /\ K \in Nat /\ Nil \notin Nodes /\ Nil \notin A
      /\ pos \in [Nodes -> Int] /\ edge \in [Sides -> [Nodes -> Int]] /\ h \in [Nodes -> Nat]
      /\ n \in Nodes /\ r \in Nodes
      /\ "left" \in Sides /\ "right" \in Sides /\ \A d \in Sides : Opposite(d) \in Sides
  BY TreeAssumption DEF Shape, Placed, Even, Sides, Opposite
<1>2. /\ \A m : X(X(m)) = m
      /\ \A m \in Nodes : X(m) \in Nodes
      /\ \A m \in A : X(m) \in A
      /\ \A m \in Nodes \ A : X(m) = m
      /\ X(Nil) = Nil
      /\ \A a, b : X(a) = X(b) => a = b
  BY <1>1 DEF Swap
<1>3. /\ w \in Trees /\ SameFrame(t, w) /\ w.root_ = X(t.root_)
      /\ \A m \in Nodes :
           /\ w.parent_[m] = X(t.parent_[X(m)])
           /\ w.color_[m] = t.color_[X(m)]
           /\ \A d \in Sides : w.child_[d][m] = X(t.child_[d][X(m)])
  BY DEF Exchanged
<1>4. \A m \in A : p[m] = pos[X(m)] /\ g[m] = h[X(m)] /\ \A d \in Sides : e[d][m] = edge[d][X(m)]
  BY <1>1
<1>5. p \in [Nodes -> Int] /\ e \in [Sides -> [Nodes -> Int]] /\ g \in [Nodes -> Nat]
  BY <1>1, <1>2
<1> HIDE DEF X, p, e, g
<1>6. Placed(A, K, p, e) BY <1>1, <1>2, <1>4, <1>5 DEF Shape, Placed
<1>7. ASSUME NEW m \in A, NEW d \in Sides, w.child_[d][m] # Nil
      PROVE  /\ w.child_[d][m] \in A /\ t.child_[d][X(m)] # Nil /\ X(w.child_[d][m]) = t.child_[d][X(m)]
             /\ X(w.child_[d][m]) \in A /\ w.parent_[w.child_[d][m]] = m
             /\ e[d][w.child_[d][m]] = e[d][m] /\ e[Opposite(d)][w.child_[d][m]] = p[m]
  <2> DEFINE a == t.child_[d][X(m)]
  <2>1. X(m) \in A /\ w.child_[d][m] = X(a) BY <1>1, <1>2, <1>3
  <2>2. a # Nil BY <1>2, <1>7, <2>1
  <2>3. /\ a \in A /\ t.parent_[a] = X(m) /\ edge[d][a] = edge[d][X(m)]
        /\ edge[Opposite(d)][a] = pos[X(m)]
    BY <2>1, <2>2, ChildFacts
  <2> HIDE DEF a
  <2>4. X(X(a)) = a /\ X(a) \in A BY <1>2, <2>3
  <2>5. w.parent_[X(a)] = m BY <1>1, <1>2, <1>3, <2>3, <2>4
  <2>6. e[d][X(a)] = edge[d][a] /\ e[Opposite(d)][X(a)] = edge[Opposite(d)][a]
    BY <1>1, <1>4, <2>4
  <2>7. e[d][m] = edge[d][X(m)] /\ p[m] = pos[X(m)] BY <1>4
  <2>8. QED BY <2>1, <2>2, <2>3, <2>4, <2>5, <2>6, <2>7 DEF a
<1>8. Downwards(w, A, p, e) BY <1>7 DEF Downwards
<1>9. Gapless(w, A, p, e)
  <2>1. SUFFICES ASSUME NEW m \in A
                 PROVE  /\ w.child_["left"][m] = Nil => e["left"][m] = p[m] - 1
                        /\ w.child_["right"][m] = Nil => e["right"][m] = p[m] + 1
    BY DEF Gapless
  <2>2. X(m) \in A BY <1>2
  <2>3. \A d \in Sides : w.child_[d][m] = Nil => t.child_[d][X(m)] = Nil BY <1>1, <1>2, <1>3
  <2>4. QED BY <1>1, <1>4, <2>2, <2>3 DEF Shape, Gapless
<1>10. Upwards(w, A)
  <2>1. SUFFICES ASSUME NEW m \in A, m # w.root_
                 PROVE  w.parent_[m] \in A /\ \E d \in Sides : w.child_[d][w.parent_[m]] = m
    BY DEF Upwards
  <2>2. X(m) \in A /\ X(m) # t.root_ BY <1>2, <1>3, <2>1
  <2>3. t.parent_[X(m)] \in A /\ \E d \in Sides : t.child_[d][t.parent_[X(m)]] = X(m)
    BY <2>2 DEF Shape, Upwards
  <2>4. PICK d \in Sides : t.child_[d][t.parent_[X(m)]] = X(m) BY <2>3
  <2>5. w.parent_[m] = X(t.parent_[X(m)]) /\ w.parent_[m] \in A BY <1>1, <1>2, <1>3, <2>3
  <2>6. w.child_[d][w.parent_[m]] = X(t.child_[d][X(X(t.parent_[X(m)]))]) BY <1>1, <1>3, <2>5
  <2>7. w.child_[d][w.parent_[m]] = m BY <1>2, <2>4, <2>6
  <2>8. QED BY <2>5, <2>7
<1>11. Top(w, A, K, e)
  <2>1. t.root_ \in A /\ t.parent_[t.root_] = Nil
        /\ edge["left"][t.root_] = 0 /\ edge["right"][t.root_] = K + 1
    BY DEF Shape, Top
  <2>2. w.root_ \in A /\ X(w.root_) = t.root_ BY <1>2, <1>3, <2>1
  <2>3. QED BY <1>1, <1>2, <1>3, <1>4, <2>1, <2>2 DEF Top
<1>12. Shape(w, A, K, p, e)
  BY <1>1, <1>3, <1>6, <1>8, <1>9, <1>10, <1>11 DEF Shape
<1>13. Even(w, A, g, Nil, Nil)
  <2>1. SUFFICES ASSUME NEW m \in A, NEW d \in Sides
                 PROVE  g[m] = (IF w.child_[d][m] = Nil THEN 0
                                ELSE IF w.child_[d][m] = Nil THEN g[w.child_[d][m]] + 1
                                ELSE g[w.child_[d][m]])
                               + (IF w.color_[m] = "red" THEN 0 ELSE 1)
    BY <1>1, <1>5 DEF Even
  <2>2. X(m) \in A \ {Nil} BY <1>1, <1>2
  <2>3. h[X(m)] = (IF t.child_[d][X(m)] = Nil THEN 0
                   ELSE IF t.child_[d][X(m)] = Nil THEN h[t.child_[d][X(m)]] + 1
                   ELSE h[t.child_[d][X(m)]])
                  + (IF t.color_[X(m)] = "red" THEN 0 ELSE 1)
    BY <2>2 DEF Even
  <2>4. w.color_[m] = t.color_[X(m)] /\ g[m] = h[X(m)] BY <1>1, <1>3, <1>4
  <2>5. w.child_[d][m] = Nil <=> t.child_[d][X(m)] = Nil BY <1>1, <1>2, <1>3
  <2>6. w.child_[d][m] # Nil => g[w.child_[d][m]] = h[t.child_[d][X(m)]] BY <1>4, <1>7
  <2>7. QED BY <2>3, <2>4, <2>5, <2>6
<1>14. NoTwoRed(w, A, Nil)
  <2>1. t.root_ \in A /\ t.color_[t.root_] = "black" BY DEF NoTwoRed, Shape, Top
  <2>2. w.color_[w.root_] = "black" BY <1>1, <1>2, <1>3, <2>1
  <2>3. ASSUME NEW m \in A, NEW d \in Sides, w.color_[m] = "red", w.child_[d][m] # Nil
        PROVE  w.color_[w.child_[d][m]] = "black"
    <3>1. X(m) \in A /\ t.color_[X(m)] = "red" BY <1>1, <1>2, <1>3, <2>3
    <3>2. /\ t.child_[d][X(m)] # Nil /\ X(w.child_[d][m]) = t.child_[d][X(m)]
          /\ w.child_[d][m] \in A
      BY <1>7, <2>3
    <3>3. t.color_[t.child_[d][X(m)]] = "black" BY <3>1, <3>2 DEF NoTwoRed
    <3>4. QED BY <1>1, <1>3, <3>2, <3>3
  <2>4. QED BY <2>2, <2>3 DEF NoTwoRed
<1>15. Tidy(w, A)
  <2>1. SUFFICES ASSUME NEW m \in Nodes \ A
                 PROVE  /\ \A d \in Sides : w.child_[d][m] = Nil
                        /\ w.parent_[m] = Nil /\ w.color_[m] = "black"
    BY DEF Tidy
  <2>2. X(m) = m BY <1>2
  <2>3. (\A d \in Sides : t.child_[d][m] = Nil) /\ t.parent_[m] = Nil /\ t.color_[m] = "black"
    BY DEF Tidy
  <2>4. QED BY <1>2, <1>3, <2>2, <2>3
<1>16. QED BY <1>12, <1>13, <1>14, <1>15 DEF p, e, g, X

\* What lies around a node with two children and its predecessor.
LEMMA FormerFacts ==
    ASSUME NEW t, NEW A, NEW K, NEW pos, NEW edge, Shape(t, A, K, pos, edge), Tidy(t, A),
           NEW n \in A, \A d \in Sides : t.child_[d][n] # Nil,
           NEW c, c = t.child_["left"][n], NEW r, r = Outermost(t, c, "right")
    PROVE  /\ c \in A /\ r \in A /\ r # n /\ r # t.root_ /\ t.child_["right"][r] = Nil
           /\ pos[r] = pos[n] - 1 /\ t.parent_[r] \in A /\ t.parent_[r] # r
           /\ t.parent_[c] = n
           /\ r # c => t.parent_[r] # n /\ t.child_["right"][t.parent_[r]] = r
           /\ t.parent_[n] # n /\ t.parent_[n] # r
           /\ t.child_["right"][n] \in A \ {r, c} /\ t.parent_[t.child_["right"][n]] = n
           /\ pos[n] < pos[t.child_["right"][n]]
           /\ t.child_["left"][r] # n /\ t.child_["left"][r] # r
           /\ t.child_["left"][r] # Nil => t.parent_[t.child_["left"][r]] = r
<1> DEFINE d == t.child_["right"][n]
<1>1. /\ A \subseteq Nodes /\ t \in Trees /\ K \in Nat /\ Nil \notin Nodes /\ Nil \notin A
      /\ pos \in [Nodes -> Int] /\ edge \in [Sides -> [Nodes -> Int]]
      /\ "left" \in Sides /\ "right" \in Sides /\ "left" # "right"
      /\ \A e \in Sides : e = "left" \/ e = "right"
      /\ Opposite("left") = "right" /\ Opposite("right") = "left"
  BY TreeAssumption DEF Shape, Placed, Sides, Opposite
<1>2. \A m \in A : /\ pos[m] \in Int /\ edge["left"][m] \in Int /\ edge["right"][m] \in Int
                   /\ edge["left"][m] < pos[m] /\ pos[m] < edge["right"][m]
  BY <1>1 DEF Shape, Placed
<1>3. /\ c \in A /\ t.parent_[c] = n /\ c # n
      /\ edge["left"][c] = edge["left"][n] /\ edge["right"][c] = pos[n]
  BY <1>1, ChildFacts
<1>4. /\ d \in A /\ t.parent_[d] = n /\ d # n
      /\ edge["right"][d] = edge["right"][n] /\ edge["left"][d] = pos[n]
  BY <1>1, ChildFacts
<1> HIDE DEF d
<1>5. r \in A /\ t.child_["right"][r] = Nil /\ edge["right"][r] = pos[n]
  BY <1>1, <1>3, OutermostFacts
<1>6. pos[r] = pos[n] - 1
  <2>1. edge["right"][r] = pos[r] + 1 BY <1>5 DEF Shape, Gapless
  <2>2. QED BY <1>2, <1>5, <2>1
<1>7. r # n /\ r # d /\ c # d /\ pos[n] < pos[d] BY <1>2, <1>3, <1>4, <1>5, <1>6
<1>8. r # t.root_
  <2>1. edge["right"][t.root_] = K + 1 BY <1>3 DEF Shape, Top
  <2>2. pos[n] < K + 1 BY <1>1, <1>2 DEF Shape, Placed
  <2>3. QED BY <1>2, <1>5, <2>1, <2>2
<1>9. /\ t.parent_[r] \in A /\ t.parent_[r] # r /\ Side(t, r) \in Sides
      /\ t.child_[Side(t, r)][t.parent_[r]] = r /\ r # Nil
  BY <1>1, <1>5, <1>8, ParentFacts
<1>10. r # c => t.parent_[r] # n /\ t.child_["right"][t.parent_[r]] = r
  <2>1. SUFFICES ASSUME r # c
                 PROVE  t.parent_[r] # n /\ t.child_["right"][t.parent_[r]] = r
    OBVIOUS
  <2>2. t.parent_[r] # n BY <1>1, <1>7, <1>9, <2>1 DEF d
  <2>3. Side(t, r) # "left"
    <3>1. SUFFICES ASSUME Side(t, r) = "left" PROVE FALSE OBVIOUS
    <3>2. edge["right"][r] = pos[t.parent_[r]] BY <1>1, <1>9, <3>1, ChildFacts
    <3>3. t.parent_[r] = n BY <1>5, <1>9, <3>2 DEF Shape, Placed
    <3>4. QED BY <2>2, <3>3
  <2>4. QED BY <1>1, <1>9, <2>2, <2>3
<1>11. t.child_["left"][r] # n
  <2>1. SUFFICES ASSUME t.child_["left"][r] = n PROVE FALSE OBVIOUS
  <2>2. edge["right"][n] = pos[r] BY <1>1, <1>5, <2>1, ChildFacts
  <2>3. QED BY <1>2, <1>5, <1>6, <2>2
<1>12. t.parent_[n] # n BY <1>1, ParentFacts
<1>13. t.parent_[n] # r
  <2>1. SUFFICES ASSUME t.parent_[n] = r PROVE FALSE OBVIOUS
  <2>2. Side(t, n) \in Sides /\ t.child_[Side(t, n)][r] = n
    BY <1>1, <1>5, <2>1, ParentFacts
  <2>3. QED BY <1>1, <1>5, <1>11, <2>2
<1>14. /\ t.child_["left"][r] # r
       /\ t.child_["left"][r] # Nil => t.parent_[t.child_["left"][r]] = r
  BY <1>1, <1>5, <1>9, ChildFacts
<1>15. QED BY <1>3, <1>4, <1>5, <1>6, <1>7, <1>8, <1>9, <1>10, <1>11, <1>12, <1>13, <1>14 DEF d

\* What SetParent and Relink change.
Reparented(t, u, n, p) ==
    /\ u \in Trees /\ SameFrame(t, u) /\ u.root_ = t.root_ /\ u.color_ = t.color_
    /\ u.child_ = t.child_
    /\ \A m \in Nodes : u.parent_[m] = IF m = n THEN p ELSE t.parent_[m]

Relinked(t, u, n, r) ==
    /\ u \in Trees /\ SameFrame(t, u) /\ u.color_ = t.color_ /\ u.parent_ = t.parent_
    /\ u.root_ = IF t.parent_[n] = Nil THEN r ELSE t.root_
    /\ \A m \in Nodes, d \in Sides :
        u.child_[d][m] = IF m = t.parent_[n] /\ d = Side(t, n) THEN r ELSE t.child_[d][m]

\* SetParent writes one parent, none for a missing node.
LEMMA SetParentFields ==
    ASSUME NEW t \in Trees, NEW n \in NodesOrNil, NEW p \in NodesOrNil
    PROVE  Reparented(t, SetParent(t, n, p), n, p)
<1>0. Nil \notin Nodes BY TreeAssumption
<1>1. CASE n = Nil BY <1>0, <1>1 DEF SetParent, Reparented, SameFrame
<1>2. CASE n \in Nodes
  <2> DEFINE u == SetParent(t, n, p)
  <2>1. u = [t EXCEPT !.parent_[n] = p] BY <1>0, <1>2 DEF SetParent
  <2> HIDE DEF u
  <2>2. /\ u \in Trees /\ SameFrame(t, u) /\ u.root_ = t.root_ /\ u.color_ = t.color_
        /\ u.child_ = t.child_ /\ u.parent_ = [t.parent_ EXCEPT ![n] = p]
    BY <1>2, <2>1 DEF Trees, SameFrame
  <2>3. \A m \in Nodes : u.parent_[m] = IF m = n THEN p ELSE t.parent_[m]
    BY <1>2, <2>2 DEF Trees
  <2>4. QED BY <2>2, <2>3 DEF Reparented, u
<1>3. QED BY <1>1, <1>2 DEF NodesOrNil

\* Relink writes the root or one child.
LEMMA RelinkFields ==
    ASSUME NEW t \in Trees, NEW n \in Nodes, NEW r \in NodesOrNil
    PROVE  Relinked(t, Relink(t, n, r), n, r)
<1> DEFINE u == Relink(t, n, r)
           p == t.parent_[n]
           s == Side(t, n)
<1>0. Nil \notin Nodes /\ p \in NodesOrNil /\ s \in Sides BY TreeAssumption DEF Trees, Side, Sides
<1>1. u = IF p = Nil THEN [t EXCEPT !.root_ = r] ELSE [t EXCEPT !.child_[s][p] = r]
  BY DEF Relink
<1> HIDE DEF u, p, s
<1>2. CASE p = Nil
  <2>1. u = [t EXCEPT !.root_ = r] BY <1>1, <1>2
  <2>2. /\ u \in Trees /\ SameFrame(t, u) /\ u.color_ = t.color_ /\ u.parent_ = t.parent_
        /\ u.root_ = r /\ u.child_ = t.child_
    BY <2>1 DEF Trees, SameFrame
  <2>3. QED BY <1>0, <1>2, <2>2 DEF Relinked, u, p, s
<1>3. CASE p # Nil
  <2>1. p \in Nodes BY <1>0, <1>3 DEF NodesOrNil
  <2>2. u = [t EXCEPT !.child_[s][p] = r] BY <1>1, <1>3
  <2>3. /\ u \in Trees /\ SameFrame(t, u) /\ u.color_ = t.color_ /\ u.parent_ = t.parent_
        /\ u.root_ = t.root_ /\ u.child_ = [t.child_ EXCEPT ![s][p] = r]
    BY <1>0, <2>1, <2>2 DEF Trees, SameFrame
  <2>4. \A m \in Nodes, d \in Sides : u.child_[d][m] = IF m = p /\ d = s THEN r ELSE t.child_[d][m]
    BY <1>0, <2>1, <2>3 DEF Trees
  <2>5. QED BY <1>3, <2>3, <2>4 DEF Relinked, u, p, s
<1>4. QED BY <1>2, <1>3

\* What SwapWithFormer writes: r is the predecessor, p its parent, x its child, c and d
\* the children of n.
Swapped(t, u, n, r, c, d, x, p) ==
    /\ u \in Trees /\ SameFrame(t, u)
    /\ u.root_ = IF t.parent_[n] = Nil THEN r ELSE t.root_
    /\ \A m \in Nodes : u.color_[m] = t.color_[Swap(n, r, m)]
    /\ \A m \in Nodes, e \in Sides :
        u.child_[e][m] =
            IF m = n THEN IF e = "left" THEN x ELSE Nil
            ELSE IF m = r THEN IF e = "right" THEN d ELSE IF c = r THEN n ELSE c
            ELSE IF c # r /\ m = p /\ e = "right" THEN n
            ELSE IF m = t.parent_[n] /\ e = Side(t, n) THEN r
            ELSE t.child_[e][m]
    /\ \A m \in Nodes :
        u.parent_[m] =
            IF m = n THEN IF c = r THEN r ELSE p
            ELSE IF m = r THEN t.parent_[n]
            ELSE IF c # r /\ m = x THEN n
            ELSE IF m = d \/ (c # r /\ m = c) THEN r
            ELSE t.parent_[m]

\* All links and colours after SwapWithFormer.
LEMMA SwapFields ==
    ASSUME NEW t \in Trees, NEW n \in Nodes, NEW r \in Nodes, r # n,
           NEW c \in Nodes, c = t.child_["left"][n], r = Outermost(t, c, "right"),
           NEW d \in Nodes, d = t.child_["right"][n],
           NEW x \in NodesOrNil, x = t.child_["left"][r],
           NEW p \in Nodes, p = t.parent_[r]
    PROVE  Swapped(t, SwapWithFormer(t, n), n, r, c, d, x, p)
<1> DEFINE a == Relink(t, n, r)
           base == SetParent(a, d, r)
           b1 == [base EXCEPT !.child_["right"][p] = n]
           b2 == SetParent(b1, c, r)
           b3 == SetParent(b2, x, n)
           below == IF r = c THEN base ELSE b3
           pn == t.parent_[n]
           s == Side(t, n)
           u == SwapWithFormer(t, n)
<1>1. /\ Nil \notin Nodes /\ n \in NodesOrNil /\ r \in NodesOrNil /\ c \in NodesOrNil
      /\ d \in NodesOrNil /\ p \in NodesOrNil /\ Nil \in NodesOrNil /\ pn \in NodesOrNil
      /\ "left" \in Sides /\ "right" \in Sides /\ "left" # "right"
      /\ \A e \in Sides : e = "left" \/ e = "right"
  BY TreeAssumption DEF NodesOrNil, Trees, Sides
<1>2. Relinked(t, a, n, r) BY <1>1, RelinkFields
<1>3. a \in Trees BY <1>2 DEF Relinked
<1>4. Reparented(a, base, d, r)
  <2> HIDE DEF a
  <2>1. QED BY <1>1, <1>3, SetParentFields
<1>5. base \in Trees BY <1>4 DEF Reparented
<1>6. /\ b1 \in Trees /\ SameFrame(base, b1) /\ b1.root_ = base.root_ /\ b1.color_ = base.color_
      /\ b1.parent_ = base.parent_
      /\ \A m \in Nodes, e \in Sides :
            b1.child_[e][m] = IF m = p /\ e = "right" THEN n ELSE base.child_[e][m]
  <2> HIDE DEF base
  <2>1. /\ b1 \in Trees /\ SameFrame(base, b1) /\ b1.root_ = base.root_
        /\ b1.color_ = base.color_ /\ b1.parent_ = base.parent_
        /\ b1.child_ = [base.child_ EXCEPT !["right"][p] = n]
    BY <1>1, <1>5 DEF Trees, SameFrame
  <2> HIDE DEF b1
  <2>2. QED BY <1>1, <1>5, <2>1 DEF Trees
<1>7. Reparented(b1, b2, c, r)
  <2> HIDE DEF b1
  <2>1. QED BY <1>1, <1>6, SetParentFields
<1>8. b2 \in Trees BY <1>7 DEF Reparented
<1>9. Reparented(b2, b3, x, n)
  <2> HIDE DEF b2
  <2>1. QED BY <1>1, <1>8, SetParentFields
<1>10. u = [below EXCEPT
            !.color_ = [@ EXCEPT ![n] = t.color_[r], ![r] = t.color_[n]],
            !.parent_[r] = pn,
            !.parent_[n] = IF r = c THEN r ELSE p,
            !.child_["left"] = [@ EXCEPT ![n] = x, ![r] = IF r = c THEN n ELSE c],
            !.child_["right"] = [@ EXCEPT ![n] = Nil, ![r] = d]]
  BY DEF SwapWithFormer
<1> HIDE DEF a, base, b1, b2, b3, u, pn, s
<1>11. /\ below \in Trees /\ SameFrame(t, below) /\ below.color_ = t.color_
       /\ below.root_ = IF pn = Nil THEN r ELSE t.root_
  BY <1>2, <1>4, <1>6, <1>7, <1>9 DEF Relinked, Reparented, SameFrame, pn
<1>12. \A m \in Nodes, e \in Sides :
          below.child_[e][m] = IF c # r /\ m = p /\ e = "right" THEN n
                               ELSE IF m = pn /\ e = s THEN r ELSE t.child_[e][m]
  BY <1>2, <1>4, <1>6, <1>7, <1>9 DEF Relinked, Reparented, pn, s
<1>13. \A m \in Nodes :
          below.parent_[m] = IF c # r /\ m = x THEN n
                             ELSE IF m = d \/ (c # r /\ m = c) THEN r ELSE t.parent_[m]
  BY <1>2, <1>4, <1>6, <1>7, <1>9 DEF Relinked, Reparented
<1> HIDE DEF below
<1> DEFINE l == IF r = c THEN n ELSE c
           q == IF r = c THEN r ELSE p
           co == [below.color_ EXCEPT ![n] = t.color_[r], ![r] = t.color_[n]]
           pa == [below.parent_ EXCEPT ![r] = pn, ![n] = q]
           cl == [below.child_["left"] EXCEPT ![n] = x, ![r] = l]
           cr == [below.child_["right"] EXCEPT ![n] = Nil, ![r] = d]
           ch == [below.child_ EXCEPT !["left"] = cl, !["right"] = cr]
<1>14. u = [below EXCEPT !.color_ = co, !.parent_ = pa, !.child_ = ch]
  BY <1>1, <1>10, <1>11 DEF Trees
<1>15. /\ co \in [Nodes -> Colors] /\ pa \in [Nodes -> NodesOrNil]
       /\ cl \in [Nodes -> NodesOrNil] /\ cr \in [Nodes -> NodesOrNil]
       /\ l \in NodesOrNil /\ q \in NodesOrNil
  BY <1>1, <1>11 DEF Trees
<1>16. ch \in [Sides -> [Nodes -> NodesOrNil]] /\ ch["left"] = cl /\ ch["right"] = cr
  <2> HIDE DEF cl, cr
  <2>1. QED BY <1>1, <1>11, <1>15 DEF Trees
<1>17. \A m \in Nodes : /\ co[m] = below.color_[Swap(n, r, m)]
                        /\ pa[m] = IF m = n THEN q ELSE IF m = r THEN pn ELSE below.parent_[m]
                        /\ cl[m] = IF m = n THEN x ELSE IF m = r THEN l
                                   ELSE below.child_["left"][m]
                        /\ cr[m] = IF m = n THEN Nil ELSE IF m = r THEN d
                                   ELSE below.child_["right"][m]
  BY <1>1, <1>11 DEF Trees, Swap
<1> HIDE DEF co, pa, cl, cr, ch
<1>18. /\ u \in Trees /\ SameFrame(below, u) /\ u.root_ = below.root_
       /\ u.color_ = co /\ u.parent_ = pa /\ u.child_ = ch
  BY <1>11, <1>14, <1>15, <1>16 DEF Trees, SameFrame
<1>19. ASSUME NEW m \in Nodes, NEW e \in Sides
       PROVE  u.child_[e][m] =
                 IF m = n THEN IF e = "left" THEN x ELSE Nil
                 ELSE IF m = r THEN IF e = "right" THEN d ELSE IF c = r THEN n ELSE c
                 ELSE IF c # r /\ m = p /\ e = "right" THEN n
                 ELSE IF m = pn /\ e = s THEN r
                 ELSE t.child_[e][m]
  <2>1. CASE e = "left" BY <1>1, <1>12, <1>16, <1>17, <1>18, <2>1
  <2>2. CASE e = "right" BY <1>1, <1>12, <1>16, <1>17, <1>18, <2>2
  <2>3. QED BY <1>1, <2>1, <2>2
<1>20. ASSUME NEW m \in Nodes
       PROVE  u.parent_[m] =
                 IF m = n THEN IF c = r THEN r ELSE p
                 ELSE IF m = r THEN pn
                 ELSE IF c # r /\ m = x THEN n
                 ELSE IF m = d \/ (c # r /\ m = c) THEN r
                 ELSE t.parent_[m]
  BY <1>13, <1>17, <1>18
<1>21. \A m \in Nodes : u.color_[m] = t.color_[Swap(n, r, m)] BY <1>11, <1>17, <1>18
<1>22. SameFrame(t, u) /\ u.root_ = IF pn = Nil THEN r ELSE t.root_
  BY <1>11, <1>18 DEF SameFrame
<1>23. QED BY <1>18, <1>19, <1>20, <1>21, <1>22 DEF Swapped, u, pn, s

\* A node and its only child may not yet agree on who is the parent.
ButFor(w, t, c) ==
    /\ t \in Trees /\ SameFrame(w, t) /\ t.root_ = w.root_ /\ t.child_ = w.child_
    /\ t.color_ = w.color_ /\ \A m \in Nodes : m # c => t.parent_[m] = w.parent_[m]

\* The swap exchanges the names of the two nodes, and leaves a child of the
\* predecessor with a parent that may be out of date.
LEMMA SwapIsRenaming ==
    ASSUME NEW t, NEW A, NEW K, NEW pos, NEW edge, Shape(t, A, K, pos, edge), Tidy(t, A),
           NEW n \in A, \A d \in Sides : t.child_[d][n] # Nil,
           NEW r, r = Outermost(t, t.child_["left"][n], "right"),
           NEW w, Exchanged(t, w, n, r)
    PROVE  /\ r \in A /\ pos[r] = pos[n] - 1 /\ pos[n] < pos[t.child_["right"][n]]
           /\ t.child_["right"][n] \in A
           /\ w.child_["right"][n] = Nil
           /\ ButFor(w, SwapWithFormer(t, n), w.child_["left"][n])
<1> DEFINE c == t.child_["left"][n]
           d == t.child_["right"][n]
           x == t.child_["left"][r]
           p == t.parent_[r]
           pn == t.parent_[n]
           s == Side(t, n)
           u == SwapWithFormer(t, n)
<1>1. /\ A \subseteq Nodes /\ t \in Trees /\ Nil \notin Nodes /\ Nil \notin A
      /\ "left" \in Sides /\ "right" \in Sides /\ "left" # "right"
      /\ \A e \in Sides : e = "left" \/ e = "right"
  BY TreeAssumption DEF Shape, Sides
<1>2. /\ c \in A /\ r \in A /\ r # n /\ r # t.root_ /\ t.child_["right"][r] = Nil
      /\ pos[r] = pos[n] - 1 /\ p \in A /\ p # r
      /\ t.parent_[c] = n
      /\ r # c => p # n /\ t.child_["right"][p] = r
      /\ pn # n /\ pn # r
      /\ d \in A \ {r, c} /\ t.parent_[d] = n
      /\ pos[n] < pos[d]
      /\ x # n /\ x # r
      /\ x # Nil => t.parent_[x] = r
  BY FormerFacts
<1>3. x \in NodesOrNil /\ (x # Nil => x \in A) BY <1>1, <1>2, ChildFacts DEF NodesOrNil
<1>4. Swapped(t, u, n, r, c, d, x, p)
  <2>1. /\ c = t.child_["left"][n] /\ d = t.child_["right"][n] /\ x = t.child_["left"][r]
        /\ p = t.parent_[r] /\ r = Outermost(t, c, "right")
    OBVIOUS
  <2>2. n \in Nodes /\ r \in Nodes /\ c \in Nodes /\ d \in Nodes /\ p \in Nodes
    BY <1>1, <1>2
  <2> HIDE DEF c, d, x, p, u
  <2>3. QED BY <1>1, <1>2, <1>3, <2>1, <2>2, SwapFields DEF u
<1>5. /\ w \in Trees /\ SameFrame(t, w) /\ w.root_ = Swap(n, r, t.root_)
      /\ \A m \in Nodes : w.parent_[m] = Swap(n, r, t.parent_[Swap(n, r, m)])
      /\ \A m \in Nodes : w.color_[m] = t.color_[Swap(n, r, m)]
      /\ \A m \in Nodes, e \in Sides : w.child_[e][m] = Swap(n, r, t.child_[e][Swap(n, r, m)])
  BY DEF Exchanged
<1>6. pn = Nil <=> n = t.root_
  <2>1. n = t.root_ => pn = Nil BY DEF Shape, Top
  <2>2. n # t.root_ => pn # Nil BY <1>1, ParentFacts
  <2>3. QED BY <2>1, <2>2
\* who has n and r for a child
<1>7. ASSUME NEW m \in Nodes, NEW e \in Sides
      PROVE  /\ t.child_[e][m] = n <=> (m = pn /\ e = s)
             /\ t.child_[e][m] = r <=> (m = p /\ e = Side(t, r))
  <2>1. ASSUME NEW k \in A, t.child_[e][m] = k
        PROVE  m = t.parent_[k] /\ e = Side(t, k)
    <3>1. m \in A BY <1>1, <2>1 DEF Tidy
    <3>2. QED BY <1>1, <2>1, <3>1, ChildFacts
  <2>2. m = pn /\ e = s => t.child_[e][m] = n BY <1>1, ParentFacts
  <2>3. m = p /\ e = Side(t, r) => t.child_[e][m] = r BY <1>1, <1>2, ParentFacts
  <2>4. QED BY <1>2, <2>1, <2>2, <2>3
<1>8. /\ r # c => Side(t, r) = "right"
      /\ r = c => p = n
  BY <1>1, <1>2, <1>7
<1>9. ASSUME NEW m \in Nodes, m \notin {n, r}, NEW e \in Sides
      PROVE  u.child_[e][m] = w.child_[e][m]
  <2>1. w.child_[e][m] = Swap(n, r, t.child_[e][m]) BY <1>5, <1>9 DEF Swap
  <2>2. u.child_[e][m] = IF c # r /\ m = p /\ e = "right" THEN n
                         ELSE IF m = pn /\ e = s THEN r ELSE t.child_[e][m]
    BY <1>4, <1>9 DEF Swapped
  <2>3. /\ t.child_[e][m] = n <=> (m = pn /\ e = s)
        /\ t.child_[e][m] = r <=> (m = p /\ e = Side(t, r))
    BY <1>7
  <2> HIDE DEF c, d, x, p, u, pn, s
  <2>4. QED BY <1>2, <1>8, <1>9, <2>1, <2>2, <2>3 DEF Swap
<1>10. ASSUME NEW e \in Sides
       PROVE  u.child_[e][n] = w.child_[e][n] /\ u.child_[e][r] = w.child_[e][r]
  <2>1. w.child_[e][n] = Swap(n, r, t.child_[e][r]) /\ w.child_[e][r] = Swap(n, r, t.child_[e][n])
    BY <1>1, <1>2, <1>5 DEF Swap
  <2>2. /\ u.child_[e][n] = IF e = "left" THEN x ELSE Nil
        /\ u.child_[e][r] = IF e = "right" THEN d ELSE IF c = r THEN n ELSE c
    BY <1>1, <1>2, <1>4 DEF Swapped
  <2>3. CASE e = "left"
    <3>1. t.child_[e][r] = x /\ t.child_[e][n] = c BY <2>3
    <3> HIDE DEF c, d, x, p, u, pn, s
    <3>2. c # n BY <1>1, ChildFacts DEF c
    <3>3. QED BY <1>1, <1>2, <2>1, <2>2, <2>3, <3>1, <3>2 DEF Swap
  <2>4. CASE e = "right"
    <3>1. t.child_[e][r] = Nil /\ t.child_[e][n] = d BY <1>2, <2>4
    <3>2. d # n BY <1>1, ChildFacts
    <3> HIDE DEF c, d, x, p, u, pn, s
    <3>3. QED BY <1>1, <1>2, <2>1, <2>2, <2>4, <3>1, <3>2 DEF Swap
  <2>5. QED BY <1>1, <2>3, <2>4
<1>11. u.child_ = w.child_
  <2>1. u.child_ \in [Sides -> [Nodes -> NodesOrNil]] /\ w.child_ \in [Sides -> [Nodes -> NodesOrNil]]
    BY <1>4, <1>5 DEF Swapped, Trees
  <2>2. \A e \in Sides, m \in Nodes : u.child_[e][m] = w.child_[e][m] BY <1>9, <1>10
  <2>3. \A e \in Sides : u.child_[e] = w.child_[e]
    <3>1. SUFFICES ASSUME NEW e \in Sides PROVE u.child_[e] = w.child_[e] OBVIOUS
    <3>2. u.child_[e] \in [Nodes -> NodesOrNil] /\ w.child_[e] \in [Nodes -> NodesOrNil] BY <2>1
    <3> HIDE DEF u
    <3>3. QED BY <2>2, <3>2
  <2> HIDE DEF u
  <2>4. QED BY <2>1, <2>3
<1>12. u.color_ = w.color_
  <2>1. u.color_ \in [Nodes -> Colors] /\ w.color_ \in [Nodes -> Colors]
    BY <1>4, <1>5 DEF Swapped, Trees
  <2>2. \A m \in Nodes : u.color_[m] = w.color_[m] BY <1>4, <1>5 DEF Swapped
  <2> HIDE DEF u
  <2>3. QED BY <2>1, <2>2
<1>13. u.root_ = w.root_ BY <1>2, <1>4, <1>5, <1>6 DEF Swapped, Swap
\* who has n and r for a parent
<1>14. ASSUME NEW m \in Nodes, m # x, m # n, m # r
       PROVE  /\ t.parent_[m] = n <=> (m = c \/ m = d)
              /\ t.parent_[m] # r
  <2>1. ASSUME NEW k \in A, t.parent_[m] = k
        PROVE  m = t.child_["left"][k] \/ m = t.child_["right"][k]
    <3>1. m \in A BY <1>1, <2>1 DEF Tidy
    <3>2. Side(t, m) \in Sides /\ t.child_[Side(t, m)][k] = m BY <1>1, <2>1, <3>1, ParentFacts
    <3>3. QED BY <1>1, <3>2
  <2>2. QED BY <1>1, <1>2, <1>14, <2>1
<1>15. ASSUME NEW m \in Nodes, m # x
       PROVE  u.parent_[m] = w.parent_[m]
  <2>1. u.parent_[m] =
            IF m = n THEN IF c = r THEN r ELSE p
            ELSE IF m = r THEN pn
            ELSE IF m = d \/ (c # r /\ m = c) THEN r
            ELSE t.parent_[m]
    BY <1>4, <1>15 DEF Swapped
  <2>2. CASE m = n
    <3>1. w.parent_[m] = Swap(n, r, p) BY <1>5, <2>2 DEF Swap
    <3> HIDE DEF c, d, x, p, u, pn, s
    <3>2. QED BY <1>2, <1>8, <2>1, <2>2, <3>1 DEF Swap
  <2>3. CASE m = r
    <3>1. w.parent_[m] = Swap(n, r, pn) BY <1>2, <1>5, <2>3 DEF Swap
    <3> HIDE DEF c, d, x, p, u, pn, s
    <3>2. QED BY <1>2, <2>1, <2>3, <3>1 DEF Swap
  <2>4. CASE m # n /\ m # r
    <3>1. w.parent_[m] = Swap(n, r, t.parent_[m]) BY <1>5, <2>4 DEF Swap
    <3>2. t.parent_[m] = n <=> (m = c \/ m = d) BY <1>14, <1>15, <2>4
    <3>3. t.parent_[m] # r BY <1>14, <1>15, <2>4
    <3> HIDE DEF c, d, x, p, u, pn, s
    <3>4. QED BY <1>2, <2>1, <2>4, <3>1, <3>2, <3>3 DEF Swap
  <2>5. QED BY <2>2, <2>3, <2>4
<1>16. w.child_["left"][n] = x /\ w.child_["right"][n] = Nil
  BY <1>1, <1>4, <1>11 DEF Swapped
<1>17. u \in Trees /\ SameFrame(w, u) BY <1>4, <1>5 DEF Swapped, SameFrame
<1>18. ButFor(w, u, x)
  <2> HIDE DEF u, x
  <2>1. QED BY <1>11, <1>12, <1>13, <1>15, <1>17 DEF ButFor
<1>19. QED BY <1>2, <1>16, <1>18

------------------------------------------------------------------------------
(* Erase *)

\* AdjusBeforeDelete once the node has at most one child.
CutOut(u, n) ==
    CASE IsRed(u, n) -> Unlink(u, n)
      [] ~IsRed(u, n) /\ u.child_["left"][n] # Nil -> DropWithChild(u, n, "left")
      [] ~IsRed(u, n) /\ u.child_["right"][n] # Nil -> DropWithChild(u, n, "right")
      [] ~IsRed(u, n) /\ u.child_["left"][n] = Nil /\ u.child_["right"][n] = Nil ->
            IF u.parent_[n] = Nil
            THEN [u EXCEPT !.root_ = Nil, !.min_ = Nil, !.max_ = Nil]
            ELSE DropBlackLeaf(u, n)

\* The only node: nothing is left.
LEMMA LastGone ==
    ASSUME NEW t, NEW A, NEW K, NEW pos, NEW edge, Shape(t, A, K, pos, edge),
           NEW n \in A, n = t.root_, \A d \in Sides : t.child_[d][n] = Nil, Tidy(t, A),
           NEW u, u = [t EXCEPT !.root_ = Nil, !.min_ = Nil, !.max_ = Nil]
    PROVE  Rid(t, u, A \ {n}, K - 1, PosWithout(pos, n), n)
<1> DEFINE e == EdgeWithout(pos, edge, n)
           D == A \ {n}
           P == PosWithout(pos, n)
<1>1. /\ t \in Trees /\ A \subseteq Nodes /\ Nil \notin Nodes /\ Nil \in NodesOrNil /\ Nil \notin A
      /\ "left" \in Sides /\ "right" \in Sides /\ "left" # "right"
  BY TreeAssumption DEF Shape, NodesOrNil, Sides
<1>2. /\ u \in Trees /\ u.root_ = Nil /\ u.min_ = Nil /\ u.max_ = Nil /\ u.alive = t.alive
      /\ u.size_ = t.size_ /\ u.child_ = t.child_ /\ u.parent_ = t.parent_ /\ u.color_ = t.color_
  BY <1>1 DEF Trees
<1>3. \A m \in A, d \in Sides : t.child_[d][m] # n BY <1>1, ChildFacts
<1>4. Detached(t, u, A, n, Nil) BY <1>1, <1>2, <1>3 DEF Detached
<1>5. Shape(u, D, K - 1, P, e) BY <1>1, <1>4, DetachShape
<1>6. D = {} BY <1>1, <1>2, <1>5 DEF Shape, Top
<1> DEFINE h == [m \in Nodes |-> 0]
<1>7. Even(u, D, h, Nil, Nil) BY <1>6 DEF Even
<1>8. NoTwoRed(u, D, Nil) BY <1>6 DEF NoTwoRed
<1>9. Ends(u, D, K - 1, P) BY <1>2, <1>6 DEF Ends
<1>10. Tidy(u, D \cup {n})
  <2>1. D \cup {n} = A OBVIOUS
  <2>2. Tidy(u, A) BY <1>2 DEF Tidy
  <2>3. QED BY <2>1, <2>2
<1> HIDE DEF D, P, e, h
<1>11. Balance(u, D, K - 1, P, Nil) BY <1>5, <1>7, <1>8 DEF Balance
<1>12. Rid(t, u, D, K - 1, P, n) BY <1>2, <1>9, <1>10, <1>11 DEF Rid
<1>13. QED BY <1>12 DEF D, P

\* A red node with at most one child is a leaf.
LEMMA RedIsLeaf ==
    ASSUME NEW t, NEW A, NEW K, NEW pos, NEW edge, Shape(t, A, K, pos, edge),
           NEW h, Even(t, A, h, Nil, Nil), NoTwoRed(t, A, Nil),
           NEW n \in A, t.color_[n] = "red",
           NEW s \in Sides, NEW o \in Sides, t.child_[o][n] = Nil
    PROVE  t.child_[s][n] = Nil /\ h[n] = 0
<1> DEFINE c == t.child_[s][n]
<1>1. Nil \notin A BY TreeAssumption DEF Shape
<1>2. h[n] = 0 BY <1>1, StepDown DEF Black
<1>3. SUFFICES ASSUME c # Nil PROVE FALSE BY <1>2
<1>4. c \in A /\ t.color_[c] = "black" BY <1>3, ChildFacts DEF NoTwoRed
<1>5. h[c] \in Nat /\ h[n] = h[c] + 0
  <2>1. h[n] = (IF c = Nil THEN 0 ELSE IF c = Nil THEN h[c] + 1 ELSE h[c]) + Black(t, n)
        /\ (c # Nil => h[c] \in Nat)
    BY <1>1, StepDown
  <2>2. QED BY <1>3, <2>1 DEF Black
<1> HIDE DEF c
<1>6. h[c] >= 1
  <2> DEFINE k == t.child_[s][c]
  <2>1. h[c] = (IF k = Nil THEN 0 ELSE IF k = Nil THEN h[k] + 1 ELSE h[k]) + Black(t, c)
        /\ (k # Nil => h[k] \in Nat)
    BY <1>1, <1>4, StepDown
  <2>2. Black(t, c) = 1 BY <1>4 DEF Black
  <2> HIDE DEF k
  <2>3. QED BY <2>1, <2>2
<1>7. QED BY <1>2, <1>5, <1>6

\* A node with at most one child is taken out; w is the tree as it would be with
\* every link in place.
LEMMA CutOutKeeps ==
    ASSUME NEW w, NEW A, NEW K, NEW pos, NEW edge, Shape(w, A, K, pos, edge),
           NEW h, Even(w, A, h, Nil, Nil), NoTwoRed(w, A, Nil),
           NEW n \in A, EndsBut(w, A, K, pos, n), Tidy(w, A), K <= Cardinality(Nodes),
           NEW s \in Sides, NEW o \in Sides, o # s, w.child_[o][n] = Nil,
           NEW t, ButFor(w, t, w.child_[s][n])
    PROVE  Rid(w, CutOut(t, n), A \ {n}, K - 1, PosWithout(pos, n), n)
<1> DEFINE c == w.child_[s][n]
           u == CutOut(t, n)
           Goal(v) == Rid(w, v, A \ {n}, K - 1, PosWithout(pos, n), n)
<1>1. /\ w \in Trees /\ A \subseteq Nodes /\ Nil \notin Nodes /\ Nil \notin A /\ n # Nil
      /\ \A d \in Sides : d = s \/ d = o
      /\ {s, o} = {"left", "right"}
  BY TreeAssumption DEF Shape, Sides
<1>2. /\ t \in Trees /\ SameFrame(w, t) /\ t.root_ = w.root_ /\ t.child_ = w.child_
      /\ t.color_ = w.color_ /\ \A m \in Nodes : m # c => t.parent_[m] = w.parent_[m]
  BY DEF ButFor
<1>3. w.color_[n] = "red" \/ w.color_[n] = "black" BY <1>1 DEF Trees, Colors
<1>4. c = Nil => t = w
  <2>1. SUFFICES ASSUME c = Nil PROVE t = w OBVIOUS
  <2>2. \A m \in Nodes : t.parent_[m] = w.parent_[m] BY <1>1, <1>2, <2>1
  <2>3. t.parent_ = w.parent_
    <3>1. t.parent_ \in [Nodes -> NodesOrNil] /\ w.parent_ \in [Nodes -> NodesOrNil]
      BY <1>1, <1>2 DEF Trees
    <3>2. QED BY <2>2, <3>1
  <2>4. QED BY <1>1, <1>2, <2>3 DEF Trees, SameFrame
<1>5. c = Nil => \A d \in Sides : w.child_[d][n] = Nil BY <1>1
<1>6. CASE w.color_[n] = "red"
  <2>1. c = Nil /\ h[n] = 0 BY <1>6, RedIsLeaf
  <2>2. n # w.root_ BY <1>6 DEF NoTwoRed
  <2>3. t = w /\ u = Unlink(w, n)
    <3>1. t = w /\ IsRed(t, n) BY <1>1, <1>2, <1>4, <1>6, <2>1 DEF IsRed
    <3>2. QED BY <3>1 DEF CutOut
  <2> DEFINE P == PosWithout(pos, n)
             D == A \ {n}
             e == EdgeWithout(pos, edge, n)
  <2>4. /\ Shape(u, D, K - 1, P, e)
        /\ Even(u, D, h, Nil, Nil) /\ NoTwoRed(u, D, Nil)
        /\ Ends(u, D, K - 1, P) /\ Tidy(u, A)
        /\ u.size_ = w.size_ /\ u.alive = w.alive
    <3> HIDE DEF u, c
    <3>1. Nil \in {Nil, n} /\ Nil # n /\ \A d \in Sides : w.child_[d][n] = Nil
      BY <1>1, <1>5, <2>1
    <3>2. QED BY <2>1, <2>2, <2>3, <3>1, UnlinkKeeps
  <2>5. D \cup {n} = A OBVIOUS
  <2> HIDE DEF u, D, P, e
  <2>6. u \in Trees BY <2>4 DEF Shape
  <2>7. Balance(u, D, K - 1, P, Nil) BY <2>4 DEF Balance
  <2>8. Rid(w, u, D, K - 1, P, n) BY <2>4, <2>5, <2>6, <2>7 DEF Rid
  <2>9. QED BY <2>8 DEF D, P, u
<1>7. CASE w.color_[n] = "black" /\ c # Nil
  <2>1. ~IsRed(t, n) BY <1>2, <1>7 DEF IsRed
  <2>2. u = DropWithChild(t, n, s)
    <3>1. CASE s = "left"
      <4>1. t.child_["left"][n] # Nil /\ t.child_["right"][n] = Nil BY <1>1, <1>2, <1>7, <3>1
      <4>2. QED BY <2>1, <3>1, <4>1 DEF CutOut
    <3>2. CASE s = "right"
      <4>1. t.child_["right"][n] # Nil /\ t.child_["left"][n] = Nil BY <1>1, <1>2, <1>7, <3>2
      <4>2. QED BY <2>1, <3>2, <4>1 DEF CutOut
    <3>3. QED BY <1>1, <3>1, <3>2
  <2>3. c = w.child_[s][n] OBVIOUS
  <2> HIDE DEF c, u
  <2>4. Goal(u) BY <1>2, <1>7, <2>2, <2>3, DropKeeps
  <2>5. QED BY <2>4 DEF u
<1>8. CASE w.color_[n] = "black" /\ c = Nil
  <2>1. t = w /\ \A d \in Sides : w.child_[d][n] = Nil BY <1>4, <1>5, <1>8
  <2>2. ~IsRed(t, n) BY <1>2, <1>8 DEF IsRed
  <2>3. u = IF w.parent_[n] = Nil THEN [w EXCEPT !.root_ = Nil, !.min_ = Nil, !.max_ = Nil]
            ELSE DropBlackLeaf(w, n)
    <3>1. t.child_["left"][n] = Nil /\ t.child_["right"][n] = Nil
      BY <2>1 DEF Sides
    <3>2. QED BY <2>1, <2>2, <3>1 DEF CutOut
  <2> HIDE DEF u, c
  <2>4. w.parent_[n] = Nil <=> n = w.root_
    <3>1. n = w.root_ => w.parent_[n] = Nil BY DEF Shape, Top
    <3>2. n # w.root_ => w.parent_[n] # Nil BY ParentFacts
    <3>3. QED BY <3>1, <3>2
  <2>5. CASE n = w.root_
    <3>1. u = [w EXCEPT !.root_ = Nil, !.min_ = Nil, !.max_ = Nil] BY <2>3, <2>4, <2>5
    <3>2. Goal(u) BY <2>1, <2>5, <3>1, LastGone
    <3>3. QED BY <3>2 DEF u
  <2>6. CASE n # w.root_
    <3>1. u = DropBlackLeaf(w, n) BY <2>3, <2>4, <2>6
    <3>2. Goal(u) BY <1>8, <2>1, <2>6, <3>1, DropBlackLeafKeeps
    <3>3. QED BY <3>2 DEF u
  <2>7. QED BY <2>5, <2>6
<1>9. QED BY <1>3, <1>6, <1>7, <1>8

\* A node and the one before it exchange their positions: the ends stay, and without
\* the node all is as if it had been taken from where it was.
LEMMA SwappedPositions ==
    ASSUME NEW t, NEW A, NEW K, NEW pos, NEW edge, Shape(t, A, K, pos, edge),
           Ends(t, A, K, pos), NEW n \in A, NEW r \in A, pos[r] = pos[n] - 1,
           NEW d \in A, pos[n] < pos[d],
           NEW w, SameFrame(t, w), NEW p, p = [m \in Nodes |-> pos[Swap(n, r, m)]]
    PROVE  /\ EndsBut(w, A, K, p, n)
           /\ \A m \in A \ {n} : PosWithout(p, n)[m] = PosWithout(pos, n)[m]
<1>1. /\ A \subseteq Nodes /\ pos \in [Nodes -> Int] /\ K \in Nat
      /\ edge \in [Sides -> [Nodes -> Int]] /\ "left" \in Sides /\ "right" \in Sides
  BY DEF Shape, Placed, Sides
<1>2. \A m \in A : pos[m] \in Int /\ 1 <= pos[m] /\ pos[m] <= K
  <2>1. SUFFICES ASSUME NEW m \in A PROVE pos[m] \in Int /\ 1 <= pos[m] /\ pos[m] <= K OBVIOUS
  <2>2. /\ pos[m] \in Int /\ edge["left"][m] \in Int /\ edge["right"][m] \in Int
        /\ 0 <= edge["left"][m] /\ edge["left"][m] < pos[m]
        /\ pos[m] < edge["right"][m] /\ edge["right"][m] <= K + 1
    BY <1>1 DEF Shape, Placed
  <2>3. QED BY <1>1, <2>2
<1>3. \A l, m \in A : pos[l] = pos[m] => l = m BY DEF Shape, Placed
<1>4. n # r BY <1>2
<1>5. p[n] = pos[n] - 1 /\ p[r] = pos[n] /\ \A m \in A \ {n, r} : p[m] = pos[m]
  BY <1>1, <1>4 DEF Swap
<1>6. \A m \in Nodes : PosWithout(p, n)[m] = IF p[m] > p[n] THEN p[m] - 1 ELSE p[m]
  BY DEF PosWithout
<1>7. \A m \in Nodes : PosWithout(pos, n)[m] = IF pos[m] > pos[n] THEN pos[m] - 1 ELSE pos[m]
  BY DEF PosWithout
<1>8. ASSUME NEW m \in A, m # n PROVE PosWithout(p, n)[m] = PosWithout(pos, n)[m]
  <2>1. CASE m = r BY <1>1, <1>2, <1>5, <1>6, <1>7, <2>1
  <2>2. CASE m # r
    <3>1. p[m] = pos[m] /\ pos[m] # pos[n] /\ m \in Nodes BY <1>1, <1>3, <1>5, <1>8, <2>2
    <3>2. QED BY <1>2, <1>5, <1>6, <1>7, <3>1
  <2>3. QED BY <2>1, <2>2
<1>9. t.min_ \in A /\ t.max_ \in A /\ pos[t.min_] = 1 /\ pos[t.max_] = K BY DEF Ends
<1>10. w.min_ = t.min_ /\ w.max_ = t.max_ BY DEF SameFrame
<1>11. t.min_ # n /\ PosWithout(p, n)[t.min_] = 1
  <2>1. t.min_ # n BY <1>2, <1>9
  <2>2. PosWithout(pos, n)[t.min_] = 1
    <3>1. ~(1 > pos[n]) BY <1>2
    <3>2. QED BY <1>1, <1>7, <1>9, <3>1
  <2>3. QED BY <1>8, <1>9, <2>1, <2>2
<1>12. t.max_ # n /\ PosWithout(p, n)[t.max_] = K - 1
  <2>1. t.max_ # n /\ K > pos[n]
    <3>1. pos[n] < K BY <1>1, <1>2
    <3>2. QED BY <1>1, <1>2, <1>9, <3>1
  <2>2. PosWithout(pos, n)[t.max_] = K - 1 BY <1>1, <1>7, <1>9, <2>1
  <2>3. QED BY <1>8, <1>9, <2>1, <2>2
<1>13. EndsBut(w, A, K, p, n) BY <1>9, <1>10, <1>11, <1>12 DEF EndsBut
<1>14. QED BY <1>8, <1>13

\* Whatever the node, the tree that is left is a tree in balance.
LEMMA AdjusBeforeDeleteKeeps ==
    ASSUME NEW t, NEW A, NEW K, NEW pos, Balance(t, A, K, pos, Nil), Tidy(t, A),
           Ends(t, A, K, pos), K <= Cardinality(Nodes), NEW n \in A
    PROVE  \E P : /\ Rid(t, AdjusBeforeDelete(t, n), A \ {n}, K - 1, P, n)
                  /\ \A m \in A \ {n} : P[m] = PosWithout(pos, n)[m]
<1> DEFINE u == AdjusBeforeDelete(t, n)
           swap == \A s \in Sides : t.child_[s][n] # Nil
<1>1. PICK edge, h : Shape(t, A, K, pos, edge) /\ Even(t, A, h, Nil, Nil) /\ NoTwoRed(t, A, Nil)
  BY DEF Balance
<1>2. "left" \in Sides /\ "right" \in Sides /\ "left" # "right"
      /\ \A s \in Sides : Opposite(s) \in Sides /\ Opposite(s) # s
  BY DEF Sides, Opposite
<1>3. t \in Trees /\ A \subseteq Nodes BY <1>1 DEF Shape
<1>4. CASE ~swap
  <2>1. PICK o \in Sides : t.child_[o][n] = Nil BY <1>4
  <2> DEFINE s == Opposite(o)
  <2>2. s \in Sides /\ o # s BY <1>2
  <2>3. ButFor(t, t, t.child_[s][n]) BY <1>3 DEF ButFor, SameFrame
  <2>4. u = CutOut(t, n) BY <1>4 DEF AdjusBeforeDelete, CutOut
  <2>5. EndsBut(t, A, K, pos, n) BY <1>1, EndsWhole
  <2> HIDE DEF u, s
  <2>6. Rid(t, CutOut(t, n), A \ {n}, K - 1, PosWithout(pos, n), n)
    BY <1>1, <2>1, <2>2, <2>3, <2>5, CutOutKeeps
  <2>7. QED BY <2>4, <2>6 DEF u
<1>5. CASE swap
  <2> DEFINE r == Outermost(t, t.child_["left"][n], "right")
             w == Renamed(t, n, r)
             v == SwapWithFormer(t, n)
             p == [m \in Nodes |-> pos[Swap(n, r, m)]]
             e == [d \in Sides |-> [m \in Nodes |-> edge[d][Swap(n, r, m)]]]
             g == [m \in Nodes |-> h[Swap(n, r, m)]]
             d1 == t.child_["right"][n]
  <2>1. r \in A
    BY <1>1, <1>5, FormerFacts
  <2>2. Exchanged(t, w, n, r) BY <1>3, <2>1, RenamedFields
  <2> HIDE DEF w
  <2>3. /\ pos[r] = pos[n] - 1 /\ pos[n] < pos[d1] /\ d1 \in A
        /\ w.child_["right"][n] = Nil
        /\ ButFor(w, v, w.child_["left"][n])
    BY <1>1, <1>5, <2>2, SwapIsRenaming
  <2>4. u = CutOut(v, n) BY <1>5 DEF AdjusBeforeDelete, CutOut
  <2> HIDE DEF u, v, r
  <2>5. Shape(w, A, K, p, e) /\ Even(w, A, g, Nil, Nil) /\ NoTwoRed(w, A, Nil) /\ Tidy(w, A)
    BY <1>1, <2>1, <2>2, RenamedKeeps
  <2>6. p = [m \in Nodes |-> pos[Swap(n, r, m)]] OBVIOUS
  <2> HIDE DEF p, e, g, d1
  <2>7. SameFrame(t, w) BY <2>2 DEF Exchanged
  <2>8. /\ EndsBut(w, A, K, p, n)
        /\ \A m \in A \ {n} : PosWithout(p, n)[m] = PosWithout(pos, n)[m]
    BY <1>1, <2>1, <2>3, <2>6, <2>7, SwappedPositions
  <2>9. Rid(w, CutOut(v, n), A \ {n}, K - 1, PosWithout(p, n), n)
    BY <1>2, <2>3, <2>5, <2>8, CutOutKeeps
  <2>10. Rid(t, u, A \ {n}, K - 1, PosWithout(p, n), n)
    BY <2>4, <2>7, <2>9 DEF Rid, SameFrame
  <2>11. QED BY <2>8, <2>10 DEF u
<1>6. QED BY <1>4, <1>5

\* Erase gives up the node and its position and leaves the tree whole.
LEMMA ErasedKeeps ==
    ASSUME NEW t, NEW K, NEW pos, Whole(t, K, pos), NEW n \in t.alive
    PROVE  /\ Erased(t, n).alive = t.alive \ {n}
           /\ \E P : /\ Whole(Erased(t, n), K - 1, P)
                     /\ \A m \in t.alive \ {n} : P[m] = PosWithout(pos, n)[m]
<1> DEFINE A == t.alive
           D == A \ {n}
           u == AdjusBeforeDelete(t, n)
           v == Erased(t, n)
<1>1. PICK edge, h : Shape(t, A, K, pos, edge) /\ Even(t, A, h, Nil, Nil) /\ NoTwoRed(t, A, Nil)
  BY DEF Whole, Balance
<1>2. /\ A \subseteq Nodes /\ K \in Nat /\ n \in Nodes /\ IsFiniteSet(Nodes) /\ Nil \notin Nodes
      /\ pos \in [Nodes -> Int] /\ Nil \in NodesOrNil /\ "black" \in Colors
  BY <1>1, TreeAssumption DEF Shape, Placed, NodesOrNil, Colors
<1>3. K <= Cardinality(Nodes)
  BY <1>2, FS_Subset DEF Whole
<1>4. Cardinality(D) = K - 1
  <2>1. IsFiniteSet(A) /\ K = Cardinality(A) BY <1>2, FS_Subset DEF Whole
  <2>2. QED BY <2>1, FS_RemoveElement
<1>5. PICK P : /\ Rid(t, u, D, K - 1, P, n)
               /\ \A m \in D : P[m] = PosWithout(pos, n)[m]
  BY <1>1, <1>3, AdjusBeforeDeleteKeeps DEF Whole
<1> DEFINE pa == [u.parent_ EXCEPT ![n] = Nil]
           co == [u.color_ EXCEPT ![n] = "black"]
           ch == [s \in Sides |-> [u.child_[s] EXCEPT ![n] = Nil]]
<1>6. v = [u EXCEPT !.alive = @ \ {n}, !.parent_ = pa, !.color_ = co, !.child_ = ch,
                    !.size_ = @ - 1]
  BY <1>5 DEF Erased, Freed, Rid, Trees
<1> HIDE DEF u, v, D
<1>7. /\ u \in Trees /\ u.alive = A /\ u.size_ = K /\ Tidy(u, D \cup {n})
      /\ Balance(u, D, K - 1, P, Nil) /\ Ends(u, D, K - 1, P)
  BY <1>5 DEF Rid, Whole
<1>8. /\ pa \in [Nodes -> NodesOrNil] /\ co \in [Nodes -> Colors]
      /\ ch \in [Sides -> [Nodes -> NodesOrNil]]
      /\ pa[n] = Nil /\ co[n] = "black" /\ \A s \in Sides : ch[s][n] = Nil
      /\ \A m \in Nodes \ {n} : /\ pa[m] = u.parent_[m] /\ co[m] = u.color_[m]
                                /\ \A s \in Sides : ch[s][m] = u.child_[s][m]
  BY <1>2, <1>7 DEF Trees
<1> HIDE DEF pa, co, ch
<1>9. /\ v \in Trees /\ v.root_ = u.root_ /\ v.min_ = u.min_ /\ v.max_ = u.max_
      /\ v.size_ = K - 1 /\ v.alive = D
      /\ v.parent_ = pa /\ v.color_ = co /\ v.child_ = ch
  <2>1. D = A \ {n} /\ D \in SUBSET Nodes /\ K - 1 \in Int BY <1>2 DEF D
  <2>2. v = [u EXCEPT !.alive = D, !.parent_ = pa, !.color_ = co, !.child_ = ch, !.size_ = K - 1]
    BY <1>6, <1>7, <2>1 DEF Trees
  <2>3. QED BY <1>7, <1>8, <2>1, <2>2 DEF Trees
<1>10. \A m \in D : m \in Nodes \ {n} BY <1>2 DEF D
<1>11. PICK e, f : Shape(u, D, K - 1, P, e) /\ Even(u, D, f, Nil, Nil) /\ NoTwoRed(u, D, Nil)
  BY <1>7 DEF Balance
<1>12. Shape(v, D, K - 1, P, e)
  <2>1. Downwards(v, D, P, e)
    <3>1. SUFFICES ASSUME NEW m \in D, NEW s \in Sides, v.child_[s][m] # Nil
                   PROVE  /\ v.child_[s][m] \in D /\ v.parent_[v.child_[s][m]] = m
                          /\ e[s][v.child_[s][m]] = e[s][m]
                          /\ e[Opposite(s)][v.child_[s][m]] = P[m]
      BY DEF Downwards
    <3>2. v.child_[s][m] = u.child_[s][m] BY <1>8, <1>9, <1>10
    <3>3. /\ u.child_[s][m] \in D /\ u.parent_[u.child_[s][m]] = m
          /\ e[s][u.child_[s][m]] = e[s][m]
          /\ e[Opposite(s)][u.child_[s][m]] = P[m]
      BY <1>11, <3>1, <3>2, ChildFacts
    <3>4. QED BY <1>8, <1>9, <1>10, <3>2, <3>3
  <2>2. Gapless(v, D, P, e)
    BY <1>8, <1>9, <1>10, <1>11 DEF Shape, Gapless, Sides
  <2>3. Upwards(v, D)
    <3>1. SUFFICES ASSUME NEW m \in D, m # v.root_
                   PROVE  v.parent_[m] \in D /\ \E s \in Sides : v.child_[s][v.parent_[m]] = m
      BY DEF Upwards
    <3>2. u.parent_[m] \in D /\ \E s \in Sides : u.child_[s][u.parent_[m]] = m
      BY <1>9, <1>11, <3>1 DEF Shape, Upwards
    <3>3. v.parent_[m] = u.parent_[m] BY <1>8, <1>9, <1>10
    <3>4. QED BY <1>8, <1>9, <1>10, <3>2, <3>3
  <2>4. Top(v, D, K - 1, e) BY <1>8, <1>9, <1>10, <1>11 DEF Shape, Top
  <2>5. QED BY <1>9, <1>11, <2>1, <2>2, <2>3, <2>4 DEF Shape
<1>13. Even(v, D, f, Nil, Nil)
  <2>1. SUFFICES ASSUME NEW m \in D, NEW s \in Sides
                 PROVE  f[m] = (IF v.child_[s][m] = Nil THEN 0
                                ELSE IF v.child_[s][m] = Nil THEN f[v.child_[s][m]] + 1
                                ELSE f[v.child_[s][m]])
                               + (IF v.color_[m] = "red" THEN 0 ELSE 1)
    BY <1>11 DEF Even
  <2>2. m \in D \ {Nil} BY <1>2, <1>10
  <2>3. v.child_[s][m] = u.child_[s][m] /\ v.color_[m] = u.color_[m] BY <1>8, <1>9, <1>10
  <2>4. QED BY <1>11, <2>2, <2>3 DEF Even
<1>14. NoTwoRed(v, D, Nil)
  <2>1. D # {} => v.color_[v.root_] = "black"
    <3>1. SUFFICES ASSUME D # {} PROVE v.color_[v.root_] = "black" OBVIOUS
    <3>2. u.root_ \in D /\ u.color_[u.root_] = "black" BY <1>11, <3>1 DEF NoTwoRed, Shape, Top
    <3>3. QED BY <1>8, <1>9, <1>10, <3>2
  <2>2. SUFFICES ASSUME NEW m \in D, NEW s \in Sides, v.color_[m] = "red"
                 PROVE  v.child_[s][m] \in {Nil, Nil} \/ v.color_[v.child_[s][m]] = "black"
    BY <2>1 DEF NoTwoRed
  <2>3. v.child_[s][m] = u.child_[s][m] /\ u.color_[m] = "red" BY <1>8, <1>9, <1>10, <2>2
  <2>4. u.child_[s][m] = Nil \/ u.color_[u.child_[s][m]] = "black"
    BY <1>11, <2>3 DEF NoTwoRed
  <2>5. u.child_[s][m] # Nil => u.child_[s][m] \in D BY <1>11, ChildFacts
  <2>6. QED BY <1>8, <1>9, <1>10, <2>3, <2>4, <2>5
<1>15. Tidy(v, D)
  <2>1. SUFFICES ASSUME NEW m \in Nodes \ D
                 PROVE  /\ \A s \in Sides : v.child_[s][m] = Nil
                        /\ v.parent_[m] = Nil /\ v.color_[m] = "black"
    BY DEF Tidy
  <2>2. CASE m = n BY <1>8, <1>9, <2>2
  <2>3. CASE m # n
    <3>1. (\A s \in Sides : u.child_[s][m] = Nil) /\ u.parent_[m] = Nil /\ u.color_[m] = "black"
      BY <1>7, <2>3 DEF Tidy
    <3>2. QED BY <1>8, <1>9, <2>3, <3>1
  <2>4. QED BY <2>2, <2>3
<1>16. Sorted(D, P)
  <2>1. SUFFICES ASSUME NEW l \in D, NEW m \in D, P[l] < P[m] PROVE Key[l] <= Key[m]
    BY DEF Sorted
  <2>2. l \in A /\ m \in A /\ l \in Nodes /\ m \in Nodes BY <1>2 DEF D
  <2>3. /\ P[l] = IF pos[l] > pos[n] THEN pos[l] - 1 ELSE pos[l]
        /\ P[m] = IF pos[m] > pos[n] THEN pos[m] - 1 ELSE pos[m]
    BY <1>5, <2>2 DEF PosWithout
  <2>4. pos[l] \in Int /\ pos[m] \in Int /\ pos[n] \in Int BY <1>2, <2>2
  <2>5. pos[l] < pos[m] BY <2>1, <2>3, <2>4
  <2>6. QED BY <2>2, <2>5 DEF Whole, Sorted
<1>17. Ends(v, D, K - 1, P) BY <1>7, <1>9 DEF Ends
<1>18. Balance(v, D, K - 1, P, Nil) BY <1>12, <1>13, <1>14 DEF Balance
<1>19. Whole(v, K - 1, P) BY <1>4, <1>9, <1>15, <1>16, <1>17, <1>18 DEF Whole
<1>20. QED BY <1>5, <1>9, <1>19 DEF v, D

------------------------------------------------------------------------------
(* The node behind a node *)

\* FirstAncestorRightOf goes up for as long as it comes from the right.
LEMMA AncestorFacts ==
    ASSUME NEW t, NEW A, NEW K, NEW pos, NEW edge, Shape(t, A, K, pos, edge),
           Tidy(t, A), NEW n \in A, NEW r, r = FirstAncestorRightOf(t, n)
    PROVE  \/ r = Nil /\ edge["right"][n] = K + 1
           \/ r \in A /\ pos[r] = edge["right"][n]
<1> DEFINE Stop == {q \in Nodes : t.parent_[q] = Nil \/ Side(t, q) = "left"}
           rank == [q \in Nodes |-> IF q \in A THEN K + 1 - Width(edge, q) ELSE 0]
           next == [q \in Nodes \ Stop |-> t.parent_[q]]
           val == [q \in Nodes |-> t.parent_[q]]
           Goal(q, e) == (q = Nil /\ e = K + 1) \/ (q \in A /\ pos[q] = e)
<1>1. /\ A \subseteq Nodes /\ t \in Trees /\ K \in Nat /\ Nil \notin Nodes /\ Nil \notin A
      /\ pos \in [Nodes -> Int] /\ edge \in [Sides -> [Nodes -> Int]]
      /\ "left" \in Sides /\ "right" \in Sides /\ \A d \in Sides : d = "left" \/ d = "right"
      /\ Opposite("left") = "right" /\ Opposite("right") = "left"
  BY TreeAssumption DEF Shape, Placed, Sides, Opposite
<1>2. \A q \in Nodes \ Stop : /\ q \in A /\ t.parent_[q] \in A /\ Side(t, q) = "right"
                              /\ Width(edge, q) < Width(edge, t.parent_[q])
  <2>1. SUFFICES ASSUME NEW q \in Nodes \ Stop
                 PROVE  /\ q \in A /\ t.parent_[q] \in A /\ Side(t, q) = "right"
                        /\ Width(edge, q) < Width(edge, t.parent_[q])
    OBVIOUS
  <2>2. t.parent_[q] # Nil /\ Side(t, q) # "left" OBVIOUS
  <2>3. q \in A BY <2>2 DEF Tidy
  <2>4. QED BY <1>1, <2>2, <2>3, ParentFacts, Narrower
<1>3. \A q \in A : Width(edge, q) \in 2..(K + 1) BY Narrower
<1>4. /\ rank \in [Nodes -> 0..(K + 1)] /\ K + 1 \in Nat
      /\ next \in [Nodes \ Stop -> Nodes] /\ Stop \in SUBSET Nodes
  BY <1>1, <1>2, <1>3
<1>5. \A d \in Nodes \ Stop : rank[next[d]] < rank[d] BY <1>1, <1>2, <1>3
<1>6. \E f : Along(f, Nodes, Stop, val, next)
  <2> HIDE DEF rank, next, Stop, val
  <2>1. QED BY <1>4, <1>5, Walks
<1> DEFINE Step(f, q) == IF t.parent_[q] = Nil THEN Nil
                         ELSE IF Side(t, q) = "left" THEN t.parent_[q] ELSE f[t.parent_[q]]
<1>7. \E f : f = [q \in Nodes |-> Step(f, q)]
  <2>1. PICK f : f = [q \in Nodes |-> IF q \in Stop THEN val[q] ELSE f[next[q]]]
    BY <1>6 DEF Along
  <2>2. f = [q \in Nodes |-> Step(f, q)]
    <3>1. ASSUME NEW q \in Nodes
          PROVE  (IF q \in Stop THEN val[q] ELSE f[next[q]]) = Step(f, q)
      OBVIOUS
    <3> HIDE DEF Stop, next, val, Step
    <3>2. QED BY <2>1, <3>1
  <2>3. QED BY <2>2
<1>8. PICK f : f = [q \in Nodes |-> Step(f, q)] /\ r = f[n]
  BY <1>7 DEF FirstAncestorRightOf
<1> DEFINE B == {q \in A : ~Goal(f[q], edge["right"][q])}
<1>9. B = {}
  <2>1. SUFFICES ASSUME B # {} PROVE FALSE OBVIOUS
  <2>2. PICK q \in B : q = t.root_ \/ t.parent_[q] \notin B
    <3>1. B \in SUBSET A OBVIOUS
    <3> HIDE DEF B
    <3>2. QED BY <2>1, <3>1, Highest
  <2>3. q \in A /\ q \in Nodes /\ ~Goal(f[q], edge["right"][q]) BY <1>1
  <2>4. f[q] = Step(f, q) BY <1>8, <2>3
  <2>5. CASE t.parent_[q] = Nil
    <3>1. q = t.root_ BY <1>1, <2>3, <2>5, ParentFacts
    <3>2. edge["right"][q] = K + 1 BY <2>3, <3>1 DEF Shape, Top
    <3>3. QED BY <2>3, <2>4, <2>5, <3>2
  <2>6. CASE t.parent_[q] # Nil
    <3> DEFINE p == t.parent_[q]
    <3>1. p \in A /\ Side(t, q) \in Sides /\ t.child_[Side(t, q)][p] = q /\ q # t.root_ /\ q # Nil
      BY <1>1, <2>3, <2>6, ParentFacts
    <3>2. CASE Side(t, q) = "left"
      <4>1. edge["right"][q] = pos[p] BY <1>1, <3>1, <3>2, ChildFacts
      <4>2. QED BY <2>3, <2>4, <2>6, <3>1, <3>2, <4>1
    <3>3. CASE Side(t, q) = "right"
      <4>1. edge["right"][q] = edge["right"][p] BY <1>1, <3>1, <3>3, ChildFacts
      <4>2. f[q] = f[p] BY <2>4, <2>6, <3>3
      <4>3. p \notin B BY <2>2, <3>1
      <4>4. QED BY <2>3, <3>1, <4>1, <4>2, <4>3
    <3>4. QED BY <1>1, <3>1, <3>2, <3>3
  <2>7. QED BY <2>5, <2>6
<1>10. QED BY <1>8, <1>9

\* operator++ of an iterator goes to the next position, or behind the last.
LEMMA NestNodeFacts ==
    ASSUME NEW t, NEW A, NEW K, NEW pos, NEW edge, Shape(t, A, K, pos, edge),
           Tidy(t, A), NEW n \in A, NEW r, r = NestNode(t, n)
    PROVE  \/ r = Nil /\ pos[n] = K
           \/ r \in A /\ pos[r] = pos[n] + 1
<1>1. /\ pos \in [Nodes -> Int] /\ A \subseteq Nodes /\ K \in Nat
      /\ "left" \in Sides /\ "right" \in Sides /\ Opposite("right") = "left"
      /\ edge \in [Sides -> [Nodes -> Int]]
  BY DEF Shape, Placed, Sides, Opposite
<1>2. CASE t.child_["right"][n] # Nil
  <2> DEFINE c == t.child_["right"][n]
  <2>1. c \in A /\ edge["left"][c] = pos[n] BY <1>1, <1>2, ChildFacts
  <2>2. r = Outermost(t, c, "left") BY <1>2 DEF NestNode
  <2> HIDE DEF c
  <2>3. r \in A /\ t.child_["left"][r] = Nil /\ edge["left"][r] = pos[n]
    BY <1>1, <2>1, <2>2, OutermostFacts
  <2>4. edge["left"][r] = pos[r] - 1 BY <2>3 DEF Shape, Gapless
  <2>5. QED BY <1>1, <2>3, <2>4
<1>3. CASE t.child_["right"][n] = Nil
  <2>1. r = FirstAncestorRightOf(t, n) BY <1>3 DEF NestNode
  <2>2. edge["right"][n] = pos[n] + 1 BY <1>3 DEF Shape, Gapless
  <2>3. (r = Nil /\ edge["right"][n] = K + 1) \/ (r \in A /\ pos[r] = edge["right"][n])
    BY <2>1, AncestorFacts
  <2>4. QED BY <1>1, <2>2, <2>3
<1>4. QED BY <1>2, <1>3

------------------------------------------------------------------------------
(* Recursion with something to do on the way back *)

Recursion(f, D, V, Stop, val, next, post) ==
    /\ f \in [D -> V]
    /\ \A d \in D : f[d] = IF d \in Stop THEN val[d] ELSE post[d][f[next[d]]]

\* There is such a function when every way goes down in rank.
LEMMA Recurs ==
    ASSUME NEW D, NEW V, NEW M \in Nat, NEW rank \in [D -> 0..M],
           NEW Stop \in SUBSET D, NEW val \in [Stop -> V],
           NEW next \in [D \ Stop -> D], NEW post \in [D \ Stop -> [V -> V]],
           \A d \in D \ Stop : rank[next[d]] < rank[d]
    PROVE  \E f : Recursion(f, D, V, Stop, val, next, post)
<1> DEFINE Upto(i) == {d \in D : rank[d] <= i}
           Value(g, d) == IF d \in Stop THEN val[d] ELSE post[d][g[next[d]]]
           Good(g, i) == g \in [Upto(i) -> V] /\ \A d \in Upto(i) : g[d] = Value(g, d)
           S == {i \in 0..M : \E g : Good(g, i)}
<1>1. 0 \in S
  <2> DEFINE g == [d \in Upto(0) |-> val[d]]
  <2>1. \A d \in Upto(0) : d \in Stop
    <3>1. SUFFICES ASSUME NEW d \in Upto(0), d \notin Stop PROVE FALSE OBVIOUS
    <3>2. rank[next[d]] < rank[d] /\ rank[next[d]] \in 0..M /\ rank[d] \in 0..M /\ rank[d] <= 0
      BY <3>1
    <3>3. QED BY <3>2
  <2>2. Good(g, 0) BY <2>1
  <2>3. 0 \in 0..M OBVIOUS
  <2> HIDE DEF Good, g
  <2>4. QED BY <2>2, <2>3
<1>2. ASSUME NEW i \in 0..M, i \in S, i < M
      PROVE  i + 1 \in S
  <2>1. PICK g : Good(g, i) BY <1>2
  <2> DEFINE k == [d \in Upto(i + 1) |-> IF d \in Upto(i) THEN g[d] ELSE Value(g, d)]
  <2>2. \A d \in Upto(i + 1) \ Stop : next[d] \in Upto(i)
    <3>1. SUFFICES ASSUME NEW d \in Upto(i + 1) \ Stop PROVE next[d] \in Upto(i) OBVIOUS
    <3>2. /\ rank[next[d]] < rank[d] /\ rank[d] <= i + 1
          /\ next[d] \in D /\ rank[next[d]] \in 0..M /\ rank[d] \in 0..M
      <4>1. d \in D \ Stop /\ rank[d] <= i + 1 OBVIOUS
      <4>2. next[d] \in D BY <4>1
      <4>3. QED BY <4>1, <4>2
    <3>3. QED BY <3>2
  <2>3. Upto(i) \subseteq Upto(i + 1)
    <3>1. SUFFICES ASSUME NEW d \in D, rank[d] <= i PROVE rank[d] <= i + 1 OBVIOUS
    <3>2. rank[d] \in 0..M OBVIOUS
    <3>3. QED BY <3>1, <3>2
  <2>4. \A d \in Upto(i + 1) : Value(g, d) \in V
    <3>1. SUFFICES ASSUME NEW d \in Upto(i + 1) PROVE Value(g, d) \in V OBVIOUS
    <3>2. CASE d \in Stop BY <3>2
    <3>3. CASE d \notin Stop
      <4>1. g[next[d]] \in V /\ d \in D \ Stop BY <2>1, <2>2, <3>3
      <4>2. post[d] \in [V -> V] BY <4>1
      <4>3. QED BY <3>3, <4>1, <4>2
    <3>4. QED BY <3>2, <3>3
  <2>5. ASSUME NEW d \in Upto(i + 1) PROVE Value(k, d) = Value(g, d)
    <3>1. CASE d \in Stop BY <3>1
    <3>2. CASE d \notin Stop
      <4>1. next[d] \in Upto(i) /\ next[d] \in Upto(i + 1) BY <2>2, <2>3, <3>2
      <4>2. k[next[d]] = g[next[d]] BY <4>1
      <4> HIDE DEF k
      <4>3. QED BY <3>2, <4>2
    <3>3. QED BY <3>1, <3>2
  <2>6. \A d \in Upto(i + 1) : k[d] = Value(g, d) BY <2>1
  <2>7. k \in [Upto(i + 1) -> V] BY <2>1, <2>4
  <2>8. Good(k, i + 1) BY <2>5, <2>6, <2>7
  <2>9. i + 1 \in 0..M BY <1>2
  <2>10. QED BY <2>8, <2>9
<1>3. 0..M \subseteq S
  <2> HIDE DEF S
  <2>1. QED BY <1>1, <1>2, Climb
<1>4. PICK f : Good(f, M)
  <2>1. M \in 0..M OBVIOUS
  <2>2. QED BY <1>3, <2>1
<1>5. Upto(M) = D OBVIOUS
<1>6. f \in [D -> V] /\ \A d \in D : f[d] = Value(f, d) BY <1>4, <1>5
<1>7. QED BY <1>6 DEF Recursion

------------------------------------------------------------------------------
(* Looking a key up *)

\* What the way down of LowerBound (past is FALSE) and UpperBound (TRUE) passes to the right.
Passed(k, past, x) == Key[x] < k \/ (past /\ Key[x] = k)

\* With a node all nodes of lower keys are passed.
LEMMA PassedBelow ==
    ASSUME NEW k \in Int, NEW past \in BOOLEAN, NEW x \in Nodes, NEW y \in Nodes,
           Key[x] <= Key[y], Passed(k, past, y)
    PROVE  Passed(k, past, x)
<1>1. Key[x] \in Int /\ Key[y] \in Int BY TreeAssumption
<1>2. CASE past = TRUE BY <1>1, <1>2 DEF Passed
<1>3. CASE past = FALSE BY <1>1, <1>3 DEF Passed
<1>4. QED BY <1>2, <1>3

\* The first node that is not passed.
First(A, pos, k, past, r) ==
    IF r = Nil THEN \A x \in A : Passed(k, past, x)
    ELSE /\ r \in A /\ ~Passed(k, past, r)
         /\ \A x \in A : pos[x] < pos[r] => Passed(k, past, x)

\* The recursion of Bound has a solution.
LEMMA BoundRecursion ==
    ASSUME NEW t, NEW A, NEW K, NEW pos, NEW edge, Shape(t, A, K, pos, edge), Tidy(t, A),
           NEW k \in Int, NEW past \in BOOLEAN, NEW r, r = Bound(t, k, past)
    PROVE  \E f :
               /\ r = f[t.root_] /\ f[Nil] = Nil
               /\ \A m \in Nodes :
                    f[m] = IF Passed(k, past, m) THEN f[t.child_["right"][m]]
                           ELSE IF f[t.child_["left"][m]] = Nil THEN m
                           ELSE f[t.child_["left"][m]]
<1> DEFINE Way(m) == t.child_[IF Passed(k, past, m) THEN "right" ELSE "left"][m]
           rank == [m \in NodesOrNil |-> IF m = Nil THEN 0 ELSE IF m \in A THEN Width(edge, m)
                                         ELSE 1]
           Stop == {Nil}
           val == [m \in Stop |-> Nil]
           next == [m \in NodesOrNil \ Stop |-> Way(m)]
           Back(m, v) == IF Passed(k, past, m) THEN v ELSE IF v = Nil THEN m ELSE v
           post == [m \in NodesOrNil \ Stop |-> [v \in NodesOrNil |-> Back(m, v)]]
           Step(f, m) == IF m = Nil THEN Nil
                         ELSE IF Key[m] < k \/ (past /\ Key[m] = k) THEN f[t.child_["right"][m]]
                         ELSE LET under == f[t.child_["left"][m]]
                              IN  IF under = Nil THEN m ELSE under
<1>1. /\ A \subseteq Nodes /\ t \in Trees /\ K \in Nat /\ Nil \notin Nodes
      /\ NodesOrNil \ {Nil} = Nodes /\ Nil \in NodesOrNil /\ t.root_ \in NodesOrNil
      /\ "left" \in Sides /\ "right" \in Sides
      /\ \A m \in Nodes, d \in Sides : t.child_[d][m] \in NodesOrNil
  BY TreeAssumption DEF Shape, NodesOrNil, Trees, Sides
<1>2. \A m \in A : Width(edge, m) \in 2..(K + 1) BY Narrower
<1>3. \A m \in Nodes : Way(m) \in NodesOrNil /\ (Way(m) # Nil => m \in A /\ Way(m) \in A
                                                  /\ Width(edge, Way(m)) < Width(edge, m))
  <2>1. SUFFICES ASSUME NEW m \in Nodes, NEW d \in Sides, t.child_[d][m] # Nil
                 PROVE  m \in A /\ t.child_[d][m] \in A
                        /\ Width(edge, t.child_[d][m]) < Width(edge, m)
    BY <1>1
  <2>2. m \in A BY <2>1 DEF Tidy
  <2>3. QED BY <2>1, <2>2, ChildFacts, Narrower
<1>4. /\ rank \in [NodesOrNil -> 0..(K + 1)] /\ K + 1 \in Nat
      /\ Stop \in SUBSET NodesOrNil /\ val \in [Stop -> NodesOrNil]
      /\ next \in [NodesOrNil \ Stop -> NodesOrNil]
  <2>1. /\ K + 1 \in Nat /\ Stop \in SUBSET NodesOrNil /\ val \in [Stop -> NodesOrNil]
    BY <1>1
  <2>2. rank \in [NodesOrNil -> 0..(K + 1)] BY <1>1, <1>2
  <2>3. next \in [NodesOrNil \ Stop -> NodesOrNil] BY <1>1, <1>3
  <2>4. QED BY <2>1, <2>2, <2>3
<1>5. post \in [NodesOrNil \ Stop -> [NodesOrNil -> NodesOrNil]]
  <2>1. SUFFICES ASSUME NEW m \in NodesOrNil \ Stop, NEW v \in NodesOrNil
                 PROVE  Back(m, v) \in NodesOrNil
    OBVIOUS
  <2>2. QED OBVIOUS
<1>6. \A d \in NodesOrNil \ Stop : rank[next[d]] < rank[d]
  <2>1. SUFFICES ASSUME NEW d \in NodesOrNil \ Stop PROVE rank[next[d]] < rank[d] OBVIOUS
  <2>2. d \in Nodes /\ next[d] = Way(d) /\ Way(d) \in NodesOrNil BY <1>1, <1>3
  <2> HIDE DEF Way, next
  <2>3. CASE Way(d) = Nil
    <3>1. rank[next[d]] = 0 BY <1>1, <2>2, <2>3
    <3>2. rank[d] = (IF d \in A THEN Width(edge, d) ELSE 1) /\ rank[d] > 0 BY <1>1, <1>2, <2>2
    <3>3. QED BY <3>1, <3>2
  <2>4. CASE Way(d) # Nil
    <3>1. d \in A /\ Way(d) \in A /\ Width(edge, Way(d)) < Width(edge, d) BY <1>3, <2>2, <2>4
    <3>2. QED BY <1>1, <2>2, <2>4, <3>1
  <2>5. QED BY <2>3, <2>4
<1>7. PICK f : Recursion(f, NodesOrNil, NodesOrNil, Stop, val, next, post)
  <2> HIDE DEF rank, Stop, val, next, post
  <2>1. QED BY <1>4, <1>5, <1>6, Recurs
<1>8. /\ f \in [NodesOrNil -> NodesOrNil]
      /\ \A m \in NodesOrNil : f[m] = IF m \in Stop THEN val[m] ELSE post[m][f[next[m]]]
  BY <1>7 DEF Recursion
<1>9. ASSUME NEW m \in NodesOrNil PROVE f[m] = Step(f, m)
  <2>1. CASE m = Nil BY <1>8, <2>1
  <2>2. CASE m # Nil
    <3>1. m \in Nodes /\ Way(m) \in NodesOrNil /\ m \notin Stop BY <1>1, <1>3, <2>2
    <3>2. f[m] = post[m][f[next[m]]] BY <1>8, <3>1
    <3>3. next[m] = Way(m) BY <3>1
    <3>4. f[Way(m)] \in NodesOrNil BY <1>8, <3>1
    <3>5. post[m][f[Way(m)]] = Back(m, f[Way(m)]) BY <3>1, <3>4
    <3>6. f[m] = Back(m, f[Way(m)]) BY <3>2, <3>3, <3>5
    <3> HIDE DEF post, next
    <3>7. QED BY <2>2, <3>6 DEF Passed
  <2>3. QED BY <2>1, <2>2
<1>10. f = [m \in NodesOrNil |-> Step(f, m)]
  <2> HIDE DEF Step
  <2>1. QED BY <1>8, <1>9
<1>11. \E g : g = [m \in NodesOrNil |-> Step(g, m)] BY <1>10
<1>12. PICK g : g = [m \in NodesOrNil |-> Step(g, m)] /\ r = g[t.root_]
  BY <1>11 DEF Bound, NodesOrNil
<1>13. g[Nil] = Nil BY <1>1, <1>12
<1>14. ASSUME NEW m \in Nodes
       PROVE  g[m] = IF Passed(k, past, m) THEN g[t.child_["right"][m]]
                     ELSE IF g[t.child_["left"][m]] = Nil THEN m
                     ELSE g[t.child_["left"][m]]
  <2>1. m \in NodesOrNil /\ m # Nil BY <1>1
  <2>2. g[m] = Step(g, m)
    <3> HIDE DEF Step
    <3>1. QED BY <1>12, <2>1
  <2>3. QED BY <2>1, <2>2 DEF Passed
<1>15. QED BY <1>12, <1>13, <1>14

\* Bound finds the first node that is not passed.
LEMMA BoundFacts ==
    ASSUME NEW t, NEW A, NEW K, NEW pos, NEW edge, Shape(t, A, K, pos, edge), Tidy(t, A),
           Sorted(A, pos), NEW k \in Int, NEW past \in BOOLEAN, NEW r, r = Bound(t, k, past)
    PROVE  First(A, pos, k, past, r)
<1>1. /\ A \subseteq Nodes /\ K \in Nat /\ Nil \notin Nodes /\ Nil \notin A
      /\ pos \in [Nodes -> Int] /\ edge \in [Sides -> [Nodes -> Int]]
      /\ "left" \in Sides /\ "right" \in Sides
      /\ Opposite("left") = "right" /\ Opposite("right") = "left"
  BY TreeAssumption DEF Shape, Placed, Sides, Opposite
<1>2. PICK f : /\ r = f[t.root_] /\ f[Nil] = Nil
               /\ \A m \in Nodes :
                    f[m] = IF Passed(k, past, m) THEN f[t.child_["right"][m]]
                           ELSE IF f[t.child_["left"][m]] = Nil THEN m
                           ELSE f[t.child_["left"][m]]
  BY BoundRecursion
<1>3. \A m \in A : /\ pos[m] \in Int /\ edge["left"][m] \in Int /\ edge["right"][m] \in Int
                   /\ 0 <= edge["left"][m] /\ edge["left"][m] < pos[m]
                   /\ pos[m] < edge["right"][m] /\ edge["right"][m] <= K + 1
  BY <1>1 DEF Shape, Placed
<1> DEFINE In(m) == {x \in A : edge["left"][m] < pos[x] /\ pos[x] < edge["right"][m]}
           Goal(m) == First(In(m), pos, k, past, f[m])
           B == {m \in A : ~Goal(m)}
<1>4. ASSUME NEW x \in A, NEW y \in A, pos[x] <= pos[y], Passed(k, past, y)
      PROVE  Passed(k, past, x)
  <2>1. pos[x] = pos[y] => x = y BY DEF Shape, Placed
  <2>2. x # y => Key[x] <= Key[y] BY <1>3, <1>4, <2>1 DEF Sorted
  <2>3. QED BY <1>1, <1>4, <2>2, PassedBelow
<1>5. B = {}
  <2>1. SUFFICES ASSUME B # {} PROVE FALSE OBVIOUS
  <2>2. PICK m \in B : \A d \in Sides : t.child_[d][m] \notin B
    <3>1. B \in SUBSET A OBVIOUS
    <3> HIDE DEF B
    <3>2. QED BY <2>1, <3>1, Lowest
  <2>3. m \in A /\ m \in Nodes /\ ~Goal(m) BY <1>1
  <2>4. ASSUME NEW d \in Sides
        PROVE  LET c == t.child_[d][m]
               IN  /\ c = Nil => edge[d][m] = pos[m] + IF d = "left" THEN -1 ELSE 1
                   /\ c # Nil => /\ c \in A /\ Goal(c)
                                /\ edge[d][c] = edge[d][m] /\ edge[Opposite(d)][c] = pos[m]
    <3> DEFINE c == t.child_[d][m]
    <3>1. CASE c = Nil BY <2>3, <3>1 DEF Shape, Gapless, Sides
    <3>2. CASE c # Nil
      <4>1. c \in A /\ edge[d][c] = edge[d][m] /\ edge[Opposite(d)][c] = pos[m]
        BY <2>3, <3>2, ChildFacts
      <4>2. c \notin B BY <2>2
      <4>3. QED BY <3>2, <4>1, <4>2
    <3>3. QED BY <3>1, <3>2
  <2> DEFINE left == t.child_["left"][m]
             right == t.child_["right"][m]
  <2>5. /\ left = Nil => edge["left"][m] = pos[m] - 1
        /\ left # Nil => /\ left \in A /\ Goal(left)
                        /\ edge["left"][left] = edge["left"][m] /\ edge["right"][left] = pos[m]
    BY <1>1, <1>3, <2>3, <2>4
  <2>6. /\ right = Nil => edge["right"][m] = pos[m] + 1
        /\ right # Nil => /\ right \in A /\ Goal(right)
                         /\ edge["right"][right] = edge["right"][m] /\ edge["left"][right] = pos[m]
    BY <1>1, <1>3, <2>3, <2>4
  <2>7. ASSUME NEW x \in In(m)
        PROVE  /\ x = m \/ pos[x] < pos[m] \/ pos[x] > pos[m]
               /\ pos[x] < pos[m] => left # Nil /\ x \in In(left)
               /\ pos[x] > pos[m] => right # Nil /\ x \in In(right)
    <3>1. x \in A /\ edge["left"][m] < pos[x] /\ pos[x] < edge["right"][m] OBVIOUS
    <3>2. x = m \/ pos[x] # pos[m] BY <2>3, <3>1 DEF Shape, Placed
    <3>3. pos[x] < pos[m] => left # Nil /\ x \in In(left) BY <1>3, <2>3, <2>5, <3>1
    <3>4. pos[x] > pos[m] => right # Nil /\ x \in In(right) BY <1>3, <2>3, <2>6, <3>1
    <3>5. QED BY <1>3, <2>3, <3>1, <3>2, <3>3, <3>4
  <2>8. m \in In(m) BY <1>3, <2>3
  <2>9. left # Nil => In(left) \subseteq In(m) BY <1>3, <2>3, <2>5
  <2>10. right # Nil => In(right) \subseteq In(m) BY <1>3, <2>3, <2>6
  <2>11. \A x \in In(m) : x \in A OBVIOUS
  <2>12. left # Nil => First(In(left), pos, k, past, f[left]) BY <2>5
  <2>13. right # Nil => First(In(right), pos, k, past, f[right]) BY <2>6
  <2>14. left = Nil => f[left] = Nil BY <1>2
  <2>15. right = Nil => f[right] = Nil BY <1>2
  <2>16. f[m] = IF Passed(k, past, m) THEN f[right] ELSE IF f[left] = Nil THEN m ELSE f[left]
    BY <1>2, <2>3
  <2>17. ~First(In(m), pos, k, past, f[m]) BY <2>3
  <2>18. \A x \in In(left) : left # Nil => pos[x] < pos[m] BY <2>5
  <2> HIDE DEF In, left, right, B
  <2>19. CASE Passed(k, past, m)
    <3>1. f[m] = f[right] BY <2>16, <2>19
    <3>2. \A x \in In(m) : pos[x] <= pos[m] => Passed(k, past, x)
      BY <1>4, <2>3, <2>11, <2>19
    <3>3. CASE f[right] = Nil
      <4>1. ASSUME NEW x \in In(m) PROVE Passed(k, past, x)
        <5>1. CASE x = m BY <2>19, <5>1
        <5>2. CASE pos[x] < pos[m] BY <1>3, <2>3, <2>11, <3>2, <5>2
        <5>3. CASE pos[x] > pos[m] BY <2>7, <2>13, <3>3, <5>3 DEF First
        <5>4. QED BY <2>7, <5>1, <5>2, <5>3
      <4>2. QED BY <2>17, <3>1, <3>3, <4>1 DEF First
    <3>4. CASE f[right] # Nil
      <4>1. right # Nil BY <2>15, <3>4
      <4>2. /\ f[right] \in In(right) /\ ~Passed(k, past, f[right])
            /\ \A x \in In(right) : pos[x] < pos[f[right]] => Passed(k, past, x)
        BY <2>13, <3>4, <4>1 DEF First
      <4>3. f[right] \in In(m) BY <2>10, <4>1, <4>2
      <4>4. ASSUME NEW x \in In(m), pos[x] < pos[f[right]] PROVE Passed(k, past, x)
        <5>1. CASE x = m BY <2>19, <5>1
        <5>2. CASE pos[x] < pos[m] BY <1>3, <2>3, <2>11, <3>2, <5>2
        <5>3. CASE pos[x] > pos[m] BY <2>7, <4>2, <4>4, <5>3
        <5>4. QED BY <2>7, <5>1, <5>2, <5>3
      <4>5. QED BY <2>17, <3>1, <3>4, <4>2, <4>3, <4>4 DEF First
    <3>5. QED BY <3>3, <3>4
  <2>20. CASE ~Passed(k, past, m)
    <3>1. CASE f[left] = Nil
      <4>1. f[m] = m BY <2>16, <2>20, <3>1
      <4>2. ASSUME NEW x \in In(m), pos[x] < pos[m] PROVE Passed(k, past, x)
        BY <2>7, <2>12, <3>1, <4>2 DEF First
      <4>3. QED BY <1>1, <2>3, <2>8, <2>17, <2>20, <4>1, <4>2 DEF First
    <3>2. CASE f[left] # Nil
      <4>1. f[m] = f[left] /\ left # Nil BY <2>14, <2>16, <2>20, <3>2
      <4>2. /\ f[left] \in In(left) /\ ~Passed(k, past, f[left])
            /\ \A x \in In(left) : pos[x] < pos[f[left]] => Passed(k, past, x)
        BY <2>12, <3>2, <4>1 DEF First
      <4>3. f[left] \in In(m) /\ pos[f[left]] < pos[m] BY <2>9, <2>18, <4>1, <4>2
      <4>4. ASSUME NEW x \in In(m), pos[x] < pos[f[left]] PROVE Passed(k, past, x)
        <5>1. pos[x] < pos[m] BY <1>3, <2>3, <2>11, <4>3, <4>4
        <5>2. QED BY <2>7, <4>2, <4>4, <5>1
      <4>5. QED BY <2>17, <3>2, <4>1, <4>2, <4>3, <4>4 DEF First
    <3>3. QED BY <3>1, <3>2
  <2>21. QED BY <2>19, <2>20
<1>6. CASE A = {}
  <2>1. r = Nil BY <1>2, <1>6 DEF Shape, Top
  <2>2. QED BY <1>6, <2>1 DEF First
<1>7. CASE A # {}
  <2>1. t.root_ \in A /\ edge["left"][t.root_] = 0 /\ edge["right"][t.root_] = K + 1
    BY <1>7 DEF Shape, Top
  <2>2. First(In(t.root_), pos, k, past, r) BY <1>2, <1>5, <2>1
  <2>3. In(t.root_) = A BY <1>1, <1>3, <2>1
  <2>4. QED BY <2>2, <2>3
<1>8. QED BY <1>6, <1>7

------------------------------------------------------------------------------
(* Erase(key) *)

\* The position of a node, or the one behind the last for the end.
At(pos, K, m) == IF m = Nil THEN K + 1 ELSE pos[m]

\* The positions once those from i on, g of them, are given up.
Closed(i, g, p) == IF p < i THEN p ELSE p - g

\* What the loop of Erase(key) has done when it is at m: the nodes of t from a on up
\* to m are gone.
Erasing(t, K, pos, a, b, u, m) ==
    LET i == At(pos, K, a)
        j == At(pos, K, m)
    IN  /\ m \in t.alive \cup {Nil} /\ i <= j /\ j <= At(pos, K, b)
        /\ u.alive = {x \in t.alive : pos[x] < i \/ pos[x] >= j}
        /\ \E P : Whole(u, K - (j - i), P) /\ \A x \in u.alive : P[x] = Closed(i, j - i, pos[x])

\* What Whole says of positions and numbers.
LEMMA WholeFacts ==
    ASSUME NEW t, NEW K, NEW pos, Whole(t, K, pos)
    PROVE  /\ t \in Trees /\ t.alive \subseteq Nodes /\ Nil \notin t.alive /\ K \in Nat
           /\ K = Cardinality(t.alive) /\ t.size_ = K /\ K <= Cardinality(Nodes)
           /\ \A m \in t.alive : pos[m] \in Int /\ 1 <= pos[m] /\ pos[m] <= K
           /\ \A m, n \in t.alive : pos[m] = pos[n] => m = n
           /\ t.root_ = Nil <=> t.alive = {}
<1> DEFINE A == t.alive
<1>1. PICK edge : Shape(t, A, K, pos, edge) BY DEF Whole, Balance
<1>2. /\ t \in Trees /\ A \subseteq Nodes /\ K \in Nat /\ IsFiniteSet(Nodes) /\ Nil \notin A
      /\ pos \in [Nodes -> Int] /\ edge \in [Sides -> [Nodes -> Int]]
      /\ "left" \in Sides /\ "right" \in Sides
  BY <1>1, TreeAssumption DEF Shape, Placed, Sides
<1>3. K = Cardinality(A) /\ t.size_ = K BY DEF Whole
<1>4. K <= Cardinality(Nodes) BY <1>2, <1>3, FS_Subset
<1>5. ASSUME NEW m \in A PROVE pos[m] \in Int /\ 1 <= pos[m] /\ pos[m] <= K
  <2>1. /\ pos[m] \in Int /\ edge["left"][m] \in Int /\ edge["right"][m] \in Int
        /\ 0 <= edge["left"][m] /\ edge["left"][m] < pos[m]
        /\ pos[m] < edge["right"][m] /\ edge["right"][m] <= K + 1
    BY <1>1, <1>2 DEF Shape, Placed
  <2>2. QED BY <1>2, <2>1
<1>6. \A m, n \in A : pos[m] = pos[n] => m = n BY <1>1 DEF Shape, Placed
<1>7. t.root_ = Nil <=> A = {} BY <1>1, <1>2 DEF Shape, Top
<1>8. QED BY <1>2, <1>3, <1>4, <1>5, <1>6, <1>7

Advanced(t, K, pos, a, b, u, m) ==
    /\ Erasing(t, K, pos, a, b, Erased(u, m), NestNode(u, m))
    /\ m \in u.alive /\ u.size_ \in Nat /\ u.size_ >= 1 /\ u.size_ <= Cardinality(Nodes)
    /\ Erased(u, m).size_ = u.size_ - 1 /\ Erased(u, m) \in Trees

\* A round erases the node the loop is at and goes on to the next.
LEMMA ErasingRound ==
    ASSUME NEW t, NEW K, NEW pos, Whole(t, K, pos),
           NEW a \in t.alive \cup {Nil}, NEW b \in t.alive \cup {Nil},
           NEW u, NEW m, Erasing(t, K, pos, a, b, u, m), m # b
    PROVE  Advanced(t, K, pos, a, b, u, m)
<1> DEFINE A == t.alive
           i == At(pos, K, a)
           j == At(pos, K, m)
           g == j - i
           J == K - g
           v == Erased(u, m)
           k == NestNode(u, m)
<1>1. /\ A \subseteq Nodes /\ Nil \notin A /\ K \in Nat
      /\ \A x \in A : pos[x] \in Int /\ 1 <= pos[x] /\ pos[x] <= K
      /\ \A x, y \in A : pos[x] = pos[y] => x = y
  BY WholeFacts
<1>2. PICK P : Whole(u, J, P) /\ \A x \in u.alive : P[x] = Closed(i, g, pos[x]) BY DEF Erasing
<1>3. /\ m \in A \cup {Nil} /\ i <= j /\ j <= At(pos, K, b)
      /\ u.alive = {x \in A : pos[x] < i \/ pos[x] >= j}
  BY DEF Erasing
<1>4. i \in Int /\ j \in Int /\ g \in Int /\ J \in Int /\ At(pos, K, b) \in Int BY <1>1, <1>3 DEF At
<1>5. m # Nil /\ m \in A /\ j = pos[m] /\ j < At(pos, K, b)
  <2>1. m # Nil
    <3>1. SUFFICES ASSUME m = Nil PROVE FALSE OBVIOUS
    <3>2. j = K + 1 /\ b \in A /\ At(pos, K, b) = pos[b] BY <3>1 DEF At
    <3>3. pos[b] <= K /\ pos[b] \in Int BY <1>1, <3>2
    <3> HIDE DEF j
    <3>4. QED BY <1>1, <1>3, <3>2, <3>3
  <2>2. m \in A /\ j = pos[m] BY <1>3, <2>1 DEF At
  <2>3. At(pos, K, b) # j
    <3>1. CASE b = Nil
      <4>1. At(pos, K, b) = K + 1 BY <3>1 DEF At
      <4>2. pos[m] <= K /\ pos[m] \in Int BY <1>1, <2>2
      <4> HIDE DEF j
      <4>3. QED BY <1>1, <2>2, <4>1, <4>2
    <3>2. CASE b # Nil
      <4>1. At(pos, K, b) = pos[b] /\ b \in A BY <3>2 DEF At
      <4> HIDE DEF j
      <4>2. QED BY <1>1, <2>2, <4>1
    <3>3. QED BY <3>1, <3>2
  <2> HIDE DEF j
  <2>4. QED BY <1>3, <1>4, <2>1, <2>2, <2>3
<1> HIDE DEF i, j
<1>6. m \in u.alive BY <1>1, <1>3, <1>4, <1>5
<1>7. PICK Q : /\ Whole(v, J - 1, Q)
               /\ \A x \in u.alive \ {m} : Q[x] = PosWithout(P, m)[x]
  BY <1>2, <1>6, ErasedKeeps
<1>8. v.alive = u.alive \ {m} BY <1>2, <1>6, ErasedKeeps
<1>9. (k = Nil /\ P[m] = J) \/ (k \in u.alive /\ P[k] = P[m] + 1)
  <2>1. PICK e : Shape(u, u.alive, J, P, e) BY <1>2 DEF Whole, Balance
  <2>2. Tidy(u, u.alive) BY <1>2 DEF Whole
  <2>3. QED BY <1>6, <2>1, <2>2, NestNodeFacts
<1>10. /\ u.alive \subseteq Nodes /\ Nil \notin u.alive /\ J \in Nat /\ u.size_ = J
       /\ \A x \in u.alive : P[x] \in Int /\ 1 <= P[x] /\ P[x] <= J
       /\ J <= Cardinality(Nodes)
  BY <1>2, WholeFacts
<1>11. v \in Trees /\ v.size_ = J - 1 BY <1>7, WholeFacts
<1> DEFINE z == At(pos, K, k)
<1> HIDE DEF v, k, A
<1>12. P[m] = i
  <2>1. P[m] = Closed(i, g, j) BY <1>2, <1>5, <1>6
  <2>2. QED BY <1>3, <1>4, <2>1 DEF Closed
<1>13. \A x \in u.alive : x \in A /\ pos[x] \in Int BY <1>1, <1>3
<1>14. z = j + 1 /\ k \in A \cup {Nil}
  <2>1. CASE k = Nil /\ P[m] = J
    <3>1. z = K + 1 BY <2>1 DEF At
    <3>2. QED BY <1>1, <1>4, <1>12, <2>1, <3>1
  <2>2. CASE k \in u.alive /\ P[k] = P[m] + 1
    <3>1. k # Nil /\ k \in A /\ pos[k] \in Int BY <1>10, <1>13, <2>2
    <3>2. z = pos[k] BY <3>1 DEF At
    <3>3. Closed(i, g, pos[k]) = i + 1 BY <1>2, <1>12, <2>2
    <3>4. pos[k] = j + 1 BY <1>3, <1>4, <3>1, <3>3 DEF Closed
    <3>5. QED BY <3>1, <3>2, <3>4
  <2>3. QED BY <1>9, <2>1, <2>2
<1> HIDE DEF z
<1>15. v.alive = {x \in A : pos[x] < i \/ pos[x] >= z}
  <2>1. ASSUME NEW x \in A
        PROVE  x \in u.alive \ {m} <=> pos[x] < i \/ pos[x] >= z
    <3>1. x \in u.alive <=> pos[x] < i \/ pos[x] >= j BY <1>3
    <3>2. x = m <=> pos[x] = j BY <1>1, <1>5 DEF A
    <3>3. pos[x] \in Int BY <1>1 DEF A
    <3>4. QED BY <1>3, <1>4, <1>14, <3>1, <3>2, <3>3
  <2>2. u.alive \ {m} \subseteq A BY <1>13
  <2>3. QED BY <1>8, <2>1, <2>2
<1>16. ASSUME NEW x \in v.alive PROVE Q[x] = Closed(i, z - i, pos[x])
  <2>1. x \in u.alive \ {m} /\ x \in Nodes BY <1>8, <1>10
  <2>2. Q[x] = IF P[x] > i THEN P[x] - 1 ELSE P[x] BY <1>7, <1>12, <2>1 DEF PosWithout
  <2>3. P[x] = Closed(i, g, pos[x]) BY <1>2, <2>1
  <2>4. pos[x] \in Int /\ (pos[x] < i \/ pos[x] >= z) BY <1>13, <1>15, <2>1
  <2>5. CASE pos[x] < i
    <3>1. P[x] = pos[x] /\ Closed(i, z - i, pos[x]) = pos[x] BY <2>3, <2>5 DEF Closed
    <3>2. QED BY <1>4, <2>2, <2>4, <2>5, <3>1
  <2>6. CASE pos[x] >= z /\ ~(pos[x] < i)
    <3>1. P[x] = pos[x] - g /\ Closed(i, z - i, pos[x]) = pos[x] - (z - i)
      BY <2>3, <2>6 DEF Closed
    <3>2. QED BY <1>4, <1>14, <2>2, <2>4, <2>6, <3>1
  <2>7. QED BY <2>4, <2>5, <2>6
<1>17. J - 1 = K - (z - i) BY <1>1, <1>4, <1>14
<1>18. i <= z /\ z <= At(pos, K, b) BY <1>3, <1>4, <1>5, <1>14
<1>19. Erasing(t, K, pos, a, b, v, k)
  <2>1. Whole(v, K - (z - i), Q) BY <1>7, <1>17
  <2>2. k \in t.alive \cup {Nil} BY <1>14 DEF A
  <2> HIDE DEF J, g
  <2>3. QED BY <1>15, <1>16, <1>18, <2>1, <2>2 DEF Erasing, i, z, A
<1>20. J >= 1 BY <1>6, <1>10
<1>21. QED BY <1>6, <1>10, <1>11, <1>19, <1>20 DEF v, k, Advanced

\* The loop ends at the bound it was given.
LEMMA ErasedRangeKeeps ==
    ASSUME NEW t, NEW K, NEW pos, Whole(t, K, pos),
           NEW a \in t.alive \cup {Nil}, NEW b \in t.alive \cup {Nil},
           Erasing(t, K, pos, a, b, t, a)
    PROVE  Erasing(t, K, pos, a, b, ErasedRange(t, a, b), b)
<1> DEFINE N == Cardinality(Nodes)
           Round(loop) == IF loop[2] = b THEN loop
                          ELSE <<Erased(loop[1], loop[2]), NestNode(loop[1], loop[2])>>
           S == {l \in Trees \X NodesOrNil : Erasing(t, K, pos, a, b, l[1], l[2])}
           Done == {l \in S : l[2] = b}
           f == [l \in S |-> Round(l)]
           rank == [l \in S |-> IF l[2] = b THEN 0 ELSE l[1].size_ - 1]
           s0 == <<t, a>>
<1>0. N \in Nat BY FS_CardinalityType, TreeAssumption
<1>1. t \in Trees /\ t.alive \subseteq Nodes BY WholeFacts
<1>2. s0 \in S
  <2>1. a \in NodesOrNil BY <1>1 DEF NodesOrNil
  <2>2. QED BY <1>1, <2>1
<1>3. ASSUME NEW l \in S, l[2] # b
      PROVE  /\ Round(l) \in S /\ Round(l)[1].size_ = l[1].size_ - 1
             /\ l[1].size_ \in Nat /\ l[1].size_ >= 1 /\ l[1].size_ <= N
  <2> DEFINE v == Erased(l[1], l[2])
             k == NestNode(l[1], l[2])
  <2>1. Erasing(t, K, pos, a, b, l[1], l[2]) OBVIOUS
  <2>2. /\ Erasing(t, K, pos, a, b, v, k)
        /\ l[1].size_ \in Nat /\ l[1].size_ >= 1 /\ l[1].size_ <= N
        /\ v.size_ = l[1].size_ - 1 /\ v \in Trees
    <3> HIDE DEF S, Round, Done, f, rank, s0, N
    <3>1. Advanced(t, K, pos, a, b, l[1], l[2]) BY <1>3, <2>1, ErasingRound
    <3>2. QED BY <3>1 DEF Advanced, N
  <2>3. Round(l) = <<v, k>> BY <1>3
  <2> HIDE DEF v, k
  <2>4. k \in NodesOrNil BY <1>1, <2>2 DEF Erasing, NodesOrNil
  <2>5. <<v, k>> \in S BY <2>2, <2>4
  <2>6. QED BY <2>2, <2>3, <2>5
<1>4. \A l \in S : l[2] = b => Round(l) = l OBVIOUS
<1>5. \A l \in S : Round(l) \in S BY <1>3, <1>4
<1> HIDE DEF Round, N
<1>6. f \in [S -> S] /\ Done \in SUBSET S BY <1>5
<1>7. rank \in [S -> Nat] BY <1>3
<1>8. \A l \in Done : f[l] \in Done BY <1>4
<1>9. \A l \in S \ Done : f[l] \in Done \/ rank[f[l]] < rank[l]
  <2>1. SUFFICES ASSUME NEW l \in S \ Done, f[l] \notin Done PROVE rank[f[l]] < rank[l] OBVIOUS
  <2>2. f[l] = Round(l) /\ f[l] \in S BY <1>5
  <2>3. l[2] # b /\ f[l][2] # b BY <2>1, <2>2
  <2>4. rank[l] = l[1].size_ - 1 /\ rank[f[l]] = f[l][1].size_ - 1 BY <2>2, <2>3
  <2>5. l[1].size_ \in Nat /\ f[l][1].size_ = l[1].size_ - 1 BY <1>3, <2>2, <2>3
  <2>6. QED BY <2>4, <2>5
<1>10. s0 \in Done \/ rank[s0] < N
  <2>1. SUFFICES ASSUME s0[2] # b PROVE rank[s0] < N BY <1>2
  <2>2. rank[s0] = s0[1].size_ - 1 BY <1>2, <2>1
  <2>3. s0[1].size_ \in Nat /\ s0[1].size_ <= N BY <1>2, <1>3, <2>1
  <2>4. QED BY <1>0, <2>2, <2>3
<1>11. PICK g : Run(g, N, S, f, s0) /\ g[N] \in Done
  <2> HIDE DEF S, f, rank, s0, Done
  <2>1. QED BY <1>0, <1>2, <1>6, <1>7, <1>8, <1>9, <1>10, Loops
<1>12. /\ g \in [0..N -> S] /\ g[0] = s0
       /\ \A i \in 1..N : g[i] = Round(g[i - 1])
  <2>1. /\ g \in [0..N -> S] /\ g[0] = s0
        /\ \A i \in 1..N : g[i] = f[g[i - 1]]
    BY <1>11 DEF Run
  <2>2. \A i \in 1..N : g[i - 1] \in S BY <1>0, <2>1
  <2>3. QED BY <2>1, <2>2
<1>13. g = [i \in 0..N |-> IF i = 0 THEN s0 ELSE Round(g[i - 1])]
  <2> HIDE DEF S, f, s0
  <2>1. QED BY <1>0, <1>12
<1>14. PICK F : /\ F = [i \in 0..N |-> IF i = 0 THEN s0 ELSE Round(F[i - 1])]
                /\ ErasedRange(t, a, b) = F[N][1]
  <2> HIDE DEF S, f
  <2>1. \E F : F = [i \in 0..N |-> IF i = 0 THEN s0 ELSE Round(F[i - 1])] BY <1>13
  <2>2. QED BY <2>1 DEF ErasedRange, Rounds, Round, N, s0
<1>15. F[N] = g[N]
  <2> HIDE DEF S, f, s0
  <2>1. F[0] = g[0] BY <1>0, <1>12, <1>14
  <2>2. \A i \in 0..N : i < N /\ F[i] = g[i] => F[i + 1] = g[i + 1]
    <3>1. SUFFICES ASSUME NEW i \in 0..N, i < N, F[i] = g[i] PROVE F[i + 1] = g[i + 1] OBVIOUS
    <3>2. i + 1 \in 0..N /\ i + 1 # 0 /\ (i + 1) - 1 = i BY <1>0, <3>1
    <3>3. QED BY <1>13, <1>14, <3>1, <3>2
  <2>3. \A i \in 0..N : F[i] = g[i] BY <1>0, <2>1, <2>2, SameRun
  <2>4. N \in 0..N BY <1>0
  <2>5. QED BY <2>3, <2>4
<1>16. g[N] \in S /\ g[N][2] = b BY <1>11
<1>17. QED BY <1>14, <1>15, <1>16

\* The tree v is t without the nodes of the key k, which stood together.
KeyGone(t, K, pos, k, v) ==
    /\ v.alive = {x \in t.alive : Key[x] # k}
    /\ \E i \in 1..(K + 1), g \in Nat : \E P :
        /\ i + g <= K + 1
        /\ \A x \in t.alive : Key[x] = k <=> i <= pos[x] /\ pos[x] < i + g
        /\ Whole(v, K - g, P) /\ \A x \in v.alive : P[x] = Closed(i, g, pos[x])

\* Erase(key) removes the nodes of the key and no other, and keeps the rest in order.
LEMMA ErasedKeyKeeps ==
    ASSUME NEW t, NEW K, NEW pos, Whole(t, K, pos), NEW k \in Int, NEW v, v = ErasedKey(t, k)
    PROVE  KeyGone(t, K, pos, k, v)
<1> SUFFICES /\ v.alive = {x \in t.alive : Key[x] # k}
             /\ \E i \in 1..(K + 1), g \in Nat : \E P :
                  /\ i + g <= K + 1
                  /\ \A x \in t.alive : Key[x] = k <=> i <= pos[x] /\ pos[x] < i + g
                  /\ Whole(v, K - g, P) /\ \A x \in v.alive : P[x] = Closed(i, g, pos[x])
  BY DEF KeyGone
<1> DEFINE A == t.alive
           a == LowerBoundNode(t, k)
           b == UpperBoundNode(t, k)
           at(x) == At(pos, K, x)
<1>1. /\ A \subseteq Nodes /\ Nil \notin A /\ K \in Nat /\ t \in Trees /\ Nil \notin Nodes
      /\ \A x \in A : pos[x] \in Int /\ 1 <= pos[x] /\ pos[x] <= K
      /\ \A x, y \in A : pos[x] = pos[y] => x = y
      /\ \A x \in A : Key[x] \in Int
  BY WholeFacts, TreeAssumption
<1>2. CASE t.root_ = Nil
  <2>1. A = {} BY <1>2, WholeFacts
  <2>2. v = t BY <1>2 DEF ErasedKey
  <2>3. K - 0 = K /\ 1 \in 1..(K + 1) /\ 1 + 0 <= K + 1 /\ 0 \in Nat BY <1>1
  <2>4. QED BY <2>1, <2>2, <2>3
<1>3. CASE t.root_ # Nil
  <2>1. /\ First(A, pos, k, FALSE, a) /\ First(A, pos, k, TRUE, b)
    <3>1. PICK e : Shape(t, A, K, pos, e) BY DEF Whole, Balance
    <3>2. Tidy(t, A) /\ Sorted(A, pos) BY DEF Whole
    <3>3. a = Bound(t, k, FALSE) /\ b = Bound(t, k, TRUE) BY DEF LowerBoundNode, UpperBoundNode
    <3> HIDE DEF a, b
    <3>4. QED BY <3>1, <3>2, <3>3, BoundFacts
  <2> HIDE DEF a, b
  <2>2. a \in A \cup {Nil} /\ b \in A \cup {Nil} BY <2>1 DEF First
  <2>3. /\ \A x \in A : pos[x] < at(a) => Key[x] < k
        /\ \A x \in A : pos[x] >= at(a) => ~(Key[x] < k)
    <3>1. CASE a = Nil
      <4>1. \A x \in A : Key[x] < k BY <2>1, <3>1 DEF First, Passed
      <4>2. QED BY <1>1, <3>1, <4>1 DEF At
    <3>2. CASE a # Nil
      <4>1. /\ a \in A /\ ~(Key[a] < k) /\ at(a) = pos[a]
            /\ \A x \in A : pos[x] < pos[a] => Key[x] < k
        BY <2>1, <3>2 DEF First, Passed, At
      <4>2. ASSUME NEW x \in A, pos[x] >= pos[a] PROVE ~(Key[x] < k)
        <5>1. CASE x = a BY <4>1, <5>1
        <5>2. CASE x # a
          <6>1. pos[a] < pos[x] BY <1>1, <4>1, <4>2, <5>2
          <6>2. Key[a] <= Key[x] BY <4>1, <6>1 DEF Whole, Sorted
          <6>3. QED BY <1>1, <4>1, <6>2
        <5>3. QED BY <5>1, <5>2
      <4>3. QED BY <4>1, <4>2
    <3>3. QED BY <3>1, <3>2
  <2>4. /\ \A x \in A : pos[x] < at(b) => Key[x] <= k
        /\ \A x \in A : pos[x] >= at(b) => k < Key[x]
    <3>1. CASE b = Nil
      <4>1. \A x \in A : Key[x] < k \/ Key[x] = k BY <2>1, <3>1 DEF First, Passed
      <4>2. QED BY <1>1, <3>1, <4>1 DEF At
    <3>2. CASE b # Nil
      <4>1. /\ b \in A /\ ~(Key[b] < k \/ Key[b] = k) /\ at(b) = pos[b]
            /\ \A x \in A : pos[x] < pos[b] => Key[x] < k \/ Key[x] = k
        BY <2>1, <3>2 DEF First, Passed, At
      <4>2. ASSUME NEW x \in A, pos[x] >= pos[b] PROVE k < Key[x]
        <5>1. CASE x = b BY <1>1, <4>1, <5>1
        <5>2. CASE x # b
          <6>1. pos[b] < pos[x] BY <1>1, <4>1, <4>2, <5>2
          <6>2. Key[b] <= Key[x] BY <4>1, <6>1 DEF Whole, Sorted
          <6>3. QED BY <1>1, <4>1, <6>2
        <5>3. QED BY <5>1, <5>2
      <4>3. QED BY <1>1, <4>1, <4>2
    <3>3. QED BY <3>1, <3>2
  <2>5. at(a) \in Int /\ at(b) \in Int /\ at(a) <= at(b)
    <3>1. at(a) \in Int /\ at(b) \in Int /\ at(a) <= K + 1 BY <1>1, <2>2 DEF At
    <3>2. b = Nil => at(b) = K + 1 BY DEF At
    <3>3. b # Nil => b \in A /\ at(b) = pos[b] BY <2>2 DEF At
    <3>4. b # Nil => ~(at(b) < at(a))
      <4>1. SUFFICES ASSUME b # Nil, at(b) < at(a) PROVE FALSE OBVIOUS
      <4>2. b \in A /\ at(b) = pos[b] BY <3>3, <4>1
      <4>3. Key[b] < k BY <2>3, <4>1, <4>2
      <4>4. k < Key[b] BY <1>1, <2>4, <4>2
      <4>5. QED BY <1>1, <4>2, <4>3, <4>4
    <3> HIDE DEF at
    <3>5. QED BY <3>1, <3>2, <3>4
  <2>6. Erasing(t, K, pos, a, b, t, a)
    <3>1. A = {x \in A : pos[x] < at(a) \/ pos[x] >= at(a)} BY <1>1, <2>5
    <3>2. at(a) - at(a) = 0 /\ K - 0 = K BY <1>1, <2>5
    <3>3. \A x \in A : pos[x] = Closed(at(a), 0, pos[x]) BY <1>1 DEF Closed
    <3>4. QED BY <2>2, <2>5, <3>1, <3>2, <3>3 DEF Erasing
  <2>7. Erasing(t, K, pos, a, b, v, b)
    <3>1. v = ErasedRange(t, a, b) BY <1>3 DEF ErasedKey, a, b
    <3>2. QED BY <2>2, <2>6, <3>1, ErasedRangeKeeps
  <2>8. v.alive = {x \in A : pos[x] < at(a) \/ pos[x] >= at(b)} BY <2>7 DEF Erasing
  <2>9. ASSUME NEW x \in A
        PROVE  Key[x] # k <=> pos[x] < at(a) \/ pos[x] >= at(b)
    <3>1. pos[x] \in Int /\ Key[x] \in Int BY <1>1
    <3>2. pos[x] < at(a) => Key[x] < k BY <2>3
    <3>3. pos[x] >= at(a) => ~(Key[x] < k) BY <2>3
    <3>4. pos[x] < at(b) => Key[x] <= k BY <2>4
    <3>5. pos[x] >= at(b) => k < Key[x] BY <2>4
    <3> HIDE DEF at, A
    <3>6. QED BY <2>5, <3>1, <3>2, <3>3, <3>4, <3>5
  <2>10. v.alive = {x \in A : Key[x] # k} BY <2>8, <2>9
  <2> DEFINE g == at(b) - at(a)
  <2>11. PICK P : Whole(v, K - g, P) /\ \A x \in v.alive : P[x] = Closed(at(a), g, pos[x])
    BY <2>7 DEF Erasing
  <2>12. /\ at(a) \in 1..(K + 1) /\ g \in Nat /\ at(a) + g <= K + 1
    <3>1. 1 <= at(a) /\ at(b) <= K + 1 BY <1>1, <2>2 DEF At
    <3> HIDE DEF at
    <3>2. QED BY <1>1, <2>5, <3>1
  <2>13. \A x \in A : Key[x] = k <=> at(a) <= pos[x] /\ pos[x] < at(a) + g
    <3>1. SUFFICES ASSUME NEW x \in A
                   PROVE  Key[x] = k <=> at(a) <= pos[x] /\ pos[x] < at(a) + g
      OBVIOUS
    <3>2. Key[x] # k <=> pos[x] < at(a) \/ pos[x] >= at(b) BY <2>9
    <3>3. pos[x] \in Int BY <1>1
    <3> HIDE DEF at, A
    <3>4. QED BY <2>5, <3>2, <3>3
  <2> HIDE DEF at, g
  <2>14. QED BY <2>10, <2>11, <2>12, <2>13
<1>4. QED BY <1>2, <1>3

------------------------------------------------------------------------------
(* The first tree *)

\* A tree without nodes is whole.
LEMMA EmptyWhole == Whole(Empty, 0, [m \in Nodes |-> 0])
<1> DEFINE pos == [m \in Nodes |-> 0]
           edge == [s \in Sides |-> pos]
<1>1. Empty \in Trees BY DEF Empty, Trees, NodesOrNil, Colors, Sides
<1>2. /\ Empty.root_ = Nil /\ Empty.min_ = Nil /\ Empty.max_ = Nil /\ Empty.size_ = 0
      /\ Empty.alive = {}
      /\ \A m \in Nodes : /\ Empty.parent_[m] = Nil /\ Empty.color_[m] = "black"
                          /\ \A s \in Sides : Empty.child_[s][m] = Nil
  BY DEF Empty
<1> HIDE DEF pos
<1>3. pos \in [Nodes -> Int] /\ pos \in [Nodes -> Nat] BY DEF pos
<1>4. edge \in [Sides -> [Nodes -> Int]] BY <1>3
<1> HIDE DEF edge
<1>5. Shape(Empty, {}, 0, pos, edge)
  BY <1>1, <1>2, <1>3, <1>4 DEF Shape, Placed, Downwards, Gapless, Upwards, Top
<1>6. Even(Empty, {}, pos, Nil, Nil) /\ NoTwoRed(Empty, {}, Nil) BY <1>3 DEF Even, NoTwoRed
<1>7. Tidy(Empty, {}) /\ Sorted({}, pos) /\ Ends(Empty, {}, 0, pos)
  BY <1>2 DEF Tidy, Sorted, Ends
<1>8. Cardinality({}) = 0 BY FS_EmptySet
<1>9. QED BY <1>2, <1>5, <1>6, <1>7, <1>8 DEF Whole, Balance, pos

\* So is the tree after any number of insertions.
LEMMA FilledKeeps ==
    ASSUME NEW load \in Loads
    PROVE  \E K, pos : Whole(Filled(load), K, pos)
<1> DEFINE N == Len(load)
           Eq(F, n) == F = [i \in 0..n |-> IF i = 0 THEN Empty ELSE Inserted(F[i - 1], load[i])]
           S == {n \in 0..N : \E F : Eq(F, n)}
<1>1. /\ load \in Seq(Nodes) /\ N \in Nat
      /\ \A i \in 1..N : load[i] \in Nodes
      /\ \A i, j \in 1..N : load[i] = load[j] => i = j
  BY TreeAssumption
<1>2. 0 \in S
  <2> DEFINE F == [i \in 0..0 |-> Empty]
  <2>1. F = [i \in 0..0 |-> IF i = 0 THEN Empty ELSE Inserted(F[i - 1], load[i])]
    <3>1. \A i \in 0..0 : Empty = IF i = 0 THEN Empty ELSE Inserted(F[i - 1], load[i])
      OBVIOUS
    <3>2. QED BY <3>1
  <2> HIDE DEF F, N
  <2>2. 0 \in 0..N BY <1>1
  <2>3. QED BY <2>1, <2>2
<1>3. ASSUME NEW n \in 0..N, n \in S, n < N PROVE n + 1 \in S
  <2>1. PICK F : Eq(F, n) BY <1>3
  <2> DEFINE G == [i \in 0..n + 1 |-> IF i <= n THEN F[i] ELSE Inserted(F[n], load[n + 1])]
  <2>2. ASSUME NEW i \in 0..n + 1
        PROVE  G[i] = IF i = 0 THEN Empty ELSE Inserted(G[i - 1], load[i])
    <3>1. CASE i = 0 BY <1>1, <2>1, <3>1
    <3>2. CASE i # 0 /\ i <= n
      <4>1. i \in 0..n /\ i - 1 \in 0..n + 1 /\ i - 1 <= n BY <1>1, <3>2
      <4>2. G[i] = F[i] /\ G[i - 1] = F[i - 1] BY <3>2, <4>1
      <4>3. F[i] = Inserted(F[i - 1], load[i]) BY <2>1, <3>2, <4>1
      <4>4. QED BY <3>2, <4>2, <4>3
    <3>3. CASE i = n + 1
      <4>1. n \in 0..n + 1 /\ n <= n /\ ~(n + 1 <= n) /\ (n + 1) - 1 = n /\ n + 1 # 0 BY <1>1
      <4>2. G[i] = Inserted(F[n], load[n + 1]) /\ G[n] = F[n] BY <3>3, <4>1
      <4> HIDE DEF G
      <4>3. QED BY <3>3, <4>1, <4>2
    <3>4. QED BY <1>1, <3>1, <3>2, <3>3
  <2>3. G = [i \in 0..n + 1 |-> G[i]] OBVIOUS
  <2> HIDE DEF G
  <2>4. Eq(G, n + 1) BY <2>2, <2>3
  <2>5. n + 1 \in 0..N BY <1>1, <1>3
  <2>6. QED BY <2>4, <2>5
<1>4. 0..N \subseteq S
  <2> HIDE DEF S, N
  <2>1. QED BY <1>1, <1>2, <1>3, Climb
<1>5. PICK F : Eq(F, N) /\ Filled(load) = F[N]
  <2>1. N \in S BY <1>1, <1>4
  <2>2. \E F : F = [i \in 0..Len(load) |-> IF i = 0 THEN Empty ELSE Inserted(F[i - 1], load[i])]
    BY <2>1
  <2>3. QED BY <2>2 DEF Filled
<1>6. F[0] = Empty /\ \A i \in 0..N : i # 0 => F[i] = Inserted(F[i - 1], load[i])
  <2>1. F = [i \in 0..N |-> IF i = 0 THEN Empty ELSE Inserted(F[i - 1], load[i])] BY <1>5
  <2> HIDE DEF N
  <2>2. 0 \in 0..N BY <1>1
  <2>3. \A i \in 0..N : F[i] = IF i = 0 THEN Empty ELSE Inserted(F[i - 1], load[i])
    BY <2>1
  <2>4. QED BY <2>2, <2>3
<1> DEFINE Loaded(i) == {load[j] : j \in 1..i}
           R == {i \in 0..N : (\E K, pos : Whole(F[i], K, pos)) /\ F[i].alive = Loaded(i)}
<1>7. 0 \in R
  <2>1. Loaded(0) = {} OBVIOUS
  <2>2. Empty.alive = {} BY DEF Empty
  <2> HIDE DEF N, Loaded
  <2>3. 0 \in 0..N BY <1>1
  <2>4. QED BY <1>6, <2>1, <2>2, <2>3, EmptyWhole
<1>8. ASSUME NEW i \in 0..N, i \in R, i < N PROVE i + 1 \in R
  <2>1. i + 1 \in 0..N /\ i + 1 \in 1..N /\ i + 1 # 0 /\ (i + 1) - 1 = i /\ i \in Nat
    BY <1>1, <1>8
  <2>2. F[i + 1] = Inserted(F[i], load[i + 1]) BY <1>6, <2>1
  <2>3. PICK K, pos : Whole(F[i], K, pos) BY <1>8
  <2>4. F[i].alive = Loaded(i) BY <1>8
  <2>5. load[i + 1] \in Nodes \ F[i].alive
    <3>1. SUFFICES ASSUME load[i + 1] \in Loaded(i) PROVE FALSE BY <1>1, <2>1, <2>4
    <3>2. PICK j \in 1..i : load[j] = load[i + 1] BY <3>1
    <3>3. j \in 1..N /\ j # i + 1 BY <1>1, <2>1
    <3>4. QED BY <1>1, <2>1, <3>2, <3>3
  <2>6. Loaded(i + 1) = Loaded(i) \cup {load[i + 1]}
    <3>1. 1..i + 1 = (1..i) \cup {i + 1} BY <2>1
    <3>2. QED BY <3>1
  <2> HIDE DEF N, Loaded
  <2>7. \E q \in 1..(K + 1) :
            /\ Inserted(F[i], load[i + 1]).alive = F[i].alive \cup {load[i + 1]}
            /\ Whole(Inserted(F[i], load[i + 1]), K + 1, PosWith(pos, load[i + 1], q))
    BY <2>3, <2>5, InsertKeeps
  <2>8. PICK q \in 1..(K + 1) :
            /\ Inserted(F[i], load[i + 1]).alive = F[i].alive \cup {load[i + 1]}
            /\ Whole(Inserted(F[i], load[i + 1]), K + 1, PosWith(pos, load[i + 1], q))
    BY <2>7
  <2>9. F[i + 1].alive = Loaded(i + 1) BY <2>2, <2>4, <2>6, <2>8
  <2>10. \E L, P : Whole(F[i + 1], L, P) BY <2>2, <2>8
  <2>11. QED BY <2>1, <2>9, <2>10
<1>9. 0..N \subseteq R
  <2> HIDE DEF R, N
  <2>1. QED BY <1>1, <1>7, <1>8, Climb
<1>10. N \in R BY <1>1, <1>9
<1>11. QED BY <1>5, <1>10

------------------------------------------------------------------------------
(* The iteration *)

\* The sequence s has the nodes in their positions.
Enumerates(s, A, K, pos) ==
    /\ s \in Seq(A) /\ Len(s) = K /\ \A i \in 1..K : pos[s[i]] = i

Next1(t, i, seen) ==
    LET next == IF i = 1 THEN t.min_ ELSE NestNode(t, seen[i - 1])
    IN  IF Len(seen) < i - 1 \/ next = Nil THEN seen ELSE Append(seen, next)

\* A step of the iteration goes to the next position, if there is one.
LEMMA VisitedStep ==
    ASSUME NEW t, NEW K, NEW pos, Whole(t, K, pos), NEW i \in Nat,
           NEW s, Enumerates(s, t.alive, IF i <= K THEN i ELSE K, pos)
    PROVE  Enumerates(Next1(t, i + 1, s), t.alive, IF i + 1 <= K THEN i + 1 ELSE K, pos)
<1> DEFINE A == t.alive
           next == IF i + 1 = 1 THEN t.min_ ELSE NestNode(t, s[i])
<1>1. /\ t \in Trees /\ A \subseteq Nodes /\ Nil \notin A /\ K \in Nat /\ K = Cardinality(A)
      /\ \A m \in A : pos[m] \in Int /\ 1 <= pos[m] /\ pos[m] <= K
  BY WholeFacts
<1>2. s \in Seq(A) BY DEF Enumerates
<1>3. Next1(t, i + 1, s) = IF Len(s) < i \/ next = Nil THEN s ELSE Append(s, next)
  BY DEF Next1
<1>4. A = {} <=> K = 0
  <2>1. IsFiniteSet(A) BY <1>1, FS_Subset, TreeAssumption
  <2>2. QED BY <1>1, <2>1, FS_EmptySet
<1>5. ASSUME NEW n \in A
      PROVE  (NestNode(t, n) = Nil /\ pos[n] = K)
             \/ (NestNode(t, n) \in A /\ pos[NestNode(t, n)] = pos[n] + 1)
  <2>1. PICK e : Shape(t, A, K, pos, e) /\ Tidy(t, A) BY DEF Whole, Balance
  <2>2. QED BY <2>1, NestNodeFacts
<1>6. Ends(t, A, K, pos) BY DEF Whole
<1>10. Nil \notin A BY <1>1
<1> HIDE DEF next, A
<1>7. CASE i < K
  <2>1. Len(s) = i /\ \A j \in 1..i : pos[s[j]] = j
    BY <1>1, <1>7 DEF Enumerates
  <2>2. next \in A /\ pos[next] = i + 1
    <3>1. CASE i = 0
      <4>1. next = t.min_ BY <3>1 DEF next
      <4>2. t.min_ \in A /\ pos[t.min_] = 1 BY <1>4, <1>6, <1>7, <3>1 DEF Ends
      <4>3. QED BY <3>1, <4>1, <4>2
    <3>2. CASE i # 0
      <4>1. next = NestNode(t, s[i]) BY <3>2 DEF next
      <4>2. s[i] \in A /\ pos[s[i]] = i BY <1>2, <2>1, <3>2
      <4>3. QED BY <1>1, <1>5, <1>7, <4>1, <4>2
    <3>3. QED BY <3>1, <3>2
  <2> DEFINE r == Append(s, next)
  <2>3. Next1(t, i + 1, s) = r
    <3>1. next # Nil BY <1>10, <2>2
    <3>2. ~(Len(s) < i) BY <2>1
    <3>3. QED BY <1>3, <3>1, <3>2
  <2>4. /\ r \in Seq(A) /\ Len(r) = i + 1 /\ r[i + 1] = next
        /\ \A j \in 1..i : r[j] = s[j]
    BY <1>2, <2>1, <2>2
  <2> HIDE DEF r
  <2>5. \A j \in 1..i + 1 : pos[r[j]] = j
    <3>1. SUFFICES ASSUME NEW j \in 1..i + 1 PROVE pos[r[j]] = j OBVIOUS
    <3>2. j \in 1..i \/ j = i + 1 OBVIOUS
    <3>3. QED BY <2>1, <2>2, <2>4, <3>2
  <2>6. i + 1 <= K BY <1>1, <1>7
  <2>7. Enumerates(r, A, i + 1, pos) BY <2>4, <2>5 DEF Enumerates
  <2>8. QED BY <2>3, <2>6, <2>7 DEF A
<1>8. CASE i >= K
  <2>1. (IF i <= K THEN i ELSE K) = K BY <1>1, <1>8
  <2>2. Enumerates(s, A, K, pos) BY <2>1 DEF A
  <2>3. Len(s) = K /\ \A j \in 1..K : pos[s[j]] = j BY <2>2 DEF Enumerates
  <2>4. Len(s) < i \/ next = Nil
    <3>1. SUFFICES ASSUME i = K PROVE next = Nil BY <1>1, <1>8, <2>3
    <3>2. CASE i = 0
      <4>1. A = {} BY <1>4, <3>1, <3>2
      <4>2. next = t.min_ BY <3>2 DEF next
      <4>3. QED BY <1>6, <4>1, <4>2 DEF Ends
    <3>3. CASE i # 0
      <4>1. next = NestNode(t, s[i]) BY <3>3 DEF next
      <4>2. s[i] \in A /\ pos[s[i]] = i BY <1>2, <2>3, <3>1, <3>3
      <4>3. NestNode(t, s[i]) \notin A \/ pos[NestNode(t, s[i])] # K + 1 BY <1>1 DEF A
      <4>4. QED BY <1>5, <3>1, <4>1, <4>2, <4>3
    <3>4. QED BY <3>2, <3>3
  <2>5. Next1(t, i + 1, s) = s BY <1>3, <2>4
  <2>6. (IF i + 1 <= K THEN i + 1 ELSE K) = K BY <1>1, <1>8
  <2>7. QED BY <2>2, <2>5, <2>6 DEF A
<1>9. QED BY <1>1, <1>7, <1>8

\* Going on from begin() visits all nodes, in the order of their positions.
LEMMA VisitedFacts ==
    ASSUME NEW t, NEW K, NEW pos, Whole(t, K, pos)
    PROVE  Enumerates(Visited(t), t.alive, K, pos)
<1> DEFINE N == Cardinality(Nodes)
           Eq(F, n) == F = [i \in 0..n |-> IF i = 0 THEN << >> ELSE Next1(t, i, F[i - 1])]
           S == {n \in 0..N : \E F : Eq(F, n)}
<1>1. N \in Nat /\ K \in Nat /\ K <= N BY WholeFacts, FS_CardinalityType, TreeAssumption
<1> HIDE DEF N
<1>2. 0 \in S
  <2> DEFINE F == [i \in 0..0 |-> << >>]
  <2>1. F = [i \in 0..0 |-> IF i = 0 THEN << >> ELSE Next1(t, i, F[i - 1])]
    <3>1. \A i \in 0..0 : << >> = IF i = 0 THEN << >> ELSE Next1(t, i, F[i - 1])
      OBVIOUS
    <3>2. QED BY <3>1
  <2> HIDE DEF F
  <2>2. 0 \in 0..N BY <1>1
  <2>3. QED BY <2>1, <2>2
<1>3. ASSUME NEW n \in 0..N, n \in S, n < N PROVE n + 1 \in S
  <2>1. PICK F : Eq(F, n) BY <1>3
  <2> DEFINE G == [i \in 0..n + 1 |-> IF i <= n THEN F[i] ELSE Next1(t, n + 1, F[n])]
  <2>2. ASSUME NEW i \in 0..n + 1
        PROVE  G[i] = IF i = 0 THEN << >> ELSE Next1(t, i, G[i - 1])
    <3>1. CASE i = 0 BY <1>1, <2>1, <3>1
    <3>2. CASE i # 0 /\ i <= n
      <4>1. i \in 0..n /\ i - 1 \in 0..n + 1 /\ i - 1 <= n BY <1>1, <3>2
      <4>2. G[i] = F[i] /\ G[i - 1] = F[i - 1] BY <3>2, <4>1
      <4>3. F[i] = Next1(t, i, F[i - 1]) BY <2>1, <3>2, <4>1
      <4>4. QED BY <3>2, <4>2, <4>3
    <3>3. CASE i = n + 1
      <4>1. n \in 0..n + 1 /\ n <= n /\ ~(n + 1 <= n) /\ (n + 1) - 1 = n /\ n + 1 # 0 BY <1>1
      <4>2. G[i] = Next1(t, n + 1, F[n]) /\ G[n] = F[n] BY <3>3, <4>1
      <4> HIDE DEF G
      <4>3. QED BY <3>3, <4>1, <4>2
    <3>4. QED BY <1>1, <3>1, <3>2, <3>3
  <2>3. G = [i \in 0..n + 1 |-> G[i]] OBVIOUS
  <2> HIDE DEF G
  <2>4. Eq(G, n + 1) BY <2>2, <2>3
  <2>5. n + 1 \in 0..N BY <1>1, <1>3
  <2>6. QED BY <2>4, <2>5
<1>4. 0..N \subseteq S
  <2> HIDE DEF S
  <2>1. QED BY <1>1, <1>2, <1>3, Climb
<1>5. PICK F : Eq(F, N) /\ Visited(t) = F[N]
  <2>1. N \in S BY <1>1, <1>4
  <2>2. \E F : F = [i \in 0..N |-> IF i = 0 THEN << >> ELSE Next1(t, i, F[i - 1])]
    BY <2>1
  <2>3. QED BY <2>2 DEF Visited, Next1, N
<1>6. F[0] = << >> /\ \A i \in 0..N : i # 0 => F[i] = Next1(t, i, F[i - 1])
  BY <1>1, <1>5
<1> DEFINE R == {i \in 0..N : Enumerates(F[i], t.alive, IF i <= K THEN i ELSE K, pos)}
<1>7. 0 \in R
  <2>1. Enumerates(<< >>, t.alive, 0, pos) BY DEF Enumerates
  <2>2. (IF 0 <= K THEN 0 ELSE K) = 0 /\ 0 \in 0..N BY <1>1
  <2>3. QED BY <1>6, <2>1, <2>2
<1>8. ASSUME NEW i \in 0..N, i \in R, i < N PROVE i + 1 \in R
  <2>1. i + 1 \in 0..N /\ i + 1 # 0 /\ (i + 1) - 1 = i /\ i \in Nat BY <1>1, <1>8
  <2>2. F[i + 1] = Next1(t, i + 1, F[i]) BY <1>6, <2>1
  <2>3. Enumerates(F[i + 1], t.alive, IF i + 1 <= K THEN i + 1 ELSE K, pos)
    BY <1>8, <2>1, <2>2, VisitedStep
  <2>4. QED BY <2>1, <2>3
<1>9. 0..N \subseteq R
  <2> HIDE DEF R
  <2>1. QED BY <1>1, <1>7, <1>8, Climb
<1>10. N \in R BY <1>1, <1>9
<1>11. (IF N <= K THEN N ELSE K) = K BY <1>1
<1>12. QED BY <1>5, <1>10, <1>11

------------------------------------------------------------------------------
(* Looking for a key *)

\* The recursion of Find has a solution.
LEMMA FindRecursion ==
    ASSUME NEW t, NEW A, NEW K, NEW pos, NEW edge, Shape(t, A, K, pos, edge), Tidy(t, A),
           NEW k \in Int, NEW r, r = Find(t, k)
    PROVE  \E f :
               /\ r = f[t.root_] /\ f[Nil] = Nil
               /\ \A m \in Nodes :
                    f[m] = IF Key[m] = k THEN m
                           ELSE f[t.child_[IF k < Key[m] THEN "left" ELSE "right"][m]]
<1> DEFINE Way(m) == t.child_[IF k < Key[m] THEN "left" ELSE "right"][m]
           Stop == {m \in NodesOrNil : m = Nil \/ Key[m] = k}
           rank == [m \in NodesOrNil |-> IF m = Nil THEN 0 ELSE IF m \in A THEN Width(edge, m)
                                         ELSE 1]
           val == [m \in NodesOrNil |-> m]
           next == [m \in NodesOrNil \ Stop |-> Way(m)]
           Step(f, m) == IF m = Nil THEN Nil ELSE IF Key[m] = k THEN m ELSE f[Way(m)]
<1>1. /\ A \subseteq Nodes /\ t \in Trees /\ K \in Nat /\ Nil \notin Nodes
      /\ \A m \in NodesOrNil : m = Nil \/ m \in Nodes
      /\ \A m \in Nodes : m \in NodesOrNil /\ m # Nil
      /\ Nil \in NodesOrNil /\ t.root_ \in NodesOrNil
      /\ "left" \in Sides /\ "right" \in Sides
      /\ \A m \in Nodes, d \in Sides : t.child_[d][m] \in NodesOrNil
  BY TreeAssumption DEF Shape, NodesOrNil, Trees, Sides
<1>2. \A m \in A : Width(edge, m) \in 2..(K + 1) BY Narrower
<1>3. \A m \in Nodes : Way(m) \in NodesOrNil /\ (Way(m) # Nil => m \in A /\ Way(m) \in A
                                                  /\ Width(edge, Way(m)) < Width(edge, m))
  <2>1. SUFFICES ASSUME NEW m \in Nodes, NEW d \in Sides, t.child_[d][m] # Nil
                 PROVE  m \in A /\ t.child_[d][m] \in A
                        /\ Width(edge, t.child_[d][m]) < Width(edge, m)
    BY <1>1
  <2>2. m \in A BY <2>1 DEF Tidy
  <2>3. QED BY <2>1, <2>2, ChildFacts, Narrower
<1>4. /\ rank \in [NodesOrNil -> 0..(K + 1)] /\ K + 1 \in Nat
      /\ Stop \in SUBSET NodesOrNil /\ next \in [NodesOrNil \ Stop -> NodesOrNil]
  <2>1. K + 1 \in Nat /\ Stop \in SUBSET NodesOrNil BY <1>1
  <2>2. rank \in [NodesOrNil -> 0..(K + 1)] BY <1>1, <1>2
  <2>3. next \in [NodesOrNil \ Stop -> NodesOrNil]
    <3>1. \A m \in NodesOrNil \ Stop : Way(m) \in NodesOrNil BY <1>1, <1>3
    <3> HIDE DEF Way, Stop
    <3>2. QED BY <3>1
  <2>4. QED BY <2>1, <2>2, <2>3
<1>5. \A d \in NodesOrNil \ Stop : rank[next[d]] < rank[d]
  <2>1. SUFFICES ASSUME NEW d \in NodesOrNil \ Stop PROVE rank[next[d]] < rank[d] OBVIOUS
  <2>2. d \in Nodes /\ next[d] = Way(d) /\ Way(d) \in NodesOrNil BY <1>1, <1>3
  <2> HIDE DEF Way, next
  <2>3. CASE Way(d) = Nil
    <3>1. rank[next[d]] = 0 BY <1>1, <2>2, <2>3
    <3>2. rank[d] = (IF d \in A THEN Width(edge, d) ELSE 1) /\ rank[d] > 0 BY <1>1, <1>2, <2>2
    <3>3. QED BY <3>1, <3>2
  <2>4. CASE Way(d) # Nil
    <3>1. d \in A /\ Way(d) \in A /\ Width(edge, Way(d)) < Width(edge, d) BY <1>3, <2>2, <2>4
    <3>2. QED BY <1>1, <2>2, <2>4, <3>1
  <2>5. QED BY <2>3, <2>4
<1>6. PICK f : Along(f, NodesOrNil, Stop, val, next)
  <2> HIDE DEF rank, next, Stop, val
  <2>1. QED BY <1>4, <1>5, Walks
<1>7. f = [m \in NodesOrNil |-> Step(f, m)]
  <2>1. f = [m \in NodesOrNil |-> IF m \in Stop THEN val[m] ELSE f[next[m]]]
    BY <1>6 DEF Along
  <2>2. ASSUME NEW m \in NodesOrNil
        PROVE  (IF m \in Stop THEN val[m] ELSE f[next[m]]) = Step(f, m)
    OBVIOUS
  <2> HIDE DEF Stop, next, val, Step
  <2>3. QED BY <2>1, <2>2
<1>8. \E g : g = [m \in NodesOrNil |-> Step(g, m)] BY <1>7
<1>9. PICK g : g = [m \in NodesOrNil |-> Step(g, m)] /\ r = g[t.root_]
  BY <1>8 DEF Find, NodesOrNil
<1>10. \A m \in NodesOrNil : g[m] = Step(g, m)
  <2> HIDE DEF Step
  <2>1. QED BY <1>9
<1>11. g[Nil] = Nil BY <1>1, <1>10
<1>12. \A m \in Nodes :
          g[m] = IF Key[m] = k THEN m
                 ELSE g[t.child_[IF k < Key[m] THEN "left" ELSE "right"][m]]
  BY <1>1, <1>10
<1>13. QED BY <1>9, <1>11, <1>12

\* Find finds a node of the key if there is one.
LEMMA FindFacts ==
    ASSUME NEW t, NEW A, NEW K, NEW pos, NEW edge, Shape(t, A, K, pos, edge), Tidy(t, A),
           Sorted(A, pos), NEW k \in Int, NEW r, r = Find(t, k)
    PROVE  IF \E n \in A : Key[n] = k THEN r \in A /\ Key[r] = k ELSE r = Nil
<1> DEFINE Spans(q, x) == edge["left"][q] < pos[x] /\ pos[x] < edge["right"][q]
           Goal(q, v) == \/ v \in A /\ Key[v] = k
                         \/ v = Nil /\ \A x \in A : Spans(q, x) => Key[x] # k
<1>1. PICK f :
        /\ r = f[t.root_] /\ f[Nil] = Nil
        /\ \A m \in Nodes :
             f[m] = IF Key[m] = k THEN m
                    ELSE f[t.child_[IF k < Key[m] THEN "left" ELSE "right"][m]]
  BY FindRecursion
<1>2. /\ A \subseteq Nodes /\ K \in Nat /\ Nil \notin A
      /\ \A x \in A : x \in Nodes /\ Key[x] \in Int /\ pos[x] \in Int
                      /\ edge["left"][x] \in Int /\ edge["right"][x] \in Int
                      /\ 0 <= edge["left"][x] /\ edge["left"][x] < pos[x]
                      /\ pos[x] < edge["right"][x] /\ edge["right"][x] <= K + 1
      /\ \A x, y \in A : pos[x] = pos[y] => x = y
  BY TreeAssumption DEF Shape, Placed, Sides
<1>3. \A q \in A : /\ t.child_["left"][q] = Nil => edge["left"][q] = pos[q] - 1
                   /\ t.child_["right"][q] = Nil => edge["right"][q] = pos[q] + 1
  BY DEF Shape, Gapless
<1>4. \A x, y \in A : pos[x] < pos[y] => Key[x] <= Key[y] BY DEF Sorted
<1> DEFINE B == {q \in A : ~Goal(q, f[q])}
<1>5. B = {}
  <2>1. SUFFICES ASSUME B # {} PROVE FALSE OBVIOUS
  <2>2. PICK q \in B : \A d \in Sides : t.child_[d][q] \notin B
    <3>1. B \in SUBSET A OBVIOUS
    <3> HIDE DEF B
    <3>2. QED BY <2>1, <3>1, Lowest
  <2>3. q \in A /\ q \in Nodes /\ ~Goal(q, f[q]) BY <1>2
  <2>4. Key[q] # k
    <3>1. SUFFICES ASSUME Key[q] = k PROVE FALSE OBVIOUS
    <3>2. f[q] = q BY <1>1, <2>3, <3>1
    <3>3. QED BY <2>3, <3>1, <3>2
  <2>5. CASE k < Key[q]
    <3> DEFINE c == t.child_["left"][q]
    <3>1. f[q] = f[c] BY <1>1, <2>3, <2>4, <2>5
    <3>2. ASSUME NEW x \in A, Spans(q, x), Key[x] = k PROVE c # Nil /\ Spans(c, x)
      <4>1. pos[x] < pos[q] BY <1>2, <1>4, <2>3, <2>4, <2>5, <3>2
      <4>2. c # Nil BY <1>2, <1>3, <2>3, <3>2, <4>1
      <4>3. edge["left"][c] = edge["left"][q] /\ edge["right"][c] = pos[q]
        BY <2>3, <4>2, ChildFacts DEF Sides, Opposite
      <4>4. QED BY <3>2, <4>1, <4>2, <4>3
    <3>3. CASE c = Nil BY <1>1, <2>3, <3>1, <3>2, <3>3
    <3>4. CASE c # Nil
      <4>1. c \in A BY <2>3, <3>4, ChildFacts DEF Sides
      <4>2. c \notin B BY <2>2 DEF Sides
      <4>3. Goal(c, f[c]) BY <4>1, <4>2
      <4> HIDE DEF c, Spans
      <4>4. QED BY <2>3, <3>1, <3>2, <4>3
    <3>5. QED BY <3>3, <3>4
  <2>6. CASE Key[q] < k
    <3> DEFINE c == t.child_["right"][q]
    <3>0. ~(k < Key[q]) BY <1>2, <2>3, <2>6
    <3>1. f[q] = f[c] BY <1>1, <2>3, <2>4, <3>0
    <3>2. ASSUME NEW x \in A, Spans(q, x), Key[x] = k PROVE c # Nil /\ Spans(c, x)
      <4>1. pos[q] < pos[x]
        <5>1. x # q BY <2>4, <3>2
        <5>2. pos[x] # pos[q] BY <1>2, <2>3, <5>1
        <5>3. ~(pos[x] < pos[q]) \/ Key[x] <= Key[q] BY <1>4, <2>3
        <5>4. QED BY <1>2, <2>3, <2>6, <3>2, <5>2, <5>3
      <4>2. c # Nil BY <1>2, <1>3, <2>3, <3>2, <4>1
      <4>3. edge["right"][c] = edge["right"][q] /\ edge["left"][c] = pos[q]
        BY <2>3, <4>2, ChildFacts DEF Sides, Opposite
      <4>4. QED BY <3>2, <4>1, <4>2, <4>3
    <3>3. CASE c = Nil BY <1>1, <2>3, <3>1, <3>2, <3>3
    <3>4. CASE c # Nil
      <4>1. c \in A BY <2>3, <3>4, ChildFacts DEF Sides
      <4>2. c \notin B BY <2>2 DEF Sides
      <4>3. Goal(c, f[c]) BY <4>1, <4>2
      <4> HIDE DEF c, Spans
      <4>4. QED BY <2>3, <3>1, <3>2, <4>3
    <3>5. QED BY <3>3, <3>4
  <2>7. QED BY <1>2, <2>3, <2>4, <2>5, <2>6
<1>6. CASE A = {}
  <2>1. t.root_ = Nil BY <1>6 DEF Shape, Top
  <2>2. QED BY <1>1, <1>6, <2>1
<1>7. CASE A # {}
  <2>1. t.root_ \in A /\ edge["left"][t.root_] = 0 /\ edge["right"][t.root_] = K + 1
    BY <1>7 DEF Shape, Top
  <2>2. Goal(t.root_, r) BY <1>1, <1>5, <2>1
  <2>3. \A x \in A : Spans(t.root_, x) BY <1>2, <2>1
  <2> HIDE DEF Spans
  <2>4. QED BY <1>2, <2>2, <2>3
<1>8. QED BY <1>6, <1>7

------------------------------------------------------------------------------
(* Counting black nodes *)

\* With a black height for every node there is one number of black nodes on all ways.
LEMMA BlacksFacts ==
    ASSUME NEW t, NEW A, NEW K, NEW pos, NEW edge, Shape(t, A, K, pos, edge), Tidy(t, A),
           NEW h, Even(t, A, h, Nil, Nil)
    PROVE  \E v : BlacksOnTheWay(t) = {v}
<1> DEFINE D(m) == IF IsRed(t, m) THEN 0 ELSE 1
           H(m) == IF m = Nil THEN 0 ELSE IF m \in A THEN h[m] ELSE 1
           Step(f, m) == IF m = Nil THEN {0}
                         ELSE {b + (IF IsRed(t, m) THEN 0 ELSE 1) :
                                  b \in UNION {f[t.child_[s][m]] : s \in Sides}}
           w == [m \in NodesOrNil |-> {H(m)}]
<1>1. /\ A \subseteq Nodes /\ t \in Trees /\ Nil \notin Nodes /\ Nil \notin A
      /\ h \in [Nodes -> Nat]
      /\ \A m \in NodesOrNil : m = Nil \/ m \in Nodes
      /\ \A m \in Nodes : m \in NodesOrNil /\ m # Nil /\ t.color_[m] \in {"red", "black"}
      /\ Nil \in NodesOrNil /\ t.root_ \in NodesOrNil
      /\ \A m \in Nodes, d \in Sides : t.child_[d][m] \in NodesOrNil
  BY TreeAssumption DEF Shape, Even, NodesOrNil, Trees, Sides, Colors
<1>2. ASSUME NEW m \in Nodes, NEW s \in Sides
      PROVE  /\ t.child_[s][m] \in NodesOrNil
             /\ H(t.child_[s][m]) \in Int /\ H(m) = H(t.child_[s][m]) + D(m)
             /\ H(t.child_[s][m]) = H(m) - D(m)
  <2> DEFINE c == t.child_[s][m]
  <2>1. CASE m \in A
    <3>1. c # Nil => c \in A BY <2>1, ChildFacts
    <3>2. h[m] = (IF c = Nil THEN 0 ELSE h[c]) + (IF t.color_[m] = "red" THEN 0 ELSE 1)
      BY <1>1, <2>1 DEF Even
    <3>3. H(c) = (IF c = Nil THEN 0 ELSE h[c]) BY <3>1
    <3>4. D(m) = (IF t.color_[m] = "red" THEN 0 ELSE 1) BY <1>1 DEF IsRed
    <3>5. H(m) = h[m] BY <1>1, <2>1
    <3>6. c \in NodesOrNil BY <1>1
    <3>7. (IF c = Nil THEN 0 ELSE h[c]) \in Int BY <1>1, <3>6
    <3> HIDE DEF H, D, c
    <3>8. H(c) \in Int /\ H(m) = H(c) + D(m) /\ H(c) = H(m) - D(m)
      <4>1. D(m) \in Int BY <3>4
      <4>2. QED BY <3>2, <3>3, <3>4, <3>5, <3>7, <4>1
    <3>9. QED BY <3>6, <3>8 DEF c
  <2>2. CASE m \notin A
    <3>1. c = Nil /\ t.color_[m] = "black" BY <2>2 DEF Tidy
    <3>2. QED BY <1>1, <2>2, <3>1 DEF IsRed
  <2>3. QED BY <2>1, <2>2
<1>3. \A m \in NodesOrNil : \E v : w[m] = {v} OBVIOUS
<1>4. ASSUME NEW f, NEW m \in Nodes, NEW v \in Int,
             \A s \in Sides : f[t.child_[s][m]] = {v}
      PROVE  Step(f, m) = {v + D(m)}
  <2>1. {f[t.child_[s][m]] : s \in Sides} = {{v}} BY <1>4 DEF Sides
  <2>2. UNION {f[t.child_[s][m]] : s \in Sides} = {v} BY <2>1
  <2>3. Step(f, m) = {b + D(m) : b \in {v}} BY <1>1, <2>2
  <2> HIDE DEF D, Step
  <2>4. QED BY <2>3
<1>5. ASSUME NEW m \in NodesOrNil PROVE w[m] = Step(w, m)
  <2>1. CASE m = Nil BY <1>1, <2>1
  <2>2. CASE m # Nil
    <3>1. m \in Nodes BY <1>1, <2>2
    <3> DEFINE v == H(t.child_["left"][m])
    <3>2. v \in Int /\ H(m) = v + D(m) /\ v = H(m) - D(m) BY <1>2, <3>1 DEF Sides
    <3>3. ASSUME NEW s \in Sides PROVE H(t.child_[s][m]) = v
      <4>1. H(t.child_[s][m]) = H(m) - D(m) BY <1>2, <3>1
      <4> HIDE DEF H, D, v
      <4>2. QED BY <3>2, <4>1
    <3>4. \A s \in Sides : w[t.child_[s][m]] = {v}
      <4>1. \A s \in Sides : t.child_[s][m] \in NodesOrNil BY <1>1, <3>1
      <4> HIDE DEF H, v
      <4>2. QED BY <3>3, <4>1
    <3>5. w[m] = {H(m)} OBVIOUS
    <3> HIDE DEF w, Step, H, D, v
    <3>6. v \in Int /\ H(m) = v + D(m) BY <3>2
    <3>7. Step(w, m) = {v + D(m)} BY <1>4, <3>1, <3>4, <3>6
    <3>8. QED BY <3>5, <3>6, <3>7
  <2>3. QED BY <2>1, <2>2
<1>6. w = [m \in NodesOrNil |-> Step(w, m)]
  <2>1. w = [m \in NodesOrNil |-> w[m]] OBVIOUS
  <2> HIDE DEF w, Step
  <2>2. QED BY <1>5, <2>1
<1>7. \E f : f = [m \in NodesOrNil |-> Step(f, m)]
  <2> HIDE DEF w, Step
  <2>1. QED BY <1>6
<1>8. PICK f : f = [m \in NodesOrNil |-> Step(f, m)] /\ BlacksOnTheWay(t) = f[t.root_]
  BY <1>7 DEF BlacksOnTheWay, NodesOrNil
<1>9. \A m \in NodesOrNil : f[m] = Step(f, m)
  <2> HIDE DEF Step
  <2>1. QED BY <1>8
<1>10. f[Nil] = {H(Nil)} BY <1>1, <1>9
<1> DEFINE B == {q \in A : f[q] # {H(q)}}
<1>11. B = {}
  <2>1. SUFFICES ASSUME B # {} PROVE FALSE OBVIOUS
  <2>2. PICK q \in B : \A d \in Sides : t.child_[d][q] \notin B
    <3>1. B \in SUBSET A OBVIOUS
    <3> HIDE DEF B
    <3>2. QED BY <2>1, <3>1, Lowest
  <2>3. q \in A /\ q \in Nodes /\ f[q] # {H(q)} BY <1>1
  <2>4. ASSUME NEW s \in Sides PROVE f[t.child_[s][q]] = {H(t.child_[s][q])}
    <3>1. t.child_[s][q] = Nil \/ t.child_[s][q] \in A BY <2>3, ChildFacts
    <3> HIDE DEF H
    <3>2. QED BY <1>10, <2>2, <3>1
  <2> DEFINE v == H(t.child_["left"][q])
  <2>5. v \in Int /\ H(q) = v + D(q) /\ v = H(q) - D(q) BY <1>2, <2>3 DEF Sides
  <2>6. ASSUME NEW s \in Sides PROVE H(t.child_[s][q]) = v
    <3>1. H(t.child_[s][q]) = H(q) - D(q) BY <1>2, <2>3
    <3> HIDE DEF H, D, v
    <3>2. QED BY <2>5, <3>1
  <2> HIDE DEF H, D, v, Step
  <2>7. \A s \in Sides : f[t.child_[s][q]] = {v} BY <2>4, <2>6
  <2>8. f[q] = Step(f, q) BY <1>1, <1>9, <2>3
  <2>9. v \in Int BY <2>5
  <2>11. Step(f, q) = {v + D(q)} BY <1>4, <2>3, <2>7, <2>9
  <2>12. QED BY <2>3, <2>5, <2>8, <2>11
<1>12. t.root_ = Nil \/ t.root_ \in A
  BY DEF Shape, Top
<1> HIDE DEF H
<1>13. QED BY <1>8, <1>10, <1>11, <1>12

------------------------------------------------------------------------------
(* Sequences *)

PutBehind(s, i, n) == SubSeq(s, 1, i) \o <<n>> \o SubSeq(s, i + 1, Len(s))

\* The sequence r is s with an element put in behind the first i.
WithPutIn(r, s, i, n) ==
    /\ Len(r) = Len(s) + 1
    /\ \A j \in 1..Len(s) + 1 :
            r[j] = IF j <= i THEN s[j] ELSE IF j = i + 1 THEN n ELSE s[j - 1]

\* It is what the two parts of s make with the element between them.
LEMMA PutIn ==
    ASSUME NEW A, NEW s \in Seq(A), NEW i \in 0..Len(s), NEW n \in A,
           NEW r, r = PutBehind(s, i, n)
    PROVE  r \in Seq(A) /\ WithPutIn(r, s, i, n)
<1> DEFINE a == SubSeq(s, 1, i)
           b == SubSeq(s, i + 1, Len(s))
           an == a \o <<n>>
<1>1. Len(s) \in Nat /\ i \in Nat /\ i <= Len(s) /\ \A j \in 1..Len(s) : s[j] \in A
  OBVIOUS
<1>2. a \in Seq(A) /\ Len(a) = i /\ \A j \in 1..i : a[j] = s[j]
  <2>1. \A j \in 1..i : s[j] \in A BY <1>1
  <2>2. /\ a \in Seq(A) /\ Len(a) = IF 1 <= i THEN i - 1 + 1 ELSE 0
        /\ \A j \in 1..i - 1 + 1 : a[j] = s[1 + j - 1]
    BY <1>1, <2>1, SubSeqProperties
  <2> HIDE DEF a
  <2>3. i - 1 + 1 = i /\ \A j \in 1..i : 1 + j - 1 = j BY <1>1
  <2>4. QED BY <1>1, <2>2, <2>3
<1>3. b \in Seq(A) /\ Len(b) = Len(s) - i /\ \A j \in 1..Len(s) - i : b[j] = s[i + j]
  <2>1. \A j \in (i + 1)..Len(s) : s[j] \in A BY <1>1
  <2>2. /\ b \in Seq(A) /\ Len(b) = IF i + 1 <= Len(s) THEN Len(s) - (i + 1) + 1 ELSE 0
        /\ \A j \in 1..Len(s) - (i + 1) + 1 : b[j] = s[(i + 1) + j - 1]
    BY <1>1, <2>1, SubSeqProperties
  <2> HIDE DEF b
  <2>3. Len(b) = Len(s) - i BY <1>1, <2>2
  <2>4. ASSUME NEW j \in 1..Len(s) - i PROVE b[j] = s[i + j]
    <3>1. j \in 1..Len(s) - (i + 1) + 1 /\ (i + 1) + j - 1 = i + j BY <1>1
    <3>2. b[j] = s[(i + 1) + j - 1] BY <2>2, <3>1
    <3>3. QED BY <3>1, <3>2
  <2>5. QED BY <2>2, <2>3, <2>4
<1>4. an \in Seq(A) /\ Len(an) = i + 1 /\ an[i + 1] = n /\ \A j \in 1..i : an[j] = s[j]
  <2>1. <<n>> \in Seq(A) /\ Len(<<n>>) = 1 /\ <<n>>[1] = n OBVIOUS
  <2>2. /\ an \in Seq(A) /\ Len(an) = Len(a) + Len(<<n>>)
        /\ \A j \in 1..Len(a) + Len(<<n>>) : an[j] = IF j <= Len(a) THEN a[j]
                                                     ELSE <<n>>[j - Len(a)]
    BY <1>2, <2>1, ConcatProperties
  <2> HIDE DEF a, an
  <2>3. (i + 1) - i = 1 /\ ~(i + 1 <= i) /\ i + 1 \in 1..i + 1 BY <1>1
  <2>4. an[i + 1] = n BY <1>2, <2>1, <2>2, <2>3
  <2>5. \A j \in 1..i : j \in 1..i + 1 /\ j <= i BY <1>1
  <2>6. QED BY <1>2, <2>1, <2>2, <2>4, <2>5
<1>5. r = an \o b BY DEF PutBehind
<1> HIDE DEF an, b, a
<1>6. /\ r \in Seq(A) /\ Len(r) = Len(an) + Len(b)
      /\ \A j \in 1..Len(an) + Len(b) : r[j] = IF j <= Len(an) THEN an[j]
                                               ELSE b[j - Len(an)]
  <2>1. an \in Seq(A) /\ b \in Seq(A) BY <1>3, <1>4
  <2>2. /\ an \o b \in Seq(A) /\ Len(an \o b) = Len(an) + Len(b)
        /\ \A j \in 1..Len(an) + Len(b) : (an \o b)[j] = IF j <= Len(an) THEN an[j]
                                                        ELSE b[j - Len(an)]
    BY <2>1, ConcatProperties
  <2>3. QED BY <1>5, <2>2
<1>7. Len(an) + Len(b) = Len(s) + 1 BY <1>1, <1>3, <1>4
<1>8. ASSUME NEW j \in 1..Len(s) + 1
      PROVE  r[j] = IF j <= i THEN s[j] ELSE IF j = i + 1 THEN n ELSE s[j - 1]
  <2>1. r[j] = IF j <= i + 1 THEN an[j] ELSE b[j - (i + 1)] BY <1>4, <1>6, <1>7
  <2>2. CASE j <= i
    <3>1. j \in 1..i /\ j <= i + 1 BY <1>1, <2>2
    <3>2. QED BY <1>4, <2>1, <2>2, <3>1
  <2>3. CASE j = i + 1
    <3>1. j <= i + 1 /\ ~(j <= i) BY <1>1, <2>3
    <3>2. r[j] = an[j] BY <2>1, <3>1
    <3>3. r[j] = n BY <1>4, <2>3, <3>2
    <3>4. QED BY <2>3, <3>1, <3>3
  <2>4. CASE j > i + 1
    <3>1. /\ j - (i + 1) \in 1..Len(s) - i /\ i + (j - (i + 1)) = j - 1
          /\ ~(j <= i + 1) /\ ~(j <= i) /\ j # i + 1
      BY <1>1, <2>4
    <3>2. b[j - (i + 1)] = s[i + (j - (i + 1))] BY <1>3, <3>1
    <3>3. QED BY <2>1, <3>1, <3>2
  <2>5. j <= i \/ j = i + 1 \/ j > i + 1 BY <1>1
  <2>6. QED BY <2>2, <2>3, <2>4, <2>5
<1>9. QED BY <1>6, <1>7, <1>8 DEF WithPutIn

\* A sequence without the elements behind i up to j.
LEMMA CutFrom ==
    ASSUME NEW A, NEW s \in Seq(A), NEW i \in 0..Len(s), NEW j \in i..Len(s),
           NEW r, r = SubSeq(s, 1, i) \o SubSeq(s, j + 1, Len(s))
    PROVE  /\ r \in Seq(A) /\ Len(r) = Len(s) - (j - i)
           /\ \A m \in 1..Len(s) - (j - i) : r[m] = IF m <= i THEN s[m] ELSE s[m + (j - i)]
<1> DEFINE a == SubSeq(s, 1, i)
           b == SubSeq(s, j + 1, Len(s))
<1>1. /\ Len(s) \in Nat /\ i \in Nat /\ j \in Nat /\ i <= j /\ j <= Len(s)
      /\ \A m \in 1..Len(s) : s[m] \in A
  OBVIOUS
<1>2. a \in Seq(A) /\ Len(a) = i /\ \A m \in 1..i : a[m] = s[m]
  <2>1. \A m \in 1..i : s[m] \in A BY <1>1
  <2>2. /\ a \in Seq(A) /\ Len(a) = IF 1 <= i THEN i - 1 + 1 ELSE 0
        /\ \A m \in 1..i - 1 + 1 : a[m] = s[1 + m - 1]
    BY <1>1, <2>1, SubSeqProperties
  <2> HIDE DEF a
  <2>3. i - 1 + 1 = i /\ \A m \in 1..i : 1 + m - 1 = m BY <1>1
  <2>4. QED BY <1>1, <2>2, <2>3
<1>3. b \in Seq(A) /\ Len(b) = Len(s) - j /\ \A m \in 1..Len(s) - j : b[m] = s[j + m]
  <2>1. \A m \in (j + 1)..Len(s) : s[m] \in A BY <1>1
  <2>2. /\ b \in Seq(A) /\ Len(b) = IF j + 1 <= Len(s) THEN Len(s) - (j + 1) + 1 ELSE 0
        /\ \A m \in 1..Len(s) - (j + 1) + 1 : b[m] = s[(j + 1) + m - 1]
    BY <1>1, <2>1, SubSeqProperties
  <2> HIDE DEF b
  <2>3. Len(b) = Len(s) - j BY <1>1, <2>2
  <2>4. ASSUME NEW m \in 1..Len(s) - j PROVE b[m] = s[j + m]
    <3>1. m \in 1..Len(s) - (j + 1) + 1 /\ (j + 1) + m - 1 = j + m BY <1>1
    <3>2. b[m] = s[(j + 1) + m - 1] BY <2>2, <3>1
    <3>3. QED BY <3>1, <3>2
  <2>5. QED BY <2>2, <2>3, <2>4
<1>4. r = a \o b OBVIOUS
<1> HIDE DEF a, b
<1>5. /\ r \in Seq(A) /\ Len(r) = Len(a) + Len(b)
      /\ \A m \in 1..Len(a) + Len(b) : r[m] = IF m <= Len(a) THEN a[m] ELSE b[m - Len(a)]
  <2>1. a \in Seq(A) /\ b \in Seq(A) BY <1>2, <1>3
  <2>2. /\ a \o b \in Seq(A) /\ Len(a \o b) = Len(a) + Len(b)
        /\ \A m \in 1..Len(a) + Len(b) : (a \o b)[m] = IF m <= Len(a) THEN a[m]
                                                      ELSE b[m - Len(a)]
    BY <2>1, ConcatProperties
  <2>3. QED BY <1>4, <2>2
<1>6. Len(a) + Len(b) = Len(s) - (j - i) BY <1>1, <1>2, <1>3
<1>7. ASSUME NEW m \in 1..Len(s) - (j - i)
      PROVE  r[m] = IF m <= i THEN s[m] ELSE s[m + (j - i)]
  <2>1. r[m] = IF m <= i THEN a[m] ELSE b[m - i] BY <1>2, <1>5, <1>6
  <2>2. CASE m <= i
    <3>1. m \in 1..i BY <1>1, <2>2
    <3>2. QED BY <1>2, <2>1, <2>2, <3>1
  <2>3. CASE m > i
    <3>1. m - i \in 1..Len(s) - j /\ j + (m - i) = m + (j - i) /\ ~(m <= i) BY <1>1, <2>3
    <3>2. b[m - i] = s[j + (m - i)] BY <1>3, <3>1
    <3>3. QED BY <2>1, <3>1, <3>2
  <2>4. m <= i \/ m > i BY <1>1
  <2>5. QED BY <2>2, <2>3, <2>4
<1>8. QED BY <1>5, <1>6, <1>7

\* A sequence of elements of B.
LEMMA Narrowed ==
    ASSUME NEW A, NEW s \in Seq(A), NEW B, \A i \in 1..Len(s) : s[i] \in B
    PROVE  s \in Seq(B)
<1>1. SubSeq(s, 1, Len(s)) \in Seq(B)
  <2>1. 1 \in Int /\ Len(s) \in Int OBVIOUS
  <2>2. QED BY <2>1, SubSeqProperties
<1>2. QED BY <1>1, SubSeqFull

------------------------------------------------------------------------------
(* Orders *)

\* Each node has its place in the sequence.
LEMMA InPlace ==
    ASSUME NEW t, NEW K, NEW pos, Whole(t, K, pos), NEW s, Enumerates(s, t.alive, K, pos)
    PROVE  /\ s \in Seq(t.alive) /\ s \in Seq(Nodes) /\ Len(s) = K
           /\ DOMAIN s = 1..K /\ \A i \in 1..K : s[i] \in t.alive /\ pos[s[i]] = i
           /\ \A x \in t.alive : pos[x] \in 1..K /\ s[pos[x]] = x
<1> DEFINE A == t.alive
<1>1. /\ A \subseteq Nodes /\ K \in Nat
      /\ \A m \in A : pos[m] \in Int /\ 1 <= pos[m] /\ pos[m] <= K
      /\ \A m, n \in A : pos[m] = pos[n] => m = n
  BY WholeFacts
<1>2. s \in Seq(A) /\ Len(s) = K /\ \A i \in 1..K : pos[s[i]] = i BY DEF Enumerates
<1> HIDE DEF A
<1>3. DOMAIN s = 1..K /\ \A i \in 1..K : s[i] \in A BY <1>1, <1>2
<1>4. s \in Seq(Nodes) BY <1>1, <1>2, <1>3, Narrowed
<1>5. ASSUME NEW x \in A PROVE pos[x] \in 1..K /\ s[pos[x]] = x
  <2>1. pos[x] \in 1..K BY <1>1
  <2>2. s[pos[x]] \in A /\ pos[s[pos[x]]] = pos[x] BY <1>2, <1>3, <2>1
  <2>3. QED BY <1>1, <2>1, <2>2
<1>6. QED BY <1>2, <1>3, <1>4, <1>5 DEF A

\* There is one such sequence.
LEMMA OneOrder ==
    ASSUME NEW t, NEW K, NEW pos, Whole(t, K, pos),
           NEW s, Enumerates(s, t.alive, K, pos), NEW o, Enumerates(o, t.alive, K, pos)
    PROVE  s = o
<1>1. /\ s \in Seq(t.alive) /\ o \in Seq(t.alive) /\ Len(s) = K /\ Len(o) = K
      /\ \A i \in 1..K : s[i] \in t.alive /\ o[i] \in t.alive /\ pos[s[i]] = i /\ pos[o[i]] = i
  BY InPlace
<1>2. \A m, n \in t.alive : pos[m] = pos[n] => m = n BY WholeFacts
<1>3. \A i \in 1..K : s[i] = o[i] BY <1>1, <1>2
<1>4. QED BY <1>1, <1>3

------------------------------------------------------------------------------
(* The invariant of the specification *)

\* The tree is whole: its nodes have positions that agree with their keys and with
\* the links, and black heights that agree with the colours.
Sound == \E K, pos : Whole(tree, K, pos)

Inv == Sound /\ order = Visited(tree)

\* A tree filled at the start is whole.
LEMMA InitSound ==
    ASSUME Init
    PROVE  Inv
<1>1. PICK load \in Loads : tree = Filled(load) BY DEF Init
<1>2. Sound BY <1>1, FilledKeeps DEF Sound
<1>3. QED BY <1>2 DEF Init, Inv

\* Every operation leaves a whole tree.
LEMMA NextSound ==
    ASSUME Inv, [Next]_vars
    PROVE  Inv'
<1>1. PICK K, pos : Whole(tree, K, pos) BY DEF Inv, Sound
<1>2. ASSUME NEW n \in Nodes, Insert(n) PROVE Inv'
  <2>1. n \in Nodes \ tree.alive /\ tree' = Inserted(tree, n) /\ order' = Visited(tree')
    BY <1>2 DEF Insert
  <2>2. PICK q \in 1..(K + 1) : Whole(Inserted(tree, n), K + 1, PosWith(pos, n, q))
    BY <1>1, <2>1, InsertKeeps
  <2>3. Whole(tree', K + 1, PosWith(pos, n, q)) BY <2>1, <2>2
  <2>4. QED BY <2>1, <2>3 DEF Inv, Sound
<1>3. ASSUME NEW n \in Nodes, Erase(n) PROVE Inv'
  <2>1. n \in tree.alive /\ tree' = Erased(tree, n) /\ order' = Visited(tree')
    BY <1>3 DEF Erase
  <2>2. PICK P : Whole(Erased(tree, n), K - 1, P) BY <1>1, <2>1, ErasedKeeps
  <2>3. Whole(tree', K - 1, P) BY <2>1, <2>2
  <2>4. QED BY <2>1, <2>3 DEF Inv, Sound
<1>4. ASSUME NEW k \in ErasedKeys, EraseKey(k) PROVE Inv'
  <2>1. k \in Int /\ tree' = ErasedKey(tree, k) /\ order' = Visited(tree')
    BY <1>4, TreeAssumption DEF EraseKey
  <2>2. KeyGone(tree, K, pos, k, tree') BY <1>1, <2>1, ErasedKeyKeeps
  <2>3. PICK i \in 1..(K + 1), g \in Nat : \E P : Whole(tree', K - g, P)
    BY <2>2 DEF KeyGone
  <2>4. PICK P : Whole(tree', K - g, P) BY <2>3
  <2>5. QED BY <2>1, <2>4 DEF Inv, Sound
<1>5. CASE UNCHANGED vars
  <2>1. tree' = tree /\ order' = order BY <1>5 DEF vars
  <2>2. Whole(tree', K, pos) BY <1>1, <2>1
  <2>3. QED BY <2>1, <2>2 DEF Inv, Sound
<1>6. QED BY <1>2, <1>3, <1>4, <1>5 DEF Next

\* The tree stays whole.
LEMMA StaysSound == Spec => []Inv
<1>1. Init => Inv BY InitSound
<1>2. Inv /\ [Next]_vars => Inv' BY NextSound
<1>3. QED BY <1>1, <1>2, PTL DEF Spec

------------------------------------------------------------------------------
(* What the invariant says of the tree *)

\* Links of a whole tree.
LEMMA WholeIsLinked ==
    ASSUME Inv
    PROVE  WellLinked
<1>1. PICK K, pos : Whole(tree, K, pos) BY DEF Inv, Sound
<1>2. PICK e : Shape(tree, tree.alive, K, pos, e) BY <1>1 DEF Whole, Balance
<1> DEFINE A == tree.alive
<1>3. /\ Tidy(tree, A) /\ Ends(tree, A, K, pos) /\ tree.size_ = Cardinality(A)
  BY <1>1 DEF Whole
<1>4. /\ A \subseteq Nodes /\ K \in Nat /\ Nil \notin A
      /\ \A m, n \in A : pos[m] = pos[n] => m = n
  BY <1>1, WholeFacts
<1>5. ASSUME A = {} PROVE {tree.root_, tree.min_, tree.max_} = {Nil}
  <2>1. tree.root_ = Nil BY <1>2, <1>5 DEF Shape, Top
  <2>2. tree.min_ = Nil /\ tree.max_ = Nil BY <1>3, <1>5 DEF Ends
  <2>3. QED BY <2>1, <2>2
<1>6. ASSUME A # {}
      PROVE  /\ {tree.root_, tree.min_, tree.max_} \subseteq A
             /\ tree.parent_[tree.root_] = Nil
             /\ tree.min_ = Outermost(tree, tree.root_, "left")
             /\ tree.max_ = Outermost(tree, tree.root_, "right")
  <2>1. /\ tree.root_ \in A /\ tree.parent_[tree.root_] = Nil
        /\ e["left"][tree.root_] = 0 /\ e["right"][tree.root_] = K + 1
    BY <1>2, <1>6 DEF Shape, Top
  <2>2. tree.min_ \in A /\ tree.max_ \in A /\ pos[tree.min_] = 1 /\ pos[tree.max_] = K
    BY <1>3, <1>6 DEF Ends
  <2>3. "left" \in Sides /\ "right" \in Sides BY DEF Sides
  <2>4. \A n \in A : pos[n] \in Int BY <1>1, WholeFacts
  <2> DEFINE a == Outermost(tree, tree.root_, "left")
             b == Outermost(tree, tree.root_, "right")
  <2>5. a \in A /\ tree.child_["left"][a] = Nil /\ e["left"][a] = 0
    BY <1>2, <1>3, <2>1, <2>3, OutermostFacts
  <2>6. b \in A /\ tree.child_["right"][b] = Nil /\ e["right"][b] = K + 1
    BY <1>2, <1>3, <2>1, <2>3, OutermostFacts
  <2> HIDE DEF a, b, A
  <2>7. \A n \in A : /\ tree.child_["left"][n] = Nil => e["left"][n] = pos[n] - 1
                     /\ tree.child_["right"][n] = Nil => e["right"][n] = pos[n] + 1
    BY <1>2 DEF Shape, Gapless, A
  <2>8. pos[a] = 1 BY <2>4, <2>5, <2>7
  <2>9. pos[b] = K BY <1>4, <2>4, <2>6, <2>7
  <2>10. a = tree.min_ /\ b = tree.max_ BY <1>4, <2>2, <2>5, <2>6, <2>8, <2>9
  <2>11. QED BY <2>1, <2>2, <2>10 DEF a, b
<1>7. ASSUME NEW n \in A, NEW s \in Sides, tree.child_[s][n] # Nil
      PROVE  tree.child_[s][n] \in A /\ tree.parent_[tree.child_[s][n]] = n
  BY <1>2, <1>7, ChildFacts
<1>8. ASSUME NEW n \in A, n # tree.root_
      PROVE  n \in {tree.child_[s][tree.parent_[n]] : s \in Sides}
  <2>1. \E s \in Sides : tree.child_[s][tree.parent_[n]] = n BY <1>2, <1>8 DEF Shape, Upwards
  <2>2. QED BY <2>1
<1> HIDE DEF A
<1>9. QED BY <1>3, <1>5, <1>6, <1>7, <1>8 DEF WellLinked, A

\* Colours of a whole tree.
LEMMA WholeIsBalanced ==
    ASSUME Inv
    PROVE  Balanced
<1>1. PICK K, pos : Whole(tree, K, pos) BY DEF Inv, Sound
<1> DEFINE A == tree.alive
<1>2. PICK e, h : /\ Shape(tree, A, K, pos, e) /\ Even(tree, A, h, Nil, Nil)
                  /\ NoTwoRed(tree, A, Nil)
  BY <1>1 DEF Whole, Balance
<1>3. Tidy(tree, A) BY <1>1 DEF Whole
<1>4. PICK v : BlacksOnTheWay(tree) = {v} BY <1>2, <1>3, BlacksFacts
<1>5. Cardinality(BlacksOnTheWay(tree)) = 1 BY <1>4, FS_Singleton
<1>6. ASSUME NEW n \in A, IsRed(tree, n)
      PROVE  n # tree.root_ /\ \A s \in Sides : ~IsRed(tree, tree.child_[s][n])
  <2>1. tree.color_[n] = "red" BY <1>6 DEF IsRed
  <2>2. n # tree.root_ BY <1>2, <2>1 DEF NoTwoRed
  <2>3. ASSUME NEW s \in Sides PROVE ~IsRed(tree, tree.child_[s][n])
    <3>1. tree.child_[s][n] = Nil \/ tree.color_[tree.child_[s][n]] = "black"
      BY <1>2, <2>1 DEF NoTwoRed
    <3>2. QED BY <3>1 DEF IsRed
  <2>4. QED BY <2>2, <2>3
<1>7. QED BY <1>5, <1>6 DEF Balanced

\* What comes first among the nodes that are not passed comes first in the iteration.
LEMMA FirstInOrder ==
    ASSUME NEW K, NEW pos, Whole(tree, K, pos), Enumerates(order, tree.alive, K, pos),
           NEW k \in Int, NEW past \in BOOLEAN, NEW r, First(tree.alive, pos, k, past, r),
           NEW S, \A x \in tree.alive : x \in S <=> ~Passed(k, past, x)
    PROVE  r = FirstOf(S)
<1> DEFINE A == tree.alive
<1>1. /\ DOMAIN order = 1..K /\ \A i \in 1..K : order[i] \in A /\ pos[order[i]] = i
      /\ \A x \in A : pos[x] \in 1..K /\ order[pos[x]] = x
  BY InPlace
<1>2. Nil \notin A /\ K \in Nat BY WholeFacts
<1>3. CASE r = Nil
  <2>1. \A x \in A : x \notin S BY <1>3 DEF First
  <2>2. \A i \in DOMAIN order : order[i] \notin S BY <1>1, <2>1
  <2>3. QED BY <1>3, <2>2 DEF FirstOf
<1>4. CASE r # Nil
  <2>1. r \in A /\ r \in S /\ \A x \in A : pos[x] < pos[r] => x \notin S BY <1>4 DEF First
  <2> DEFINE P(i) == order[i] \in S /\ \A j \in 1..i - 1 : order[j] \notin S
             c == CHOOSE i \in DOMAIN order : P(i)
  <2>2. pos[r] \in 1..K /\ order[pos[r]] = r BY <1>1, <2>1
  <2> HIDE DEF A
  <2>3. P(pos[r])
    <3>1. ASSUME NEW j \in 1..pos[r] - 1 PROVE order[j] \notin S
      <4>1. j \in 1..K /\ j < pos[r] BY <1>2, <2>2
      <4>2. order[j] \in A /\ pos[order[j]] = j BY <1>1, <4>1
      <4>3. QED BY <2>1, <4>1, <4>2
    <3>2. QED BY <2>1, <2>2, <3>1
  <2>4. c \in 1..K /\ P(c)
    <3>1. \E i \in DOMAIN order : P(i) BY <1>1, <2>2, <2>3
    <3> HIDE DEF P
    <3>2. QED BY <1>1, <3>1
  <2> HIDE DEF c
  <2>5. c = pos[r]
    <3>1. ~(c < pos[r])
      <4>1. order[c] \in A /\ pos[order[c]] = c BY <1>1, <2>4
      <4>2. QED BY <2>1, <2>4, <4>1
    <3>2. ~(c > pos[r])
      <4>1. SUFFICES ASSUME c > pos[r] PROVE FALSE OBVIOUS
      <4>2. pos[r] \in 1..c - 1 BY <2>2, <2>4, <4>1
      <4>3. QED BY <2>1, <2>2, <2>4, <4>2
    <3>3. QED BY <2>2, <2>4, <3>1, <3>2
  <2>6. ~\A i \in DOMAIN order : order[i] \notin S BY <1>1, <2>1, <2>2
  <2>7. FirstOf(S) = order[c] BY <2>6 DEF FirstOf, c
  <2>8. QED BY <2>2, <2>5, <2>7
<1>5. QED BY <1>3, <1>4

\* Bound finds the first node in the order of iteration that is not passed.
LEMMA BoundInOrder ==
    ASSUME Inv, NEW k \in Int, NEW past \in BOOLEAN,
           NEW S, \A x \in tree.alive : x \in S <=> ~Passed(k, past, x)
    PROVE  Bound(tree, k, past) = FirstOf(S)
<1>1. PICK K, pos : Whole(tree, K, pos) BY DEF Inv, Sound
<1>2. PICK e : Shape(tree, tree.alive, K, pos, e) BY <1>1 DEF Whole, Balance
<1>3. Tidy(tree, tree.alive) /\ Sorted(tree.alive, pos) BY <1>1 DEF Whole
<1>4. Enumerates(order, tree.alive, K, pos) BY <1>1, VisitedFacts DEF Inv
<1>5. First(tree.alive, pos, k, past, Bound(tree, k, past)) BY <1>2, <1>3, BoundFacts
<1>6. QED BY <1>1, <1>4, <1>5, FirstInOrder

\* Looking up keys in a whole tree.
LEMMA WholeFindsKeys ==
    ASSUME Inv
    PROVE  LookupsRight
<1>1. PICK K, pos : Whole(tree, K, pos) BY DEF Inv, Sound
<1> DEFINE A == tree.alive
<1>2. PICK e : Shape(tree, A, K, pos, e) BY <1>1 DEF Whole, Balance
<1>3. Tidy(tree, A) /\ Sorted(A, pos) BY <1>1 DEF Whole
<1>5. A \subseteq Nodes BY <1>1, WholeFacts
<1>6. ASSUME NEW k \in Keys
      PROVE  /\ LowerBoundNode(tree, k) = FirstOf({n \in Nodes : Key[n] >= k})
             /\ UpperBoundNode(tree, k) = FirstOf({n \in Nodes : Key[n] > k})
             /\ IF \E n \in A : Key[n] = k
                THEN Find(tree, k) \in A /\ Key[Find(tree, k)] = k
                ELSE Find(tree, k) = Nil
  <2>1. k \in Int /\ \A n \in Nodes : Key[n] \in Int BY TreeAssumption DEF Keys
  <2>2. LowerBoundNode(tree, k) = FirstOf({n \in Nodes : Key[n] >= k})
    <3> DEFINE S == {n \in Nodes : Key[n] >= k}
    <3>1. PICK past \in BOOLEAN : past = FALSE OBVIOUS
    <3>2. \A x \in A : x \in S <=> ~Passed(k, past, x) BY <1>5, <2>1, <3>1 DEF Passed
    <3> HIDE DEF S
    <3>3. Bound(tree, k, past) = FirstOf(S) BY <2>1, <3>2, BoundInOrder
    <3>4. Bound(tree, k, FALSE) = FirstOf(S) BY <3>1, <3>3
    <3>5. QED BY <3>4 DEF LowerBoundNode, S
  <2>3. UpperBoundNode(tree, k) = FirstOf({n \in Nodes : Key[n] > k})
    <3> DEFINE S == {n \in Nodes : Key[n] > k}
    <3>1. PICK past \in BOOLEAN : past = TRUE OBVIOUS
    <3>2. \A x \in A : x \in S <=> ~Passed(k, past, x) BY <1>5, <2>1, <3>1 DEF Passed
    <3> HIDE DEF S
    <3>3. Bound(tree, k, past) = FirstOf(S) BY <2>1, <3>2, BoundInOrder
    <3>4. Bound(tree, k, TRUE) = FirstOf(S) BY <3>1, <3>3
    <3>5. QED BY <3>4 DEF UpperBoundNode, S
  <2>4. IF \E n \in A : Key[n] = k
        THEN Find(tree, k) \in A /\ Key[Find(tree, k)] = k
        ELSE Find(tree, k) = Nil
    BY <1>2, <1>3, <2>1, FindFacts
  <2>5. QED BY <2>2, <2>3, <2>4
<1>7. QED BY <1>6 DEF LookupsRight

------------------------------------------------------------------------------
(* The steps of the ordered list *)

\* The list a tree starts with.
LEMMA InitOrdered ==
    ASSUME Inv
    PROVE  Ordered!Init
<1>1. PICK K, pos : Whole(tree, K, pos) BY DEF Inv, Sound
<1>2. Enumerates(order, tree.alive, K, pos) BY <1>1, VisitedFacts DEF Inv
<1>3. /\ order \in Seq(Nodes) /\ DOMAIN order = 1..K
      /\ \A i \in 1..K : order[i] \in tree.alive /\ pos[order[i]] = i
  BY <1>1, <1>2, InPlace
<1>4. Sorted(tree.alive, pos) BY <1>1 DEF Whole
<1>5. ASSUME NEW i \in 1..K, NEW j \in 1..K, i < j
      PROVE  order[i] # order[j] /\ Key[order[i]] <= Key[order[j]]
  <2>1. order[i] \in tree.alive /\ order[j] \in tree.alive
        /\ pos[order[i]] = i /\ pos[order[j]] = j
    BY <1>3
  <2>2. i # j BY <1>5
  <2>3. QED BY <1>4, <1>5, <2>1, <2>2 DEF Sorted
<1>6. QED BY <1>3, <1>5 DEF Ordered!Init

\* What is enumerated: a sequence of the elements, each in its position.
LEMMA IsEnumeration ==
    ASSUME NEW A, NEW K \in Nat, NEW pos, NEW B, NEW s \in Seq(B), Len(s) = K,
           \A i \in 1..K : s[i] \in A /\ pos[s[i]] = i
    PROVE  Enumerates(s, A, K, pos)
<1>1. s \in Seq(A) BY Narrowed
<1>2. QED BY <1>1 DEF Enumerates

\* Insert puts the node in behind those that are not greater.
LEMMA InsertOrdered ==
    ASSUME Inv, Inv', NEW n \in Nodes, Insert(n)
    PROVE  Ordered!Insert(n)
<1>1. PICK K, pos : Whole(tree, K, pos) BY DEF Inv, Sound
<1> DEFINE A == tree.alive
<1>2. n \in Nodes \ A /\ tree' = Inserted(tree, n) /\ order' = Visited(tree')
  BY DEF Insert
<1>3. PICK q \in 1..(K + 1) :
        /\ Behind(A, pos, n, q) /\ Inserted(tree, n).alive = A \cup {n}
        /\ Whole(Inserted(tree, n), K + 1, PosWith(pos, n, q))
  BY <1>1, <1>2, InsertKeeps
<1> DEFINE P == PosWith(pos, n, q)
<1>4. tree'.alive = A \cup {n} /\ Whole(tree', K + 1, P) BY <1>2, <1>3
<1>5. Enumerates(order, A, K, pos) BY <1>1, VisitedFacts DEF Inv
<1>6. Enumerates(order', tree'.alive, K + 1, P) BY <1>2, <1>4, VisitedFacts
<1>7. /\ order \in Seq(A) /\ Len(order) = K /\ DOMAIN order = 1..K
      /\ \A i \in 1..K : order[i] \in A /\ pos[order[i]] = i
  BY <1>1, <1>5, InPlace
<1>8. A \subseteq Nodes /\ K \in Nat /\ \A x \in A : Key[x] \in Int
  BY <1>1, WholeFacts, TreeAssumption
<1>9. P[n] = q /\ \A x \in A : P[x] = IF pos[x] >= q THEN pos[x] + 1 ELSE pos[x]
  BY <1>2, <1>8 DEF PosWith, Lift
<1> DEFINE i == q - 1
           r == SubSeq(order, 1, i) \o <<n>> \o SubSeq(order, i + 1, Len(order))
<1> HIDE DEF A, P
<1>10. i \in 0..K BY <1>8
<1>11. order \in Seq(A \cup {n}) BY <1>7, Narrowed
<1>12. /\ r \in Seq(A \cup {n}) /\ Len(r) = K + 1
       /\ \A j \in 1..K + 1 :
             r[j] = IF j <= i THEN order[j] ELSE IF j = i + 1 THEN n ELSE order[j - 1]
  <2>1. i \in 0..Len(order) /\ n \in A \cup {n} BY <1>7, <1>10
  <2>4. r = PutBehind(order, i, n) BY DEF PutBehind
  <2> HIDE DEF r, i
  <2>2. r \in Seq(A \cup {n}) /\ WithPutIn(r, order, i, n) BY <1>11, <2>1, <2>4, PutIn
  <2>3. QED BY <1>7, <2>2 DEF WithPutIn
<1>13. ASSUME NEW j \in 1..K + 1 PROVE r[j] \in A \cup {n} /\ P[r[j]] = j
  <2>1. r[j] = IF j <= i THEN order[j] ELSE IF j = i + 1 THEN n ELSE order[j - 1] BY <1>12
  <2> HIDE DEF r
  <2>2. CASE j <= i
    <3>1. j \in 1..K /\ ~(j >= q) BY <1>8, <1>10, <2>2
    <3>2. QED BY <1>7, <1>9, <2>1, <2>2, <3>1
  <2>3. CASE j = i + 1
    <3>1. ~(j <= i) /\ j = q BY <1>10, <2>3
    <3>2. QED BY <1>9, <2>1, <2>3, <3>1
  <2>4. CASE j > i + 1
    <3>1. j - 1 \in 1..K /\ j - 1 >= q /\ ~(j <= i) /\ j # i + 1 /\ (j - 1) + 1 = j
      BY <1>8, <1>10, <2>4
    <3>2. r[j] = order[j - 1] /\ order[j - 1] \in A /\ pos[order[j - 1]] = j - 1
      BY <1>7, <2>1, <3>1
    <3>3. P[order[j - 1]] = (j - 1) + 1 BY <1>9, <3>1, <3>2
    <3>4. QED BY <3>1, <3>2, <3>3
  <2>5. j <= i \/ j = i + 1 \/ j > i + 1 BY <1>10
  <2>6. QED BY <2>2, <2>3, <2>4, <2>5
<1>14. order' = r
  <2>1. Enumerates(r, A \cup {n}, K + 1, P)
    <3> HIDE DEF r
    <3>1. K + 1 \in Nat BY <1>8
    <3>2. QED BY <1>12, <1>13, <3>1, IsEnumeration
  <2>2. Enumerates(r, tree'.alive, K + 1, P) BY <1>4, <2>1
  <2> HIDE DEF r
  <2>3. QED BY <1>4, <1>6, <2>2, OneOrder
<1>15. n \notin Ordered!Elems(order)
  BY <1>2, <1>7 DEF Ordered!Elems, A
<1>16. ASSUME NEW j \in 1..K PROVE j <= i <=> Key[order[j]] <= Key[n]
  <2>1. order[j] \in A /\ pos[order[j]] = j BY <1>7
  <2>2. j < q <=> Key[order[j]] <= Key[n] BY <1>3, <2>1 DEF Behind, A
  <2>3. j < q <=> j <= i BY <1>8
  <2>4. QED BY <2>2, <2>3
<1>17. \A j \in 1..i : Key[order[j]] <= Key[n]
  <2>1. \A j \in 1..i : j \in 1..K /\ j <= i BY <1>8, <1>10
  <2>2. QED BY <1>16, <2>1
<1>18. \A j \in i + 1..Len(order) : Key[n] < Key[order[j]]
  <2>1. SUFFICES ASSUME NEW j \in i + 1..K PROVE Key[n] < Key[order[j]] BY <1>7
  <2>2. j \in 1..K /\ ~(j <= i) BY <1>8, <1>10
  <2>3. Key[order[j]] \in Int /\ Key[n] \in Int BY <1>7, <1>8, <2>2, TreeAssumption
  <2>4. ~(Key[order[j]] <= Key[n]) BY <1>16, <2>2
  <2>5. QED BY <2>3, <2>4
<1>19. i \in 0..Len(order) BY <1>7, <1>10
<1>20. order' = SubSeq(order, 1, i) \o <<n>> \o SubSeq(order, i + 1, Len(order)) BY <1>14
<1> HIDE DEF i, r
<1>21. QED BY <1>15, <1>17, <1>18, <1>19, <1>20 DEF Ordered!Insert

\* The sequence that remains when the positions from i up to i + g are given up.
LEMMA Remaining ==
    ASSUME NEW K \in Nat, NEW pos, Whole(tree, K, pos), Enumerates(order, tree.alive, K, pos),
           NEW i \in 1..(K + 1), NEW g \in Nat, i + g <= K + 1,
           NEW v, NEW P, Whole(v, K - g, P),
           v.alive = {x \in tree.alive : ~(i <= pos[x] /\ pos[x] < i + g)},
           \A x \in v.alive : P[x] = Closed(i, g, pos[x])
    PROVE  Visited(v) = Ordered!Without(i - 1, i + g - 1)
<1> DEFINE A == tree.alive
           a == i - 1
           b == i + g - 1
           r == SubSeq(order, 1, a) \o SubSeq(order, b + 1, Len(order))
<1>1. /\ order \in Seq(A) /\ Len(order) = K
      /\ \A j \in 1..K : order[j] \in A /\ pos[order[j]] = j
  BY InPlace
<1>2. a \in 0..Len(order) /\ b \in a..Len(order) /\ b - a = g BY <1>1
<1>3. r \in Seq(A) /\ Len(r) = K - g
      /\ \A m \in 1..K - g : r[m] = IF m <= a THEN order[m] ELSE order[m + g]
  <2> HIDE DEF a, b, r, A
  <2>1. /\ r \in Seq(A) /\ Len(r) = Len(order) - (b - a)
        /\ \A m \in 1..Len(order) - (b - a) : r[m] = IF m <= a THEN order[m]
                                                    ELSE order[m + (b - a)]
    BY <1>1, <1>2, CutFrom DEF r
  <2>2. QED BY <1>1, <1>2, <2>1
<1>4. ASSUME NEW m \in 1..K - g PROVE r[m] \in v.alive /\ P[r[m]] = m
  <2>1. r[m] = IF m <= a THEN order[m] ELSE order[m + g] BY <1>3
  <2> HIDE DEF r, A
  <2>2. CASE m <= a
    <3>1. m \in 1..K /\ m < i BY <2>2
    <3>2. r[m] = order[m] /\ order[m] \in A /\ pos[order[m]] = m BY <1>1, <2>1, <2>2, <3>1
    <3>3. r[m] \in v.alive BY <3>1, <3>2 DEF A
    <3>4. P[r[m]] = Closed(i, g, m) BY <3>2, <3>3
    <3>5. QED BY <3>1, <3>3, <3>4 DEF Closed
  <2>3. CASE m > a
    <3>1. m + g \in 1..K /\ ~(m <= a) /\ ~(m + g < i + g) /\ ~(m + g < i) /\ (m + g) - g = m
      BY <2>3
    <3>2. r[m] = order[m + g] /\ order[m + g] \in A /\ pos[order[m + g]] = m + g
      BY <1>1, <2>1, <3>1
    <3>3. r[m] \in v.alive BY <3>1, <3>2 DEF A
    <3>4. P[r[m]] = Closed(i, g, m + g) BY <3>2, <3>3
    <3>5. QED BY <3>1, <3>3, <3>4 DEF Closed
  <2>4. m <= a \/ m > a OBVIOUS
  <2>5. QED BY <2>2, <2>3, <2>4
<1>5. K - g \in Nat OBVIOUS
<1>6. Enumerates(r, v.alive, K - g, P)
  <2> HIDE DEF r, A
  <2>1. QED BY <1>3, <1>4, <1>5, IsEnumeration
<1>7. Enumerates(Visited(v), v.alive, K - g, P) BY VisitedFacts
<1>8. Visited(v) = r
  <2> HIDE DEF r
  <2>1. QED BY <1>6, <1>7, OneOrder
<1>9. QED BY <1>8 DEF Ordered!Without

\* Erase takes the node out, and only that one.
LEMMA EraseOrdered ==
    ASSUME Inv, NEW n \in Nodes, Erase(n)
    PROVE  Ordered!Erase(n)
<1>1. PICK K, pos : Whole(tree, K, pos) BY DEF Inv, Sound
<1>2. n \in tree.alive /\ order' = Visited(Erased(tree, n)) BY DEF Erase
<1>3. Erased(tree, n).alive = tree.alive \ {n} BY <1>1, <1>2, ErasedKeeps
<1>4. PICK P : /\ Whole(Erased(tree, n), K - 1, P)
               /\ \A m \in tree.alive \ {n} : P[m] = PosWithout(pos, n)[m]
  BY <1>1, <1>2, ErasedKeeps
<1>5. Enumerates(order, tree.alive, K, pos) BY <1>1, VisitedFacts DEF Inv
<1>6. /\ tree.alive \subseteq Nodes /\ K \in Nat
      /\ \A x \in tree.alive : pos[x] \in Int /\ 1 <= pos[x] /\ pos[x] <= K
      /\ \A x, y \in tree.alive : pos[x] = pos[y] => x = y
  BY <1>1, WholeFacts
<1> DEFINE i == pos[n]
           v == Erased(tree, n)
<1>7. i \in 1..(K + 1) /\ 1 \in Nat /\ i + 1 <= K + 1 /\ i \in 1..K BY <1>2, <1>6
<1>8. v.alive = {x \in tree.alive : ~(i <= pos[x] /\ pos[x] < i + 1)}
  <2>1. \A x \in tree.alive : (i <= pos[x] /\ pos[x] < i + 1) <=> x = n BY <1>2, <1>6
  <2>2. QED BY <1>3, <2>1
<1>9. ASSUME NEW x \in v.alive PROVE P[x] = Closed(i, 1, pos[x])
  <2>1. x \in tree.alive \ {n} /\ x \in Nodes BY <1>3, <1>6
  <2>2. P[x] = IF pos[x] > i THEN pos[x] - 1 ELSE pos[x] BY <1>4, <2>1 DEF PosWithout
  <2>3. pos[x] # i BY <1>2, <1>6, <2>1
  <2>4. QED BY <1>2, <1>6, <2>1, <2>2, <2>3 DEF Closed
<1> HIDE DEF v
<1>10. Whole(v, K - 1, P) BY <1>4 DEF v
<1>11. Visited(v) = Ordered!Without(i - 1, i + 1 - 1)
  <2> HIDE DEF i
  <2>1. QED BY <1>1, <1>5, <1>6, <1>7, <1>8, <1>9, <1>10, Remaining
<1>12. i + 1 - 1 = i BY <1>7
<1>13. order' = Ordered!Without(i - 1, i) BY <1>2, <1>11, <1>12 DEF v
<1>14. i \in DOMAIN order /\ order[i] = n BY <1>1, <1>2, <1>5, InPlace
<1> HIDE DEF i
<1>15. QED BY <1>13, <1>14 DEF Ordered!Erase

\* Erase of a key takes out the nodes of the key, and only those.
LEMMA EraseKeyOrdered ==
    ASSUME Inv, NEW k \in ErasedKeys, EraseKey(k)
    PROVE  Ordered!EraseKey(k)
<1>1. PICK K, pos : Whole(tree, K, pos) BY DEF Inv, Sound
<1>14. PICK v : v = ErasedKey(tree, k) OBVIOUS
<1>2. k \in Int /\ order' = Visited(v) BY <1>14, TreeAssumption DEF EraseKey
<1>15. KeyGone(tree, K, pos, k, v) BY <1>1, <1>2, <1>14, ErasedKeyKeeps
<1>3. v.alive = {x \in tree.alive : Key[x] # k} BY <1>15 DEF KeyGone
<1>16. PICK i \in 1..(K + 1), g \in Nat : \E P :
        /\ i + g <= K + 1
        /\ \A x \in tree.alive : Key[x] = k <=> i <= pos[x] /\ pos[x] < i + g
        /\ Whole(v, K - g, P) /\ \A x \in v.alive : P[x] = Closed(i, g, pos[x])
  BY <1>15 DEF KeyGone
<1>4. PICK P :
        /\ i + g <= K + 1
        /\ \A x \in tree.alive : Key[x] = k <=> i <= pos[x] /\ pos[x] < i + g
        /\ Whole(v, K - g, P) /\ \A x \in v.alive : P[x] = Closed(i, g, pos[x])
  BY <1>16
<1>5. Enumerates(order, tree.alive, K, pos) BY <1>1, VisitedFacts DEF Inv
<1>6. K \in Nat BY <1>1, WholeFacts
<1>7. v.alive = {x \in tree.alive : ~(i <= pos[x] /\ pos[x] < i + g)} BY <1>3, <1>4
<1>8. Visited(v) = Ordered!Without(i - 1, i + g - 1)
  BY <1>1, <1>4, <1>5, <1>6, <1>7, Remaining
<1>9. /\ Len(order) = K /\ DOMAIN order = 1..K
      /\ \A m \in 1..K : order[m] \in tree.alive /\ pos[order[m]] = m
  BY <1>1, <1>5, InPlace
<1> DEFINE a == i - 1
           b == i + g - 1
<1>10. a \in 0..Len(order) /\ b \in a..Len(order) BY <1>4, <1>6, <1>9
<1>11. ASSUME NEW m \in DOMAIN order PROVE Key[order[m]] = k <=> a < m /\ m <= b
  <2>1. m \in 1..K /\ order[m] \in tree.alive /\ pos[order[m]] = m BY <1>9
  <2>2. Key[order[m]] = k <=> i <= m /\ m < i + g BY <1>4, <2>1
  <2>3. (i <= m /\ m < i + g) <=> (a < m /\ m <= b) BY <1>6, <2>1
  <2>4. QED BY <2>2, <2>3
<1>12. order' = Ordered!Without(a, b) BY <1>2, <1>8
<1> HIDE DEF a, b
<1>13. QED BY <1>10, <1>11, <1>12 DEF Ordered!EraseKey

\* Every step of the tree is a step of the list, or leaves the list alone.
LEMMA NextOrdered ==
    ASSUME Inv, Inv', [Next]_vars
    PROVE  [Ordered!Next]_order
<1>1. ASSUME NEW n \in Nodes, Insert(n) PROVE Ordered!Next
  BY <1>1, InsertOrdered DEF Ordered!Next
<1>2. ASSUME NEW n \in Nodes, Erase(n) PROVE Ordered!Next
  BY <1>2, EraseOrdered DEF Ordered!Next
<1>3. ASSUME NEW k \in ErasedKeys, EraseKey(k) PROVE Ordered!Next
  BY <1>3, EraseKeyOrdered DEF Ordered!Next
<1>4. CASE UNCHANGED vars BY <1>4 DEF vars
<1>5. QED BY <1>1, <1>2, <1>3, <1>4 DEF Next

------------------------------------------------------------------------------
(* The theorems *)

\* No rotation, no exchange of a node with its predecessor and no removal leaves a
\* link, the root, an end or the count behind.
THEOREM StaysLinked == Spec => []WellLinked
<1>1. Inv => WellLinked BY WholeIsLinked
<1>2. QED BY <1>1, StaysSound, PTL

\* Whatever was inserted and erased, no red node has a red child, the root is
\* black and all ways down meet the same number of black nodes.
THEOREM StaysBalanced == Spec => []Balanced
<1>1. Inv => Balanced BY WholeIsBalanced
<1>2. QED BY <1>1, StaysSound, PTL

\* LowerBound, UpperBound and Find agree with a walk over all nodes, however many
\* of them have the key.
THEOREM KeysAreFound == Spec => []LookupsRight
<1>1. Inv => LookupsRight BY WholeFindsKeys
<1>2. QED BY <1>1, StaysSound, PTL

\* The iteration is a list in the order of the keys, to which an insertion adds its
\* node behind all that are not greater and from which a removal takes what it
\* names and nothing else.
THEOREM TreeIsOrderedList == Spec => ImplementsOrderedNodes
<1>1. Init => Ordered!Init BY InitSound, InitOrdered
<1>2. Inv /\ Inv' /\ [Next]_vars => [Ordered!Next]_order BY NextOrdered
<1>3. QED BY <1>1, <1>2, StaysSound, PTL DEF Spec, Ordered!Spec, ImplementsOrderedNodes
=============================================================================
