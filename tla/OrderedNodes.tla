---------------------------- MODULE OrderedNodes ----------------------------
(***************************************************************************)
(* What the users of jaf::RedBlackTree rely on: a sequence of nodes in the *)
(* order of their keys, those of equal keys in the order they came, where  *)
(* a node keeps its identity (its address) from insertion to removal.      *)
(***************************************************************************)
EXTENDS Integers, Sequences

CONSTANTS Nodes, Key, ErasedKeys

VARIABLE list

Elems(s) == {s[i] : i \in DOMAIN s}

Init ==
    /\ list \in Seq(Nodes)
    /\ \A i, j \in DOMAIN list : i < j => list[i] # list[j] /\ Key[list[i]] <= Key[list[j]]

Insert(n) ==
    /\ n \notin Elems(list)
    /\ \E i \in 0..Len(list) :
        /\ \A j \in 1..i : Key[list[j]] <= Key[n]
        /\ \A j \in i + 1..Len(list) : Key[n] < Key[list[j]]
        /\ list' = SubSeq(list, 1, i) \o <<n>> \o SubSeq(list, i + 1, Len(list))

\* The list without the elements behind i up to j.
Without(i, j) == SubSeq(list, 1, i) \o SubSeq(list, j + 1, Len(list))

Erase(n) ==
    \E i \in DOMAIN list : list[i] = n /\ list' = Without(i - 1, i)

\* Equal keys stand together.
EraseKey(k) ==
    \E i \in 0..Len(list) : \E j \in i..Len(list) :
        /\ \A m \in DOMAIN list : Key[list[m]] = k <=> i < m /\ m <= j
        /\ list' = Without(i, j)

Next ==
    \/ \E n \in Nodes : Insert(n) \/ Erase(n)
    \/ \E k \in ErasedKeys : EraseKey(k)

Spec == Init /\ [][Next]_list
=============================================================================
