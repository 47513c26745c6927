----------------------------- MODULE LeafVector -----------------------------
(***************************************************************************)
(* What the merkle program promises of a tree shard: a vector of leaves    *)
(* and the index of the next one.  Registry models its trees this way.     *)
(***************************************************************************)
EXTENDS Integers

CONSTANTS
    TREE_LEAVES,
    FieldElements,   \* what a leaf may be, the empty one included
    ZERO,            \* the empty leaf
    Empty            \* a shard that holds no data

VARIABLE vector

Indices == 0 .. (TREE_LEAVES - 1)

Init == vector = Empty

Initialize ==
    /\ vector = Empty
    /\ vector' = [next_index |-> 0, leaves |-> [i \in Indices |-> ZERO]]

Insert(leaf) ==
    /\ vector # Empty
    /\ vector.next_index < TREE_LEAVES
    /\ vector' = [next_index |-> vector.next_index + 1,
                  leaves |-> [vector.leaves EXCEPT ![vector.next_index] = leaf]]

Remove(index, leaf) ==
    /\ vector # Empty
    /\ index < vector.next_index
    /\ vector.leaves[index] = leaf
    /\ vector' = [vector EXCEPT !.leaves[index] = ZERO]

Set(index, leaf) ==
    /\ vector # Empty
    /\ index < vector.next_index
    /\ vector.leaves[index] = ZERO
    /\ vector' = [vector EXCEPT !.leaves[index] = leaf]

Next ==
    \/ Initialize
    \/ \E leaf \in FieldElements : Insert(leaf)
    \/ \E i \in Indices, leaf \in FieldElements : Remove(i, leaf) \/ Set(i, leaf)

Spec == Init /\ [][Next]_vector

=============================================================================
