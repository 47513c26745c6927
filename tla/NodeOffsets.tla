----------------------------- MODULE NodeOffsets -----------------------------
(***************************************************************************)
(* The nodes of a tree of TREE_DEPTH levels below its root, and the number *)
(* under which each is stored: levels from the root down, left to right.   *)
(***************************************************************************)
EXTENDS Integers

CONSTANTS
    TREE_DEPTH,
    OFFSETS    \* how many offsets an entry's u16 can tell apart (2^16)

\* 1 << bits: the number of nodes of a level.
one_shl[bits \in 0 .. (TREE_DEPTH + 1)] ==
    IF bits = 0 THEN 1 ELSE 2 * one_shl[bits - 1]

TREE_LEAVES == one_shl[TREE_DEPTH]
TREE_NODES == one_shl[TREE_DEPTH + 1] - 1

\* The compile-time assertion on TREE_DEPTH.
ASSUME OffsetAssumption ==
    /\ TREE_DEPTH \in Nat
    /\ OFFSETS \in Nat \ {0}
    /\ TREE_NODES <= OFFSETS

Indices == 0 .. (TREE_LEAVES - 1)

Nodes == {n \in (0 .. TREE_DEPTH) \X Indices : n[2] < one_shl[n[1]]}

\* Mutation: levels overlap in one offset.
node_offset_overlapping(level, index) ==
    (IF level = 0 THEN 0 ELSE one_shl[level] - 2) + index

\* The level does not bound the index: one that is too large names another
\* level's node.
node_offset(level, index) == (one_shl[level] - 1) + index

target_offset(level, index) == node_offset(level, index) % OFFSETS

=============================================================================
