----------------------------- MODULE MerkleTree -----------------------------
(***************************************************************************)
(* The merkle program's shard of a tree account: header, root history and  *)
(* sparse node map, and the four instructions that rewrite it.  Every      *)
(* instruction is one plan with one effect, so one action; the caller's    *)
(* authority over the account is Registry's subject.                       *)
(*                                                                         *)
(* Poseidon is taken to be injective: a hash is the pair it hashes.  The   *)
(* node map is a function from the offsets that were written; SparseNodes  *)
(* shows that the stored list behaves as one.                              *)
(***************************************************************************)
EXTENDS NodeOffsets, Sequences

CONSTANTS
    ROOT_HISTORY_SIZE,
    FieldElements,   \* the leaves a caller may hand in
    ZERO,            \* the empty leaf, and an unused slot of the root history
    Empty            \* a shard that holds no data

ASSUME DepthAssumption ==
    /\ TREE_DEPTH # 0
    /\ ROOT_HISTORY_SIZE \in Nat \ {0}
    /\ ZERO \in FieldElements

VARIABLE shard

-----------------------------------------------------------------------------
hash_pair(left, right) == <<left, right>>

\* The empty-subtree hash of each level, root first.
DEFAULT_HASHES[level \in 0 .. TREE_DEPTH] ==
    IF level = TREE_DEPTH THEN ZERO
    ELSE hash_pair(DEFAULT_HASHES[level + 1], DEFAULT_HASHES[level + 1])

read_sparse_node(nodes, level, index) ==
    LET at == target_offset(level, index)
    IN  IF at \in DOMAIN nodes THEN nodes[at] ELSE DEFAULT_HASHES[level]

write_sparse_node(nodes, level, index, hash) ==
    LET written == target_offset(level, index)
    IN  [at \in DOMAIN nodes \cup {written} |-> IF at = written THEN hash ELSE nodes[at]]

\* One level of an update: store the node, hash it with its sibling.
ascend(walk, level) ==
    LET nodes == write_sparse_node(walk.nodes, level, walk.index, walk.hash)
        even == walk.index % 2 = 0
        sibling_index == IF even THEN walk.index + 1 ELSE walk.index - 1
        sibling == read_sparse_node(nodes, level, sibling_index)
    IN  [nodes |-> nodes,
         hash |-> IF even THEN hash_pair(walk.hash, sibling)
                          ELSE hash_pair(sibling, walk.hash),
         index |-> walk.index \div 2]

\* The root, and the node map with the leaf and every ancestor of it rewritten.
compute_root_after_update(leaf, leaf_index, nodes) ==
    LET walk[level \in 0 .. TREE_DEPTH] ==
          IF level = TREE_DEPTH
          THEN [nodes |-> nodes, hash |-> leaf, index |-> leaf_index]
          ELSE ascend(walk[level + 1], level + 1)
    IN  [root |-> walk[0].hash,
         nodes |-> write_sparse_node(walk[0].nodes, 0, 0, walk[0].hash)]

\* Mutation: the history is not shifted, so its last slot is never dropped.
push_root_history_in_place(history, old_root) == [history EXCEPT ![1] = old_root]

\* Mutation: the oldest root is not dropped.
push_root_history_growing(history, old_root) == <<old_root>> \o history

\* The root that was current becomes the newest of the history.
push_root_history(history, old_root) ==
    <<old_root>> \o SubSeq(history, 1, ROOT_HISTORY_SIZE - 1)

\* Mutation: the leaf is rewritten and its ancestors are not.
update_leaf_only(pre, leaf_index, leaf) ==
    [pre EXCEPT !.nodes = write_sparse_node(pre.nodes, TREE_DEPTH, leaf_index, leaf),
                !.root_history = push_root_history(pre.root_history, pre.root)]

update_leaf(pre, leaf_index, leaf) ==
    LET update == compute_root_after_update(leaf, leaf_index, pre.nodes)
    IN  [pre EXCEPT !.root = update.root,
                    !.nodes = update.nodes,
                    !.root_history = push_root_history(pre.root_history, pre.root)]

create_initialized_main_account_data ==
    [next_index |-> 0,
     root |-> DEFAULT_HASHES[0],
     root_history |-> [k \in 1 .. ROOT_HISTORY_SIZE |-> ZERO],
     nodes |-> <<>>]

-----------------------------------------------------------------------------
Init == shard = Empty

initialize_tree ==
    /\ shard = Empty
    /\ shard' = create_initialized_main_account_data

\* Mutation: one insert too many.
insert_leaf_past_end(leaf) ==
    /\ shard # Empty
    /\ shard.next_index <= TREE_LEAVES
    /\ shard' = [update_leaf(shard, shard.next_index, leaf) EXCEPT !.next_index = @ + 1]

insert_leaf(leaf) ==
    /\ shard # Empty
    /\ shard.next_index < TREE_LEAVES
    /\ shard' = [update_leaf(shard, shard.next_index, leaf) EXCEPT !.next_index = @ + 1]

remove_leaf(index, leaf) ==
    /\ shard # Empty
    /\ index < shard.next_index
    /\ read_sparse_node(shard.nodes, TREE_DEPTH, index) = leaf
    /\ shard' = update_leaf(shard, index, ZERO)

\* Mutation: the slot may hold a leaf.
set_leaf_over_live(index, leaf) ==
    /\ shard # Empty
    /\ index < shard.next_index
    /\ shard' = update_leaf(shard, index, leaf)

set_leaf(index, leaf) ==
    /\ shard # Empty
    /\ index < shard.next_index
    /\ read_sparse_node(shard.nodes, TREE_DEPTH, index) = ZERO
    /\ shard' = update_leaf(shard, index, leaf)

apply ==
    \/ initialize_tree
    \/ \E leaf \in FieldElements : insert_leaf(leaf)
    \/ \E i \in Indices, leaf \in FieldElements : remove_leaf(i, leaf)
    \/ \E i \in Indices, leaf \in FieldElements : set_leaf(i, leaf)

Spec == Init /\ [][apply]_shard

-----------------------------------------------------------------------------
(***************************************************************************)
(* Properties.                                                             *)
(***************************************************************************)

\* A live tree has at most one node per offset, a full root history and a
\* `next_index` no further than one past the last leaf.
TypeOK ==
    shard # Empty =>
        /\ shard.next_index \in 0 .. TREE_LEAVES
        /\ Len(shard.root_history) = ROOT_HISTORY_SIZE
        /\ DOMAIN shard.nodes \subseteq 0 .. (TREE_NODES - 1)

leaves == [i \in Indices |-> read_sparse_node(shard.nodes, TREE_DEPTH, i)]

\* The reference: the hash of the subtree under each node, from the leaves
\* alone.
Subtree(vector) ==
    LET hash[n \in Nodes] ==
          IF n[1] = TREE_DEPTH THEN vector[n[2]]
          ELSE hash_pair(hash[<<n[1] + 1, 2 * n[2]>>], hash[<<n[1] + 1, 2 * n[2] + 1>>])
    IN  hash

\* The header's root is the Merkle root of the leaves and every inner node,
\* stored or defaulted, is the hash of its subtree: updating one path at a
\* time, over any sequence of inserts, removals and refills, leaves no
\* ancestor stale.
NodesMatchLeaves ==
    shard # Empty =>
        LET reference == Subtree(leaves)
        IN  /\ shard.root = reference[<<0, 0>>]
            /\ \A n \in Nodes : read_sparse_node(shard.nodes, n[1], n[2]) = reference[n]

\* The node map as a vector of leaves.
Abstract == INSTANCE LeafVector WITH
    vector <- IF shard = Empty THEN Empty
              ELSE [next_index |-> shard.next_index, leaves |-> leaves]

\* The four instructions implement those of a plain vector of leaves: what
\* Registry takes a tree to be.
ImplementsLeafVector == Abstract!Spec

=============================================================================
