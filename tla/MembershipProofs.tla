-------------------------- MODULE MembershipProofs --------------------------
(***************************************************************************)
(* A member learns where its leaf landed, fetches an inclusion proof for   *)
(* that index from a later read of the tree shard and spends it later      *)
(* still; a verifier reads the accepted roots from the shard at that time. *)
(* Between any two of these the registry goes on changing the tree.  The   *)
(* circuit is deeper than the tree, so paths are padded and roots folded   *)
(* before they are compared.                                               *)
(***************************************************************************)
EXTENDS MerkleTree, FiniteSets

CONSTANTS
    CIRCUIT_DEPTH,
    None             \* no proof fetched yet, or no leaf found

ASSUME CircuitAssumption == CIRCUIT_DEPTH \in Nat /\ TREE_DEPTH <= CIRCUIT_DEPTH

VARIABLES
    target,   \* the leaf the member proves, and the index it was given
    proof,    \* the proof the member holds
    age,      \* history: changes of the tree since it was fetched, counted to MaxAge
    recent    \* history: the leaves now and after each of the last changes

proof_vars == <<shard, target, proof, age, recent>>

MaxAge == ROOT_HISTORY_SIZE + 1

-----------------------------------------------------------------------------
\* The root of an all-empty subtree of each height.
zero_ladder[height \in 0 .. CIRCUIT_DEPTH] ==
    IF height = 0 THEN ZERO
    ELSE hash_pair(zero_ladder[height - 1], zero_ladder[height - 1])

node_hash(level, index) == read_sparse_node(shard.nodes, level, index)

\* The newest index below `next_index` that holds the leaf.
find_leaf_index(leaf) ==
    LET at == {i \in Indices : /\ i < shard.next_index
                               /\ node_hash(TREE_DEPTH, i) = leaf}
    IN  IF at = {} THEN None
        ELSE CHOOSE i \in at : \A j \in at : j <= i

sibling(index) == IF index % 2 = 0 THEN index + 1 ELSE index - 1

\* The siblings on the way up, and the side the path is on: path_elements and
\* path_indices, leaf level first.
path_of(leaf_index) ==
    [k \in 1 .. TREE_DEPTH |->
        LET level == TREE_DEPTH - k + 1
            index == leaf_index \div one_shl[k - 1]
        IN  [element |-> node_hash(level, sibling(index)),
             right |-> index % 2]]

merkle_proof(leaf_index) ==
    [leaf |-> node_hash(TREE_DEPTH, leaf_index),
     path |-> path_of(leaf_index),
     root |-> shard.root,
     leaf_index |-> leaf_index]

\* Mutation: the padding starts one height too low.
pad_path_low(path) ==
    [k \in 1 .. CIRCUIT_DEPTH |->
        IF k <= Len(path) THEN path[k]
        ELSE [element |-> zero_ladder[k - 2], right |-> 0]]

pad_path(path) ==
    [k \in 1 .. CIRCUIT_DEPTH |->
        IF k <= Len(path) THEN path[k]
        ELSE [element |-> zero_ladder[k - 1], right |-> 0]]

\* A root of the tree, as the root of a tree of the circuit's depth.
fold_root(root) ==
    LET fold[height \in TREE_DEPTH .. CIRCUIT_DEPTH] ==
          IF height = TREE_DEPTH THEN root
          ELSE hash_pair(fold[height - 1], zero_ladder[height - 1])
    IN  fold[CIRCUIT_DEPTH]

\* The circuit: the root that a leaf and a padded path lead to.
circuit_root(leaf, path) ==
    LET up[k \in 0 .. Len(path)] ==
          IF k = 0 THEN leaf
          ELSE IF path[k].right = 0 THEN hash_pair(up[k - 1], path[k].element)
                                    ELSE hash_pair(path[k].element, up[k - 1])
    IN  up[Len(path)]

\* The current root and the used slots of the history.
fetch_root_history ==
    {shard.root} \cup {r \in {shard.root_history[k] : k \in 1 .. ROOT_HISTORY_SIZE} : r # ZERO}

\* What a verifier of the circuit's proofs accepts: the window of roots the
\* tree reports, each folded to the circuit's depth.  The repository has no
\* verifier that keeps a window.
AcceptedRoots == {fold_root(r) : r \in fetch_root_history}

-----------------------------------------------------------------------------
ProofInit ==
    /\ Init
    /\ target = None
    /\ proof = None
    /\ age = 0
    /\ recent = <<>>

\* The registry changes the tree.
TreeChanges ==
    /\ apply
    /\ age' = IF proof # None /\ age < MaxAge THEN age + 1 ELSE age
    /\ recent' = SubSeq(<<leaves'>> \o recent, 1,
                        IF Len(recent) < MaxAge THEN Len(recent) + 1 ELSE MaxAge)
    /\ UNCHANGED <<target, proof>>

\* The index of the member's leaf, as registering returned it.
Locate(leaf) ==
    /\ shard # Empty
    /\ find_leaf_index(leaf) # None
    /\ target' = [leaf |-> leaf, index |-> find_leaf_index(leaf)]
    /\ proof' = None
    /\ age' = 0
    /\ UNCHANGED <<shard, recent>>

\* The demo's assertion that what it fetched is its own leaf.
is_own_leaf(fetched) == fetched.leaf = target.leaf

\* Leaf, siblings and root come from one read of the shard.
get_merkle_proof ==
    /\ target # None
    /\ LET fetched == merkle_proof(target.index)
       IN  IF is_own_leaf(fetched) THEN proof' = fetched /\ UNCHANGED target
                                   ELSE proof' = None /\ target' = None
    /\ age' = 0
    /\ UNCHANGED <<shard, recent>>

ProofNext ==
    \/ TreeChanges
    \/ \E leaf \in FieldElements \ {ZERO} : Locate(leaf)
    \/ get_merkle_proof

ProofSpec == ProofInit /\ [][ProofNext]_proof_vars

-----------------------------------------------------------------------------
\* The root the circuit derives from the held proof's padded path is the
\* folded root it is checked against, for every leaf of every reachable tree.
PaddedPathMeetsFoldedRoot ==
    proof # None =>
        circuit_root(proof.leaf, pad_path(proof.path)) = fold_root(proof.root)

\* A proof outlives as many changes of the tree as the history has slots: a
\* verifier that reads the shard after them still accepts its root.
ProofSurvivesWindow ==
    proof # None /\ age <= ROOT_HISTORY_SIZE => fold_root(proof.root) \in AcceptedRoots

\* And no longer than its leaf is recent: an accepted proof shows a leaf that
\* the tree held at that index now or at most ROOT_HISTORY_SIZE changes ago,
\* so a slashed or erased member's proofs lapse with the window, and no
\* accepted root is anything but a root the tree really had.
AcceptedProofIsRecent ==
    proof # None /\ fold_root(proof.root) \in AcceptedRoots =>
        \E k \in 1 .. Len(recent) : recent[k][proof.leaf_index] = proof.leaf

=============================================================================
