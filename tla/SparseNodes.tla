----------------------------- MODULE SparseNodes -----------------------------
(***************************************************************************)
(* The node map of a tree shard, as it is stored: a list of (offset, hash) *)
(* entries kept sorted by offset and searched by bisection.  The tree      *)
(* (MerkleTree) uses it as a map from offsets to hashes; this module shows *)
(* that the list is one.                                                   *)
(***************************************************************************)
EXTENDS NodeOffsets, Sequences, SequencesExt

CONSTANTS
    Hashes,    \* what a node may be set to
    Default    \* the hash of a node that was never written

VARIABLES
    data,     \* the entries, in the order they are stored
    written   \* history: the hash last written to each node

vars == <<data, written>>

\* The number of entries whose offset is below the target, by bisection.
lower_bound(entries, target) ==
    LET search[range \in (0 .. Len(entries)) \X (0 .. Len(entries))] ==
          LET lo == range[1]
              hi == range[2]
              mid == lo + (hi - lo) \div 2
          IN  IF lo >= hi THEN lo
              ELSE IF entries[mid + 1].offset < target THEN search[<<mid + 1, hi>>]
              ELSE search[<<lo, mid>>]
    IN  search[<<0, Len(entries)>>]

holds(entries, at, target) ==
    at < Len(entries) /\ entries[at + 1].offset = target

read_sparse_node(entries, level, index, cached_default) ==
    LET target == target_offset(level, index)
        lo == lower_bound(entries, target)
    IN  IF holds(entries, lo, target) THEN entries[lo + 1].hash
        ELSE cached_default

\* Mutation: a new entry goes to the end.
write_sparse_node_append(entries, level, index, hash) ==
    LET target == target_offset(level, index)
        lo == lower_bound(entries, target)
    IN  IF holds(entries, lo, target)
        THEN [entries EXCEPT ![lo + 1].hash = hash]
        ELSE Append(entries, [offset |-> target, hash |-> hash])

\* Overwrite the node's entry, or shift the later ones up by one to make room.
write_sparse_node(entries, level, index, hash) ==
    LET target == target_offset(level, index)
        lo == lower_bound(entries, target)
    IN  IF holds(entries, lo, target)
        THEN [entries EXCEPT ![lo + 1].hash = hash]
        ELSE InsertAt(entries, lo + 1, [offset |-> target, hash |-> hash])

Init ==
    /\ data = <<>>
    /\ written = [n \in Nodes |-> Default]

Write(level, index, hash) ==
    /\ data' = write_sparse_node(data, level, index, hash)
    /\ written' = [written EXCEPT ![<<level, index>>] = hash]

Next == \E n \in Nodes, h \in Hashes : Write(n[1], n[2], h)

Spec == Init /\ [][Next]_vars

-----------------------------------------------------------------------------
\* The entries stay sorted by offset without repetition, which bisection
\* relies on, and they never outnumber the tree's nodes, which the shard's
\* size limit relies on (TREE_SHARD_MAX_BYTES).
EntriesSorted ==
    /\ \A i, j \in 1 .. Len(data) : i < j => data[i].offset < data[j].offset
    /\ Len(data) <= TREE_NODES

\* After any sequence of writes, in any order, every node reads back the hash
\* last written to it, and one never written reads its default: no write is
\* lost, and none shows through at another node.
ReadsLastWrite ==
    \A n \in Nodes : read_sparse_node(data, n[1], n[2], Default) = written[n]

=============================================================================
