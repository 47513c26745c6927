---------------------------- MODULE MCSparseNodes ----------------------------
(* Every order of writes to a tree of seven nodes.                         *)
EXTENDS SparseNodes

CONSTANTS h1, h2

=============================================================================
