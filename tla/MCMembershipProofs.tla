------------------------- MODULE MCMembershipProofs -------------------------
(* A tree of four leaves under a circuit of depth four; three leaf values, *)
(* the empty one among them.                                               *)
EXTENDS MembershipProofs, TLC

CONSTANTS a, b

\* The two members' leaves are interchangeable.
Symmetry == Permutations({a, b})

=============================================================================
