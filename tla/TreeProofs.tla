----------------------------- MODULE TreeProofs -----------------------------
(***************************************************************************)
(* The tree shard's stored hashes are the Merkle hashes of its leaves, the *)
(* shard is a vector of leaves, and proofs fetched from it are accepted as *)
(* long as the root history says, for every depth and every history size.  *)
(***************************************************************************)
EXTENDS MembershipProofs, NodeOffsetsProofs

Left(n) == <<n[1] + 1, 2 * n[2]>>
Right(n) == <<n[1] + 1, 2 * n[2] + 1>>
Parent(n) == <<n[1] - 1, n[2] \div 2>>
Leaf(i) == <<TREE_DEPTH, i>>
Root == <<0, 0>>

-----------------------------------------------------------------------------
(* Nodes.                                                                  *)

\* The bounds of a node's index are its level's.
LEMMA NodeBounds ==
  ASSUME NEW level \in 0 .. TREE_DEPTH, NEW index \in Nat
  PROVE  <<level, index>> \in Nodes <=> index < one_shl[level]
  <1>1. /\ level \in 0 .. (TREE_DEPTH + 1) /\ TREE_DEPTH \in 0 .. (TREE_DEPTH + 1)
        /\ level <= TREE_DEPTH
    BY OffsetAssumption
  <1>2. /\ one_shl[level] <= one_shl[TREE_DEPTH]
        /\ one_shl[level] \in Nat /\ one_shl[TREE_DEPTH] \in Nat
    BY <1>1, OneShlMonotone, OneShlPositive
  <1>3. index < one_shl[level] => index \in Indices
    BY <1>2 DEF Indices, TREE_LEAVES
  <1>4. QED
    BY <1>3 DEF Nodes

\* A node is its level and its index.
LEMMA NodeParts ==
  ASSUME NEW n \in Nodes
  PROVE  /\ n = <<n[1], n[2]>> /\ n[1] \in 0 .. TREE_DEPTH /\ n[2] \in Nat
         /\ n[2] < one_shl[n[1]]
  <1>1. n = <<n[1], n[2]>> /\ n[1] \in 0 .. TREE_DEPTH
    BY DEF Nodes
  <1>2. n[2] \in Nat
    BY OffsetRange
  <1>3. QED
    BY <1>1, <1>2 DEF Nodes

\* The children of an inner node, and the parent of a node below the root.
LEMMA Kin ==
  ASSUME NEW n \in Nodes
  PROVE  /\ n[1] < TREE_DEPTH => /\ Left(n) \in Nodes /\ Right(n) \in Nodes
                                 /\ Parent(Left(n)) = n /\ Parent(Right(n)) = n
         /\ n[1] # 0 => /\ Parent(n) \in Nodes /\ Parent(n)[1] < TREE_DEPTH
                        /\ n[2] % 2 = 0 => n = Left(Parent(n))
                        /\ n[2] % 2 # 0 => n = Right(Parent(n))
  <1>1. /\ n = <<n[1], n[2]>> /\ n[1] \in 0 .. TREE_DEPTH /\ n[2] \in Nat
        /\ n[2] < one_shl[n[1]]
    BY NodeParts
  <1>2. ASSUME n[1] < TREE_DEPTH
        PROVE  /\ Left(n) \in Nodes /\ Right(n) \in Nodes
               /\ Parent(Left(n)) = n /\ Parent(Right(n)) = n
    <2>1. n[1] + 1 \in 0 .. TREE_DEPTH /\ n[1] \in 0 .. (TREE_DEPTH + 1)
      BY <1>1, <1>2, OffsetAssumption
    <2>2. one_shl[n[1] + 1] = 2 * one_shl[n[1]] /\ one_shl[n[1]] \in Nat
      BY <1>1, <2>1, OneShl, OneShlPositive
    <2>3. /\ 2 * n[2] \in Nat /\ 2 * n[2] + 1 \in Nat
          /\ 2 * n[2] < one_shl[n[1] + 1] /\ 2 * n[2] + 1 < one_shl[n[1] + 1]
      BY <1>1, <2>2
    <2>4. Left(n) \in Nodes /\ Right(n) \in Nodes
      BY <2>1, <2>3, NodeBounds DEF Left, Right
    <2>5. /\ (2 * n[2]) \div 2 = n[2] /\ (2 * n[2] + 1) \div 2 = n[2]
          /\ n[1] + 1 - 1 = n[1]
      <3>1. ASSUME NEW x \in Nat PROVE (2 * x) \div 2 = x /\ (2 * x + 1) \div 2 = x
        OBVIOUS
      <3>2. QED
        BY <1>1, <3>1
    <2>6. QED
      BY <1>1, <2>4, <2>5 DEF Left, Right, Parent
  <1>3. ASSUME n[1] # 0
        PROVE  /\ Parent(n) \in Nodes /\ Parent(n)[1] < TREE_DEPTH
               /\ n[2] % 2 = 0 => n = Left(Parent(n))
               /\ n[2] % 2 # 0 => n = Right(Parent(n))
    <2>1. /\ n[1] - 1 \in 0 .. TREE_DEPTH /\ n[1] - 1 \in 0 .. (TREE_DEPTH + 1)
          /\ n[1] - 1 + 1 = n[1] /\ n[1] - 1 < TREE_DEPTH
      BY <1>1, <1>3, OffsetAssumption
    <2>2. one_shl[n[1]] = 2 * one_shl[n[1] - 1] /\ one_shl[n[1] - 1] \in Nat
      <3>1. one_shl[n[1] - 1 + 1] = 2 * one_shl[n[1] - 1]
        BY <2>1, OneShl
      <3>2. QED
        BY <2>1, <3>1, OneShlPositive
    <2>3. n[2] \div 2 \in Nat /\ n[2] \div 2 < one_shl[n[1] - 1]
      BY <1>1, <2>2
    <2>4. Parent(n) \in Nodes
      BY <2>1, <2>3, NodeBounds DEF Parent
    <2>5. /\ n[2] % 2 = 0 => 2 * (n[2] \div 2) = n[2]
          /\ n[2] % 2 # 0 => 2 * (n[2] \div 2) + 1 = n[2]
      BY <1>1
    <2>6. Parent(n)[1] = n[1] - 1 /\ Parent(n)[2] = n[2] \div 2
      BY DEF Parent
    <2>7. QED
      BY <1>1, <2>1, <2>4, <2>5, <2>6 DEF Left, Right
  <1>4. QED
    BY <1>2, <1>3

\* Leaves and root are nodes.
LEMMA Ends ==
  /\ Root \in Nodes
  /\ \A i \in Indices : Leaf(i) \in Nodes
  /\ \A n \in Nodes : n[1] = 0 => n = Root
  /\ \A n \in Nodes : n[1] = TREE_DEPTH => n[2] \in Indices /\ n = Leaf(n[2])
  <1>1. 0 \in 0 .. TREE_DEPTH /\ TREE_DEPTH \in 0 .. TREE_DEPTH /\ TREE_DEPTH \in 0 .. (TREE_DEPTH + 1)
    BY OffsetAssumption
  <1>2. one_shl[0] = 1 /\ one_shl[TREE_DEPTH] \in Nat
    BY <1>1, OneShl, OneShlPositive
  <1>3. Root \in Nodes
    BY <1>1, <1>2, NodeBounds DEF Root
  <1>4. ASSUME NEW i \in Indices PROVE Leaf(i) \in Nodes
    <2>1. i \in Nat /\ i < one_shl[TREE_DEPTH]
      BY <1>2 DEF Indices, TREE_LEAVES
    <2>2. QED
      BY <1>1, <2>1, NodeBounds DEF Leaf
  <1>5. ASSUME NEW n \in Nodes, n[1] = 0 PROVE n = Root
    <2>1. n = <<n[1], n[2]>> /\ n[2] \in Nat /\ n[2] < one_shl[n[1]]
      BY NodeParts
    <2>2. n[2] = 0
      BY <1>2, <1>5, <2>1
    <2>3. QED
      BY <1>5, <2>1, <2>2 DEF Root
  <1>6. ASSUME NEW n \in Nodes, n[1] = TREE_DEPTH PROVE n[2] \in Indices /\ n = Leaf(n[2])
    BY <1>6, NodeParts DEF Nodes, Leaf
  <1>7. QED
    BY <1>3, <1>4, <1>5, <1>6

-----------------------------------------------------------------------------
(* The node map.                                                           *)

\* DEFAULT_HASHES is what its definition says.
LEMMA DefaultHashesExist ==
  DEFAULT_HASHES = [level \in 0 .. TREE_DEPTH |->
      IF level = TREE_DEPTH THEN ZERO
      ELSE hash_pair(DEFAULT_HASHES[level + 1], DEFAULT_HASHES[level + 1])]
  <1> DEFINE D == TREE_DEPTH
             Step(g, l) == IF l = D THEN ZERO ELSE hash_pair(g[l + 1], g[l + 1])
             Part(n, g) == \A l \in 0 .. D : D <= l + n => g[l] = Step(g, l)
             S == {n \in Nat : \E g : Part(n, g)}
  <1>1. D \in Nat
    BY OffsetAssumption
  <1>2. 0 \in S
    <2> DEFINE g == [l \in 0 .. D |-> ZERO]
    <2>1. Part(0, g)
      BY <1>1
    <2> HIDE DEF Part, g
    <2>2. QED
      BY <2>1
  <1>3. ASSUME NEW n \in Nat, n \in S PROVE n + 1 \in S
    <2>1. PICK g : Part(n, g)
      BY <1>3
    <2> DEFINE h == [l \in 0 .. D |-> IF D <= l + n THEN g[l] ELSE Step(g, l)]
    <2>2. ASSUME NEW l \in 0 .. D, D <= l + (n + 1) PROVE h[l] = Step(h, l)
      <3>1. h[l] = Step(g, l)
        BY <2>1
      <3>2. l # D => l + 1 \in 0 .. D /\ D <= l + 1 + n
        BY <1>1, <2>2
      <3>3. l # D => h[l + 1] = g[l + 1]
        BY <3>2
      <3> HIDE DEF h
      <3>4. QED
        BY <3>1, <3>3
    <2>3. Part(n + 1, h)
      BY <2>2
    <2> HIDE DEF Part, h
    <2>4. QED
      BY <2>3
  <1> HIDE DEF S
  <1>4. \A n \in Nat : n \in S
    BY <1>2, <1>3, Induction
  <1>5. PICK g : Part(D, g)
    BY <1>1, <1>4 DEF S
  <1> DEFINE f == [l \in 0 .. D |-> g[l]]
  <1>6. ASSUME NEW l \in 0 .. D PROVE f[l] = Step(f, l)
    <2>1. f[l] = Step(g, l)
      BY <1>1, <1>5
    <2>2. l # D => l + 1 \in 0 .. D
      BY <1>1
    <2>3. QED
      BY <2>1, <2>2
  <1>7. f = [l \in 0 .. D |-> f[l]]
    OBVIOUS
  <1> HIDE DEF f
  <1>8. f = [l \in 0 .. D |-> Step(f, l)]
    BY <1>6, <1>7
  <1>9. \E s : s = [level \in 0 .. TREE_DEPTH |->
                      IF level = TREE_DEPTH THEN ZERO ELSE hash_pair(s[level + 1], s[level + 1])]
    BY <1>8
  <1>10. QED
    BY <1>9 DEF DEFAULT_HASHES

\* The default of a leaf is empty, and an inner default hashes the two below.
LEMMA DefaultHashes ==
  /\ DEFAULT_HASHES[TREE_DEPTH] = ZERO
  /\ \A level \in 0 .. TREE_DEPTH : level < TREE_DEPTH =>
        DEFAULT_HASHES[level] = hash_pair(DEFAULT_HASHES[level + 1], DEFAULT_HASHES[level + 1])
  <1>1. TREE_DEPTH \in 0 .. TREE_DEPTH
    BY OffsetAssumption
  <1>2. ASSUME NEW level \in 0 .. TREE_DEPTH
        PROVE  DEFAULT_HASHES[level] =
                  IF level = TREE_DEPTH THEN ZERO
                  ELSE hash_pair(DEFAULT_HASHES[level + 1], DEFAULT_HASHES[level + 1])
    BY DefaultHashesExist
  <1>3. ASSUME NEW level \in 0 .. TREE_DEPTH, level < TREE_DEPTH PROVE level # TREE_DEPTH
    BY <1>3, OffsetAssumption
  <1>4. QED
    BY <1>1, <1>2, <1>3

Read(nodes, n) == read_sparse_node(nodes, n[1], n[2])

\* A node map holds offsets of the tree only.
Within(nodes) == DOMAIN nodes \subseteq 0 .. (TREE_NODES - 1)

\* A write changes what is read at its own node, and at no other.
LEMMA WriteThenRead ==
  ASSUME NEW nodes, Within(nodes), NEW m \in Nodes, NEW hash
  PROVE  LET new == write_sparse_node(nodes, m[1], m[2], hash)
         IN  /\ Within(new)
             /\ \A n \in Nodes : Read(new, n) = IF n = m THEN hash ELSE Read(nodes, n)
  <1> DEFINE at == target_offset(m[1], m[2])
             new == write_sparse_node(nodes, m[1], m[2], hash)
  <1>1. at \in 0 .. (TREE_NODES - 1)
    <2>1. at \in Nat /\ at < TREE_NODES
      BY OffsetRange
    <2>2. TREE_NODES \in Nat
      <3>1. TREE_DEPTH + 1 \in 0 .. (TREE_DEPTH + 1)
        BY OffsetAssumption
      <3>2. one_shl[TREE_DEPTH + 1] \in Nat \ {0}
        BY <3>1, OneShlPositive
      <3>3. QED
        BY <3>2 DEF TREE_NODES
    <2> HIDE DEF at
    <2>3. QED
      BY <2>1, <2>2
  <1>2. new = [o \in DOMAIN nodes \cup {at} |-> IF o = at THEN hash ELSE nodes[o]]
    BY DEF write_sparse_node
  <1> HIDE DEF new
  <1>3. DOMAIN new = DOMAIN nodes \cup {at}
    BY <1>2
  <1>4. Within(new)
    <2> HIDE DEF at
    <2>1. QED
      BY <1>1, <1>3 DEF Within
  <1>5. ASSUME NEW n \in Nodes PROVE Read(new, n) = IF n = m THEN hash ELSE Read(nodes, n)
    <2> DEFINE o == target_offset(n[1], n[2])
    <2>1. o = at => n = m
      BY OffsetsDiffer
    <2> HIDE DEF at
    <2>2. CASE n = m
      BY <1>2, <2>2 DEF Read, read_sparse_node, at
    <2>3. CASE n # m
      <3>1. o # at
        BY <2>1, <2>3
      <3>2. o \in DOMAIN new <=> o \in DOMAIN nodes
        BY <1>3, <3>1
      <3>3. o \in DOMAIN new => new[o] = nodes[o]
        BY <1>2, <1>3, <3>1
      <3>4. QED
        BY <2>3, <3>2, <3>3 DEF Read, read_sparse_node
    <2>4. QED
      BY <2>2, <2>3
  <1>6. QED
    BY <1>4, <1>5 DEF new

-----------------------------------------------------------------------------
(* Updating a leaf.                                                        *)

\* The start of the walk from a leaf to the root, and its steps.
Start(leaf, leaf_index, nodes) == [nodes |-> nodes, hash |-> leaf, index |-> leaf_index]

Walk(leaf, leaf_index, nodes) ==
    CHOOSE walk : walk = [level \in 0 .. TREE_DEPTH |->
        IF level = TREE_DEPTH THEN Start(leaf, leaf_index, nodes)
        ELSE ascend(walk[level + 1], level + 1)]

\* compute_root_after_update makes that walk.
LEMMA UpdateIsWalk ==
  ASSUME NEW leaf, NEW leaf_index, NEW nodes
  PROVE  LET top == Walk(leaf, leaf_index, nodes)[0]
         IN  compute_root_after_update(leaf, leaf_index, nodes)
               = [root |-> top.hash, nodes |-> write_sparse_node(top.nodes, 0, 0, top.hash)]
  BY DEF compute_root_after_update, Walk, Start

\* There is such a walk.
LEMMA WalkExists ==
  ASSUME NEW leaf, NEW leaf_index, NEW nodes
  PROVE  LET walk == Walk(leaf, leaf_index, nodes)
         IN  /\ walk[TREE_DEPTH] = Start(leaf, leaf_index, nodes)
             /\ \A level \in 0 .. TREE_DEPTH :
                   level < TREE_DEPTH => walk[level] = ascend(walk[level + 1], level + 1)
  <1> DEFINE D == TREE_DEPTH
             start == Start(leaf, leaf_index, nodes)
             Step(g, l) == IF l = D THEN start ELSE ascend(g[l + 1], l + 1)
             Part(n, g) == \A l \in 0 .. D : D <= l + n => g[l] = Step(g, l)
             S == {n \in Nat : \E g : Part(n, g)}
  <1> HIDE DEF start
  <1>1. D \in Nat
    BY OffsetAssumption
  <1>2. 0 \in S
    <2> DEFINE g == [l \in 0 .. D |-> start]
    <2>1. Part(0, g)
      BY <1>1
    <2> HIDE DEF Part, g
    <2>2. QED
      BY <2>1
  <1>3. ASSUME NEW n \in Nat, n \in S PROVE n + 1 \in S
    <2>1. PICK g : Part(n, g)
      BY <1>3
    <2> DEFINE h == [l \in 0 .. D |-> IF D <= l + n THEN g[l] ELSE Step(g, l)]
    <2>2. ASSUME NEW l \in 0 .. D, D <= l + (n + 1) PROVE h[l] = Step(h, l)
      <3>1. h[l] = Step(g, l)
        BY <2>1
      <3>2. l # D => l + 1 \in 0 .. D /\ D <= l + 1 + n
        BY <1>1, <2>2
      <3>3. l # D => h[l + 1] = g[l + 1]
        BY <3>2
      <3> HIDE DEF h
      <3>4. QED
        BY <3>1, <3>3
    <2>3. Part(n + 1, h)
      BY <2>2
    <2> HIDE DEF Part, h
    <2>4. QED
      BY <2>3
  <1> HIDE DEF S
  <1>4. \A n \in Nat : n \in S
    BY <1>2, <1>3, Induction
  <1>5. PICK g : Part(D, g)
    BY <1>1, <1>4 DEF S
  <1> DEFINE f == [l \in 0 .. D |-> g[l]]
  <1>6. ASSUME NEW l \in 0 .. D PROVE f[l] = Step(f, l)
    <2>1. f[l] = Step(g, l)
      BY <1>1, <1>5
    <2>2. l # D => l + 1 \in 0 .. D
      BY <1>1
    <2>3. QED
      BY <2>1, <2>2
  <1>7. f = [l \in 0 .. D |-> f[l]]
    OBVIOUS
  <1> HIDE DEF f
  <1>8. f = [l \in 0 .. D |-> Step(f, l)]
    BY <1>6, <1>7
  <1> DEFINE walk == Walk(leaf, leaf_index, nodes)
  <1>9. walk = [l \in 0 .. D |-> Step(walk, l)]
    <2>1. \E s : s = [level \in 0 .. TREE_DEPTH |->
                        IF level = TREE_DEPTH THEN Start(leaf, leaf_index, nodes)
                        ELSE ascend(s[level + 1], level + 1)]
      BY <1>8 DEF start
    <2>2. QED
      BY <2>1 DEF Walk, start
  <1> HIDE DEF walk
  <1>10. ASSUME NEW l \in 0 .. D PROVE walk[l] = Step(walk, l)
    BY <1>9
  <1>11. D \in 0 .. D /\ \A l \in 0 .. D : l < D => l # D
    BY <1>1
  <1>12. QED
    BY <1>10, <1>11 DEF walk, start

\* A node's hash in a tree of hashes is that of its children's.
Hashed(t, n) == t[n] = hash_pair(t[Left(n)], t[Right(n)])

\* What the tree reads as, once the walk's own hash is stored.
Overlay(walk, level) ==
    [n \in Nodes |-> IF n = <<level, walk.index>> THEN walk.hash ELSE Read(walk.nodes, n)]

\* On the way up only the next ancestor is stale, and one leaf has changed.
OnWay(walk, level, leaf, leaf_index, nodes) ==
    LET here == <<level, walk.index>>
        t == Overlay(walk, level)
    IN  /\ here \in Nodes
        /\ Within(walk.nodes)
        /\ \A n \in Nodes :
              n[1] < TREE_DEPTH /\ (level # 0 => n # Parent(here)) => Hashed(t, n)
        /\ \A j \in Indices :
              t[Leaf(j)] = IF j = leaf_index THEN leaf ELSE Read(nodes, Leaf(j))

\* A step up makes the parent current.
LEMMA Ascent ==
  ASSUME NEW level \in 1 .. TREE_DEPTH, NEW walk, NEW leaf, NEW leaf_index, NEW nodes,
         OnWay(walk, level, leaf, leaf_index, nodes)
  PROVE  OnWay(ascend(walk, level), level - 1, leaf, leaf_index, nodes)
  <1> DEFINE m == <<level, walk.index>>
             p == Parent(m)
             t == Overlay(walk, level)
             up == ascend(walk, level)
             stored == write_sparse_node(walk.nodes, level, walk.index, walk.hash)
  <1>1. level \in Nat /\ level # 0 /\ level <= TREE_DEPTH /\ TREE_DEPTH \in Nat
    BY OffsetAssumption
  <1>2. m \in Nodes /\ m[1] = level /\ m[2] = walk.index
    BY DEF OnWay
  <1>3. /\ Within(stored)
        /\ \A n \in Nodes : Read(stored, n) = t[n]
    <2>1. /\ Within(stored)
          /\ \A n \in Nodes : Read(stored, n) = IF n = m THEN walk.hash ELSE Read(walk.nodes, n)
      <3>1. Within(walk.nodes)
        BY DEF OnWay
      <3>2. LET new == write_sparse_node(walk.nodes, m[1], m[2], walk.hash)
            IN  /\ Within(new)
                /\ \A n \in Nodes : Read(new, n) = IF n = m THEN walk.hash ELSE Read(walk.nodes, n)
        <4> HIDE DEF m
        <4>1. QED
          BY <1>2, <3>1, WriteThenRead
      <3>3. QED
        BY <1>2, <3>2
    <2>2. QED
      BY <2>1 DEF Overlay
  <1>4. /\ p \in Nodes /\ p = <<level - 1, walk.index \div 2>> /\ p[1] = level - 1
        /\ p[1] < TREE_DEPTH
        /\ walk.index % 2 = 0 => m = Left(p)
        /\ walk.index % 2 # 0 => m = Right(p)
    <2>1. p = <<level - 1, walk.index \div 2>>
      BY <1>2 DEF Parent
    <2> HIDE DEF m
    <2>2. /\ p \in Nodes /\ p[1] < TREE_DEPTH
          /\ m[2] % 2 = 0 => m = Left(p)
          /\ m[2] % 2 # 0 => m = Right(p)
      BY <1>1, <1>2, Kin
    <2>3. QED
      BY <1>2, <2>1, <2>2
  <1>5. walk.index \in Nat
    BY <1>2, NodeParts
  <1>6. /\ Left(p) \in Nodes /\ Right(p) \in Nodes
        /\ walk.index % 2 = 0 => Right(p) = <<level, walk.index + 1>>
        /\ walk.index % 2 # 0 => Left(p) = <<level, walk.index - 1>>
    <2>1. Left(p) \in Nodes /\ Right(p) \in Nodes
      <3> HIDE DEF p
      <3>1. QED
        BY <1>4, Kin
    <2>2. /\ Left(p) = <<level - 1 + 1, 2 * (walk.index \div 2)>>
          /\ Right(p) = <<level - 1 + 1, 2 * (walk.index \div 2) + 1>>
      BY <1>4 DEF Left, Right
    <2>3. ASSUME NEW x \in Nat
          PROVE  /\ x % 2 = 0 => 2 * (x \div 2) + 1 = x + 1
                 /\ x % 2 # 0 => 2 * (x \div 2) = x - 1
      OBVIOUS
    <2>4. level - 1 + 1 = level
      BY <1>1
    <2> HIDE DEF p
    <2>5. QED
      BY <1>5, <2>1, <2>2, <2>3, <2>4
  <1>7. /\ up.nodes = stored /\ up.index = walk.index \div 2
        /\ up.hash = hash_pair(t[Left(p)], t[Right(p)])
    <2>1. t[m] = walk.hash
      BY <1>2 DEF Overlay
    <2>2. CASE walk.index % 2 = 0
      <3>1. read_sparse_node(stored, level, walk.index + 1) = t[Right(p)]
        <4>1. Read(stored, Right(p)) = t[Right(p)]
          BY <1>3, <1>6
        <4>2. Right(p)[1] = level /\ Right(p)[2] = walk.index + 1
          BY <1>6, <2>2
        <4>3. QED
          BY <4>1, <4>2 DEF Read
      <3>2. up = [nodes |-> stored,
                  hash |-> hash_pair(walk.hash, read_sparse_node(stored, level, walk.index + 1)),
                  index |-> walk.index \div 2]
        BY <2>2 DEF ascend
      <3>3. t[Left(p)] = walk.hash
        BY <1>4, <2>1, <2>2
      <3> HIDE DEF up
      <3>4. QED
        BY <3>1, <3>2, <3>3
    <2>3. CASE walk.index % 2 # 0
      <3>1. read_sparse_node(stored, level, walk.index - 1) = t[Left(p)]
        <4>1. Read(stored, Left(p)) = t[Left(p)]
          BY <1>3, <1>6
        <4>2. Left(p)[1] = level /\ Left(p)[2] = walk.index - 1
          BY <1>6, <2>3
        <4>3. QED
          BY <4>1, <4>2 DEF Read
      <3>2. up = [nodes |-> stored,
                  hash |-> hash_pair(read_sparse_node(stored, level, walk.index - 1), walk.hash),
                  index |-> walk.index \div 2]
        BY <2>3 DEF ascend
      <3>3. t[Right(p)] = walk.hash
        BY <1>4, <2>1, <2>3
      <3> HIDE DEF up
      <3>4. QED
        BY <3>1, <3>2, <3>3
    <2>4. QED
      BY <2>2, <2>3
  <1> DEFINE after == Overlay(up, level - 1)
  <1>8. ASSUME NEW n \in Nodes
        PROVE  after[n] = IF n = p THEN hash_pair(t[Left(p)], t[Right(p)]) ELSE t[n]
    <2>1. <<level - 1, up.index>> = p
      BY <1>4, <1>7
    <2> HIDE DEF up, p, t, stored
    <2>2. QED
      BY <1>3, <1>7, <2>1 DEF Overlay
  <1>9. ASSUME NEW n \in Nodes, n[1] < TREE_DEPTH, level - 1 # 0 => n # Parent(p)
        PROVE  Hashed(after, n)
    <2>1. /\ Left(n) \in Nodes /\ Right(n) \in Nodes
          /\ Parent(Left(n)) = n /\ Parent(Right(n)) = n
      BY <1>9, Kin
    <2>2. n[1] \in Nat /\ Left(n)[1] = n[1] + 1 /\ Right(n)[1] = n[1] + 1
      BY NodeParts DEF Left, Right
    <2>3. Left(n) # p /\ Right(n) # p
      <3>1. CASE level - 1 = 0
        <4> HIDE DEF p
        <4>1. QED
          BY <1>4, <2>2, <3>1
      <3>2. CASE level - 1 # 0
        <4> HIDE DEF p
        <4>1. QED
          BY <1>9, <2>1, <3>2
      <3>3. QED
        BY <3>1, <3>2
    <2> HIDE DEF after, t
    <2>4. after[Left(n)] = t[Left(n)] /\ after[Right(n)] = t[Right(n)]
      BY <1>8, <2>1, <2>3
    <2>5. CASE n = p
      BY <1>8, <2>4, <2>5 DEF Hashed
    <2>6. CASE n # p
      <3>1. Hashed(t, n)
        BY <1>1, <1>9, <2>6 DEF OnWay, t
      <3>2. QED
        BY <1>8, <2>4, <2>6, <3>1 DEF Hashed
    <2>7. QED
      BY <2>5, <2>6
  <1>10. ASSUME NEW j \in Indices
         PROVE  after[Leaf(j)] = IF j = leaf_index THEN leaf ELSE Read(nodes, Leaf(j))
    <2>1. Leaf(j) \in Nodes /\ Leaf(j)[1] = TREE_DEPTH
      BY Ends DEF Leaf
    <2>2. Leaf(j) # p
      <3> HIDE DEF p
      <3>1. QED
        BY <1>1, <1>4, <2>1
    <2>3. after[Leaf(j)] = t[Leaf(j)]
      <3> HIDE DEF after, t, p
      <3>1. QED
        BY <1>8, <2>1, <2>2
    <2>4. QED
      BY <2>3 DEF OnWay
  <1>11. Within(up.nodes)
    BY <1>3, <1>7
  <1>12. <<level - 1, up.index>> = p
    BY <1>4, <1>7
  <1> HIDE DEF up, p, m, t, stored
  <1>13. QED
    BY <1>4, <1>9, <1>10, <1>11, <1>12 DEF OnWay, up

\* The tree of hashes that a node map reads as.
TreeOf(nodes) == [n \in Nodes |-> Read(nodes, n)]

\* A tree of hashes over a vector of leaves.
IsTree(t, vector) ==
    /\ \A n \in Nodes : n[1] < TREE_DEPTH => Hashed(t, n)
    /\ \A i \in Indices : t[Leaf(i)] = vector[i]

\* The leaves that a node map reads as.
LeavesOf(nodes) == [i \in Indices |-> Read(nodes, Leaf(i))]

Sound(nodes) == Within(nodes) /\ IsTree(TreeOf(nodes), LeavesOf(nodes))

\* Rewriting one leaf and its ancestors leaves a node map sound, and gives its
\* new root.
LEMMA Update ==
  ASSUME NEW nodes, Sound(nodes), NEW leaf_index \in Indices, NEW leaf
  PROVE  LET update == compute_root_after_update(leaf, leaf_index, nodes)
         IN  /\ Sound(update.nodes)
             /\ update.root = TreeOf(update.nodes)[Root]
             /\ LeavesOf(update.nodes) = [LeavesOf(nodes) EXCEPT ![leaf_index] = leaf]
  <1> DEFINE D == TREE_DEPTH
             walk == Walk(leaf, leaf_index, nodes)
             S == {k \in Nat : k <= D => OnWay(walk[D - k], D - k, leaf, leaf_index, nodes)}
  <1>1. D \in Nat
    BY OffsetAssumption
  <1>2. /\ walk[D] = Start(leaf, leaf_index, nodes)
        /\ \A level \in 0 .. D : level < D => walk[level] = ascend(walk[level + 1], level + 1)
    BY WalkExists
  <1> HIDE DEF walk
  <1>3. OnWay(walk[D], D, leaf, leaf_index, nodes)
    <2> DEFINE here == <<D, walk[D].index>>
               t == Overlay(walk[D], D)
    <2>1. walk[D].index = leaf_index /\ walk[D].hash = leaf /\ walk[D].nodes = nodes
      BY <1>2 DEF Start
    <2>2. here = Leaf(leaf_index) /\ here \in Nodes /\ here[1] = D
      BY <2>1, Ends DEF Leaf
    <2>3. ASSUME NEW n \in Nodes PROVE t[n] = IF n = here THEN leaf ELSE TreeOf(nodes)[n]
      BY <2>1 DEF Overlay, TreeOf
    <2> HIDE DEF here, t
    <2>4. ASSUME NEW n \in Nodes, n[1] < D, D # 0 => n # Parent(here) PROVE Hashed(t, n)
      <3>1. /\ Left(n) \in Nodes /\ Right(n) \in Nodes
            /\ Parent(Left(n)) = n /\ Parent(Right(n)) = n
        BY <2>4, Kin
      <3>2. n # here /\ D # 0
        BY <1>1, <2>2, <2>4, NodeParts
      <3>3. Left(n) # here /\ Right(n) # here
        BY <2>4, <3>1, <3>2
      <3>4. Hashed(TreeOf(nodes), n)
        BY <2>4 DEF Sound, IsTree
      <3>5. QED
        BY <2>3, <3>1, <3>2, <3>3, <3>4 DEF Hashed
    <2>5. ASSUME NEW j \in Indices
          PROVE  t[Leaf(j)] = IF j = leaf_index THEN leaf ELSE Read(nodes, Leaf(j))
      <3>1. Leaf(j) \in Nodes /\ (Leaf(j) = here <=> j = leaf_index)
        BY <2>2, Ends DEF Leaf
      <3>2. QED
        BY <2>3, <3>1 DEF TreeOf
    <2>6. QED
      BY <2>1, <2>2, <2>4, <2>5 DEF OnWay, Sound, here, t
  <1>4. 0 \in S
    BY <1>1, <1>3
  <1>5. ASSUME NEW k \in Nat, k \in S PROVE k + 1 \in S
    <2>1. CASE k + 1 <= D
      <3> DEFINE level == D - k
      <3>1. level \in 1 .. D /\ level - 1 \in 0 .. D /\ level - 1 < D /\ level - 1 + 1 = level
        BY <1>1, <2>1
      <3>2. OnWay(walk[level], level, leaf, leaf_index, nodes)
        BY <1>1, <1>5, <2>1
      <3>3. D - (k + 1) = level - 1
        BY <1>1
      <3> HIDE DEF level
      <3>4. walk[level - 1] = ascend(walk[level], level)
        BY <1>2, <3>1
      <3>5. OnWay(walk[level - 1], level - 1, leaf, leaf_index, nodes)
        BY <3>1, <3>2, <3>4, Ascent
      <3>6. QED
        BY <3>3, <3>5
    <2>2. CASE ~(k + 1 <= D)
      BY <2>2
    <2>3. QED
      BY <2>1, <2>2
  <1> HIDE DEF S
  <1>6. \A k \in Nat : k \in S
    BY <1>4, <1>5, Induction
  <1>7. OnWay(walk[0], 0, leaf, leaf_index, nodes)
    <2>1. D \in S /\ D <= D /\ D - D = 0
      BY <1>1, <1>6
    <2>2. QED
      BY <2>1 DEF S
  <1> DEFINE top == walk[0]
             update == compute_root_after_update(leaf, leaf_index, nodes)
             t == Overlay(top, 0)
  <1>8. update.root = top.hash /\ update.nodes = write_sparse_node(top.nodes, 0, 0, top.hash)
    BY UpdateIsWalk DEF walk
  <1> HIDE DEF update
  <1>9. <<0, top.index>> = Root /\ Root \in Nodes /\ Root[1] = 0 /\ Root[2] = 0
    <2>1. <<0, top.index>> \in Nodes
      BY <1>7 DEF OnWay
    <2>2. <<0, top.index>>[1] = 0
      OBVIOUS
    <2>3. QED
      BY <2>1, <2>2, Ends DEF Root
  <1>10. /\ Within(update.nodes)
         /\ \A n \in Nodes : Read(update.nodes, n) = t[n]
    <2>1. Within(top.nodes)
      BY <1>7 DEF OnWay
    <2>2. update.nodes = write_sparse_node(top.nodes, Root[1], Root[2], top.hash)
      BY <1>8, <1>9
    <2>3. /\ Within(update.nodes)
          /\ \A n \in Nodes : Read(update.nodes, n) = IF n = Root THEN top.hash ELSE Read(top.nodes, n)
      BY <1>9, <2>1, <2>2, WriteThenRead
    <2>4. QED
      BY <1>9, <2>3 DEF Overlay
  <1>11. TreeOf(update.nodes) = t
    BY <1>10 DEF TreeOf, Overlay
  <1>12. t[Root] = top.hash
    BY <1>9 DEF Overlay
  <1>13. /\ \A n \in Nodes : n[1] < D => Hashed(t, n)
         /\ \A j \in Indices : t[Leaf(j)] = IF j = leaf_index THEN leaf ELSE Read(nodes, Leaf(j))
    BY <1>7 DEF OnWay
  <1> HIDE DEF t, top
  <1>14. ASSUME NEW j \in Indices PROVE Read(update.nodes, Leaf(j)) = t[Leaf(j)]
    BY <1>10, Ends
  <1>15. LeavesOf(update.nodes) = [LeavesOf(nodes) EXCEPT ![leaf_index] = leaf]
    BY <1>13, <1>14 DEF LeavesOf
  <1>16. Sound(update.nodes)
    BY <1>10, <1>11, <1>13, <1>14 DEF Sound, IsTree, LeavesOf
  <1>17. QED
    BY <1>8, <1>11, <1>12, <1>15, <1>16 DEF update

\* A tree of hashes over a vector is the reference's.
LEMMA SubtreeIsTree ==
  ASSUME NEW vector, NEW t, t = [n \in Nodes |-> t[n]], IsTree(t, vector)
  PROVE  Subtree(vector) = t
  <1> DEFINE D == TREE_DEPTH
             Step(g, n) == IF n[1] = D THEN vector[n[2]]
                           ELSE hash_pair(g[<<n[1] + 1, 2 * n[2]>>], g[<<n[1] + 1, 2 * n[2] + 1>>])
             f == Subtree(vector)
             S == {k \in Nat : \A n \in Nodes : D <= n[1] + k => f[n] = t[n]}
  <1>1. D \in Nat
    BY OffsetAssumption
  <1>2. ASSUME NEW n \in Nodes PROVE t[n] = Step(t, n)
    <2>1. CASE n[1] = D
      BY <2>1, Ends DEF IsTree
    <2>2. CASE n[1] # D
      <3>1. n[1] < D
        BY <1>1, <2>2, NodeParts
      <3>2. QED
        BY <2>2, <3>1 DEF IsTree, Hashed, Left, Right
    <2>3. QED
      BY <2>1, <2>2
  <1>3. t = [n \in Nodes |-> Step(t, n)]
    BY <1>2
  <1>4. f = [n \in Nodes |-> Step(f, n)]
    <2>1. \E s : s = [n \in Nodes |->
                        IF n[1] = TREE_DEPTH THEN vector[n[2]]
                        ELSE hash_pair(s[<<n[1] + 1, 2 * n[2]>>], s[<<n[1] + 1, 2 * n[2] + 1>>])]
      BY <1>3
    <2>2. QED
      BY <2>1 DEF Subtree
  <1> HIDE DEF f
  <1>5. ASSUME NEW n \in Nodes PROVE f[n] = Step(f, n)
    BY <1>4
  <1>6. 0 \in S
    <2>1. ASSUME NEW n \in Nodes, D <= n[1] + 0 PROVE f[n] = t[n]
      <3>1. n[1] = D
        BY <1>1, <2>1, NodeParts
      <3>2. QED
        BY <1>2, <1>5, <3>1
    <2>2. QED
      BY <2>1
  <1>7. ASSUME NEW k \in Nat, k \in S PROVE k + 1 \in S
    <2>1. ASSUME NEW n \in Nodes, D <= n[1] + (k + 1) PROVE f[n] = t[n]
      <3>1. CASE n[1] = D
        BY <1>2, <1>5, <3>1
      <3>2. CASE n[1] # D
        <4>1. n[1] < D /\ n[1] \in Nat
          BY <1>1, <3>2, NodeParts
        <4>2. Left(n) \in Nodes /\ Right(n) \in Nodes
          BY <4>1, Kin
        <4>3. D <= Left(n)[1] + k /\ D <= Right(n)[1] + k
          BY <1>1, <2>1, <4>1 DEF Left, Right
        <4>4. f[Left(n)] = t[Left(n)] /\ f[Right(n)] = t[Right(n)]
          BY <1>7, <4>2, <4>3
        <4>5. QED
          BY <1>2, <1>5, <3>2, <4>4 DEF Left, Right
      <3>3. QED
        BY <3>1, <3>2
    <2>2. QED
      BY <2>1
  <1> HIDE DEF S
  <1>8. \A k \in Nat : k \in S
    BY <1>6, <1>7, Induction
  <1>9. ASSUME NEW n \in Nodes PROVE f[n] = t[n]
    <2>1. D \in S /\ n[1] \in Nat
      BY <1>1, <1>8, NodeParts
    <2>2. D <= n[1] + D
      BY <1>1, <2>1
    <2>3. QED
      BY <2>1, <2>2 DEF S
  <1>10. f = [n \in Nodes |-> f[n]]
    BY <1>4
  <1>11. f = t
    BY <1>9, <1>10
  <1>12. QED
    BY <1>11 DEF f

-----------------------------------------------------------------------------
(* The shard.                                                              *)

\* A push moves every root one slot on and drops the last.
LEMMA PushHistory ==
  ASSUME NEW history, history = [k \in 1 .. ROOT_HISTORY_SIZE |-> history[k]], NEW root
  PROVE  push_root_history(history, root)
            = [k \in 1 .. ROOT_HISTORY_SIZE |-> IF k = 1 THEN root ELSE history[k - 1]]
  <1> DEFINE H == ROOT_HISTORY_SIZE
             All == {history[k] : k \in 1 .. H} \cup {root}
             tail == SubSeq(history, 1, H - 1)
             new == push_root_history(history, root)
  <1>1. H \in Nat /\ H >= 1
    BY DepthAssumption
  <1>2. history \in Seq(All) /\ Len(history) = H /\ root \in All
    <2>1. history \in [1 .. H -> All]
      BY <1>1
    <2> HIDE DEF All
    <2>2. history \in Seq(All) /\ Len(history) = H
      BY <1>1, <2>1
    <2>3. root \in All
      BY DEF All
    <2>4. QED
      BY <2>2, <2>3
  <1> HIDE DEF All
  <1>3. tail \in Seq(All) /\ Len(tail) = H - 1 /\ \A k \in 1 .. (H - 1) : tail[k] = history[k]
    BY <1>1, <1>2
  <1>4. new = <<root>> \o tail
    BY DEF push_root_history
  <1> HIDE DEF tail, new
  <1>5. new \in Seq(All) /\ Len(new) = H
    BY <1>1, <1>2, <1>3, <1>4
  <1>6. \A k \in 1 .. H : new[k] = IF k = 1 THEN root ELSE tail[k - 1]
    BY <1>1, <1>2, <1>3, <1>4
  <1>7. ASSUME NEW k \in 1 .. H PROVE new[k] = IF k = 1 THEN root ELSE history[k - 1]
    <2>1. k # 1 => k - 1 \in 1 .. (H - 1)
      BY <1>1
    <2>2. QED
      BY <1>3, <1>6, <2>1
  <1>8. new = [k \in 1 .. H |-> new[k]]
    BY <1>1, <1>5
  <1>9. QED
    BY <1>7, <1>8 DEF new

\* A live shard: its shape, and its node map under its root.
IsShard(s) ==
    /\ s = [next_index |-> s.next_index, root |-> s.root,
            root_history |-> s.root_history, nodes |-> s.nodes]
    /\ s.next_index \in 0 .. TREE_LEAVES
    /\ s.root_history = [k \in 1 .. ROOT_HISTORY_SIZE |-> s.root_history[k]]
    /\ Sound(s.nodes)
    /\ s.root = TreeOf(s.nodes)[Root]

\* The old root joins the history.
Pushed(old, new) ==
    new.root_history = [k \in 1 .. ROOT_HISTORY_SIZE |->
                           IF k = 1 THEN old.root ELSE old.root_history[k - 1]]

\* An update of a leaf of a live shard.
LEMMA UpdateLeaf ==
  ASSUME NEW s, IsShard(s), NEW leaf_index \in Indices, NEW leaf,
         NEW new, new = update_leaf(s, leaf_index, leaf)
  PROVE  /\ IsShard(new) /\ new.next_index = s.next_index
         /\ Pushed(s, new)
         /\ LeavesOf(new.nodes) = [LeavesOf(s.nodes) EXCEPT ![leaf_index] = leaf]
  <1> DEFINE update == compute_root_after_update(leaf, leaf_index, s.nodes)
             history == push_root_history(s.root_history, s.root)
  <1>1. /\ Sound(update.nodes)
        /\ update.root = TreeOf(update.nodes)[Root]
        /\ LeavesOf(update.nodes) = [LeavesOf(s.nodes) EXCEPT ![leaf_index] = leaf]
    BY Update DEF IsShard
  <1>2. history = [k \in 1 .. ROOT_HISTORY_SIZE |->
                      IF k = 1 THEN s.root ELSE s.root_history[k - 1]]
    BY PushHistory DEF IsShard
  <1>3. new = [s EXCEPT !.root = update.root, !.nodes = update.nodes, !.root_history = history]
    BY DEF update_leaf
  <1> HIDE DEF update, history
  <1>4. new = [next_index |-> s.next_index, root |-> update.root,
               root_history |-> history, nodes |-> update.nodes]
    <2>1. s = [next_index |-> s.next_index, root |-> s.root,
               root_history |-> s.root_history, nodes |-> s.nodes]
      BY DEF IsShard
    <2>2. QED
      BY <1>3, <2>1
  <1>5. /\ new.next_index = s.next_index /\ new.root = update.root
        /\ new.root_history = history /\ new.nodes = update.nodes
    BY <1>4
  <1>6. history = [k \in 1 .. ROOT_HISTORY_SIZE |-> history[k]]
    BY <1>2
  <1>7. IsShard(new)
    BY <1>1, <1>4, <1>5, <1>6 DEF IsShard
  <1>8. QED
    BY <1>1, <1>2, <1>5, <1>7 DEF Pushed

\* The empty tree.
LEMMA NewShard ==
  LET new == create_initialized_main_account_data
  IN  /\ IsShard(new)
      /\ new.next_index = 0
      /\ new.root_history = [k \in 1 .. ROOT_HISTORY_SIZE |-> ZERO]
      /\ LeavesOf(new.nodes) = [i \in Indices |-> ZERO]
  <1> DEFINE new == create_initialized_main_account_data
             empty == <<>>
  <1>1. /\ new = [next_index |-> 0, root |-> DEFAULT_HASHES[0],
                  root_history |-> [k \in 1 .. ROOT_HISTORY_SIZE |-> ZERO], nodes |-> empty]
    BY DEF create_initialized_main_account_data
  <1>2. DOMAIN empty = {}
    OBVIOUS
  <1> HIDE DEF new, empty
  <1>3. ASSUME NEW n \in Nodes PROVE Read(empty, n) = DEFAULT_HASHES[n[1]]
    BY <1>2 DEF Read, read_sparse_node
  <1>4. LeavesOf(empty) = [i \in Indices |-> ZERO]
    <2>1. ASSUME NEW i \in Indices PROVE Read(empty, Leaf(i)) = ZERO
      <3>1. Leaf(i) \in Nodes /\ Leaf(i)[1] = TREE_DEPTH
        BY Ends DEF Leaf
      <3>2. QED
        BY <1>3, <3>1, DefaultHashes
    <2>2. QED
      BY <2>1 DEF LeavesOf
  <1>5. Sound(empty)
    <2>1. Within(empty)
      BY <1>2 DEF Within
    <2>2. ASSUME NEW n \in Nodes, n[1] < TREE_DEPTH PROVE Hashed(TreeOf(empty), n)
      <3>1. Left(n) \in Nodes /\ Right(n) \in Nodes /\ n[1] \in 0 .. TREE_DEPTH
        BY <2>2, Kin, NodeParts
      <3>2. Left(n)[1] = n[1] + 1 /\ Right(n)[1] = n[1] + 1
        BY DEF Left, Right
      <3>3. /\ Read(empty, n) = DEFAULT_HASHES[n[1]]
            /\ Read(empty, Left(n)) = DEFAULT_HASHES[n[1] + 1]
            /\ Read(empty, Right(n)) = DEFAULT_HASHES[n[1] + 1]
        BY <1>3, <3>1, <3>2
      <3>4. DEFAULT_HASHES[n[1]] = hash_pair(DEFAULT_HASHES[n[1] + 1], DEFAULT_HASHES[n[1] + 1])
        BY <2>2, <3>1, DefaultHashes
      <3>5. QED
        BY <3>1, <3>3, <3>4 DEF Hashed, TreeOf
    <2>3. ASSUME NEW i \in Indices PROVE TreeOf(empty)[Leaf(i)] = LeavesOf(empty)[i]
      BY Ends DEF TreeOf, LeavesOf
    <2>4. QED
      BY <2>1, <2>2, <2>3 DEF Sound, IsTree
  <1>6. DEFAULT_HASHES[0] = TreeOf(empty)[Root]
    <2>1. Root \in Nodes /\ Root[1] = 0
      BY Ends DEF Root
    <2>2. QED
      BY <1>3, <2>1 DEF TreeOf
  <1>7. 0 \in 0 .. TREE_LEAVES
    <2>1. TREE_DEPTH \in 0 .. (TREE_DEPTH + 1)
      BY OffsetAssumption
    <2>2. QED
      BY <2>1, OneShlPositive DEF TREE_LEAVES
  <1>8. /\ new.next_index = 0 /\ new.root = DEFAULT_HASHES[0] /\ new.nodes = empty
        /\ new.root_history = [k \in 1 .. ROOT_HISTORY_SIZE |-> ZERO]
    BY <1>1
  <1>9. IsShard(new)
    BY <1>1, <1>5, <1>6, <1>7, <1>8 DEF IsShard
  <1>10. QED
    BY <1>4, <1>8, <1>9 DEF new

\* An insertion.
LEMMA InsertLeaf ==
  ASSUME NEW s, IsShard(s), s.next_index < TREE_LEAVES, NEW leaf
  PROVE  LET new == [update_leaf(s, s.next_index, leaf) EXCEPT !.next_index = @ + 1]
         IN  /\ s.next_index \in Indices
             /\ IsShard(new)
             /\ new.next_index = s.next_index + 1
             /\ Pushed(s, new)
             /\ LeavesOf(new.nodes) = [LeavesOf(s.nodes) EXCEPT ![s.next_index] = leaf]
  <1> DEFINE u == update_leaf(s, s.next_index, leaf)
             new == [u EXCEPT !.next_index = @ + 1]
  <1>1. TREE_LEAVES \in Nat
    <2>1. TREE_DEPTH \in 0 .. (TREE_DEPTH + 1)
      BY OffsetAssumption
    <2>2. QED
      BY <2>1, OneShlPositive DEF TREE_LEAVES
  <1>2. s.next_index \in Nat /\ s.next_index \in Indices /\ s.next_index + 1 \in 0 .. TREE_LEAVES
    BY <1>1 DEF IsShard, Indices
  <1>3. /\ IsShard(u)
        /\ u.next_index = s.next_index
        /\ Pushed(s, u)
        /\ LeavesOf(u.nodes) = [LeavesOf(s.nodes) EXCEPT ![s.next_index] = leaf]
    BY <1>2, UpdateLeaf
  <1> HIDE DEF u
  <1>4. new = [next_index |-> s.next_index + 1, root |-> u.root,
               root_history |-> u.root_history, nodes |-> u.nodes]
    <2>1. u = [next_index |-> s.next_index, root |-> u.root,
               root_history |-> u.root_history, nodes |-> u.nodes]
      BY <1>3 DEF IsShard
    <2>2. QED
      BY <2>1
  <1> HIDE DEF new
  <1>5. /\ new.next_index = s.next_index + 1 /\ new.root = u.root
        /\ new.root_history = u.root_history /\ new.nodes = u.nodes
    BY <1>4
  <1>6. IsShard(new)
    BY <1>2, <1>3, <1>4, <1>5 DEF IsShard
  <1>7. QED
    BY <1>2, <1>3, <1>5, <1>6 DEF new, u, Pushed

-----------------------------------------------------------------------------
(* The instructions.                                                       *)

MInv == shard = Empty \/ IsShard(shard)

\* A shard with no data becomes a live one.
LEMMA MInitial ==
  Init => MInv
  BY DEF Init, MInv

\* Every instruction leaves a live shard.
LEMMA MNextStep ==
  MInv /\ [apply]_shard => MInv'
  <1> SUFFICES ASSUME MInv, [apply]_shard PROVE MInv'
    OBVIOUS
  <1>1. CASE initialize_tree
    <2>1. IsShard(shard')
      BY <1>1, NewShard DEF initialize_tree
    <2>2. QED
      BY <2>1 DEF MInv
  <1>2. ASSUME NEW leaf \in FieldElements, insert_leaf(leaf) PROVE MInv'
    <2>1. IsShard(shard) /\ shard.next_index < TREE_LEAVES
      BY <1>2 DEF MInv, insert_leaf
    <2>2. IsShard(shard')
      BY <1>2, <2>1, InsertLeaf DEF insert_leaf
    <2>3. QED
      BY <2>2 DEF MInv
  <1>3. ASSUME NEW i \in Indices, NEW leaf \in FieldElements, remove_leaf(i, leaf) PROVE MInv'
    <2>1. IsShard(shard)
      BY <1>3 DEF MInv, remove_leaf
    <2>2. IsShard(shard')
      BY <1>3, <2>1, UpdateLeaf DEF remove_leaf
    <2>3. QED
      BY <2>2 DEF MInv
  <1>4. ASSUME NEW i \in Indices, NEW leaf \in FieldElements, set_leaf(i, leaf) PROVE MInv'
    <2>1. IsShard(shard)
      BY <1>4 DEF MInv, set_leaf
    <2>2. IsShard(shard')
      BY <1>4, <2>1, UpdateLeaf DEF set_leaf
    <2>3. QED
      BY <2>2 DEF MInv
  <1>5. CASE UNCHANGED shard
    BY <1>5 DEF MInv
  <1>6. QED
    BY <1>1, <1>2, <1>3, <1>4, <1>5 DEF apply

\* Along every sequence of instructions the shard is live and sound.
THEOREM TreeInvariance ==
  Spec => []MInv
  BY MInitial, MNextStep, PTL DEF Spec

\* TypeOK: a live tree keeps a full root history, a next_index no further than
\* one past the last leaf, and no node outside the tree.
THEOREM TreeTypeCorrect ==
  Spec => []TypeOK
  <1>1. MInv => TypeOK
    <2> SUFFICES ASSUME IsShard(shard)
                 PROVE  /\ shard.next_index \in 0 .. TREE_LEAVES
                        /\ Len(shard.root_history) = ROOT_HISTORY_SIZE
                        /\ DOMAIN shard.nodes \subseteq 0 .. (TREE_NODES - 1)
      BY DEF MInv, TypeOK
    <2> DEFINE history == shard.root_history
               All == {history[k] : k \in 1 .. ROOT_HISTORY_SIZE}
    <2>1. history \in [1 .. ROOT_HISTORY_SIZE -> All]
      BY DEF IsShard
    <2> HIDE DEF history, All
    <2>2. Len(history) = ROOT_HISTORY_SIZE
      BY <2>1, DepthAssumption
    <2>3. QED
      BY <2>2 DEF IsShard, Sound, Within, history
  <1>2. QED
    BY <1>1, TreeInvariance, PTL

\* NodesMatchLeaves: the header's root and every stored or defaulted node are
\* the hashes of the leaves below them, after any sequence of inserts, removals
\* and refills of a tree of any depth.
THEOREM NodesCorrect ==
  Spec => []NodesMatchLeaves
  <1>1. MInv => NodesMatchLeaves
    <2> SUFFICES ASSUME IsShard(shard)
                 PROVE  LET reference == Subtree(leaves)
                        IN  /\ shard.root = reference[<<0, 0>>]
                            /\ \A n \in Nodes :
                                  read_sparse_node(shard.nodes, n[1], n[2]) = reference[n]
      BY DEF MInv, NodesMatchLeaves
    <2> DEFINE t == TreeOf(shard.nodes)
    <2>1. leaves = LeavesOf(shard.nodes)
      BY DEF leaves, LeavesOf, Read, Leaf
    <2>2. t = [n \in Nodes |-> t[n]]
      BY DEF TreeOf
    <2>3. IsTree(t, leaves)
      BY <2>1 DEF IsShard, Sound
    <2>4. Subtree(leaves) = t
      <3> HIDE DEF t
      <3>1. QED
        BY <2>2, <2>3, SubtreeIsTree
    <2>5. QED
      BY <2>4 DEF IsShard, TreeOf, Read, Root
  <1>2. QED
    BY <1>1, TreeInvariance, PTL

\* What holds a tree is not what holds no data.
EmptyIsNoTree ==
    /\ \A i, r, h, n : [next_index |-> i, root |-> r, root_history |-> h, nodes |-> n] # Empty
    /\ \A i, l : [next_index |-> i, leaves |-> l] # Empty

\* A live shard stands for its leaves.
LEMMA LiveView ==
  ASSUME EmptyIsNoTree, NEW s, IsShard(s)
  PROVE  s # Empty
  BY DEF IsShard, EmptyIsNoTree

\* ImplementsLeafVector: the instructions on header, history and node map do to
\* the leaves what the instructions of a plain vector of leaves do, which is
\* what Registry and TxExec take a tree to be.
THEOREM VectorRefinement ==
  ASSUME EmptyIsNoTree
  PROVE  Spec => ImplementsLeafVector
  <1> DEFINE view == IF shard = Empty THEN Empty
                     ELSE [next_index |-> shard.next_index, leaves |-> leaves]
  <1>1. Init => Abstract!Init
    BY DEF Init, Abstract!Init
  <1>2. MInv /\ [apply]_shard => [Abstract!Next]_view
    <2> SUFFICES ASSUME MInv, [apply]_shard PROVE [Abstract!Next]_view
      OBVIOUS
    <2>1. leaves = LeavesOf(shard.nodes) /\ leaves' = LeavesOf(shard'.nodes)
      BY DEF leaves, LeavesOf, Read, Leaf
    <2>2. Abstract!Indices = Indices
      BY DEF Indices, Abstract!Indices
    <2>3. CASE initialize_tree
      <3>1. /\ shard = Empty /\ IsShard(shard') /\ shard'.next_index = 0
            /\ leaves' = [i \in Indices |-> ZERO]
        BY <2>1, <2>3, NewShard DEF initialize_tree
      <3>2. shard' # Empty
        BY <3>1, LiveView
      <3>3. Abstract!Initialize
        BY <2>2, <3>1, <3>2 DEF Abstract!Initialize
      <3>4. QED
        BY <3>3 DEF Abstract!Next
    <2>4. ASSUME NEW leaf \in FieldElements, insert_leaf(leaf) PROVE Abstract!Next
      <3>1. shard # Empty /\ IsShard(shard) /\ shard.next_index < TREE_LEAVES
        BY <2>4 DEF MInv, insert_leaf
      <3>2. /\ IsShard(shard') /\ shard'.next_index = shard.next_index + 1
            /\ leaves' = [leaves EXCEPT ![shard.next_index] = leaf]
        BY <2>1, <2>4, <3>1, InsertLeaf DEF insert_leaf
      <3>3. shard' # Empty
        BY <3>2, LiveView
      <3>4. /\ view = [next_index |-> shard.next_index, leaves |-> leaves]
            /\ view' = [next_index |-> shard.next_index + 1,
                        leaves |-> [leaves EXCEPT ![shard.next_index] = leaf]]
            /\ view # Empty
        BY <3>1, <3>2, <3>3 DEF EmptyIsNoTree
      <3>5. Abstract!Insert(leaf)
        BY <3>1, <3>4 DEF Abstract!Insert
      <3>6. QED
        BY <3>5 DEF Abstract!Next
    <2>5. ASSUME NEW i \in Indices, NEW leaf \in FieldElements, remove_leaf(i, leaf)
          PROVE  Abstract!Next
      <3>1. shard # Empty /\ IsShard(shard) /\ i < shard.next_index /\ leaves[i] = leaf
        BY <2>5 DEF MInv, remove_leaf, leaves
      <3>2. /\ IsShard(shard') /\ shard'.next_index = shard.next_index
            /\ leaves' = [leaves EXCEPT ![i] = ZERO]
        <4>1. shard' = update_leaf(shard, i, ZERO)
          BY <2>5 DEF remove_leaf
        <4>2. /\ IsShard(shard') /\ shard'.next_index = shard.next_index
              /\ LeavesOf(shard'.nodes) = [LeavesOf(shard.nodes) EXCEPT ![i] = ZERO]
          BY <3>1, <4>1, UpdateLeaf
        <4>3. QED
          BY <2>1, <4>2
      <3>3. shard' # Empty
        BY <3>2, LiveView
      <3>4. /\ view = [next_index |-> shard.next_index, leaves |-> leaves]
            /\ view' = [next_index |-> shard.next_index, leaves |-> [leaves EXCEPT ![i] = ZERO]]
            /\ view # Empty
        BY <3>1, <3>2, <3>3 DEF EmptyIsNoTree
      <3>5. Abstract!Remove(i, leaf)
        BY <3>1, <3>4 DEF Abstract!Remove
      <3>6. QED
        BY <2>2, <3>5 DEF Abstract!Next
    <2>6. ASSUME NEW i \in Indices, NEW leaf \in FieldElements, set_leaf(i, leaf)
          PROVE  Abstract!Next
      <3>1. shard # Empty /\ IsShard(shard) /\ i < shard.next_index /\ leaves[i] = ZERO
        BY <2>6 DEF MInv, set_leaf, leaves
      <3>2. /\ IsShard(shard') /\ shard'.next_index = shard.next_index
            /\ leaves' = [leaves EXCEPT ![i] = leaf]
        <4>1. shard' = update_leaf(shard, i, leaf)
          BY <2>6 DEF set_leaf
        <4>2. /\ IsShard(shard') /\ shard'.next_index = shard.next_index
              /\ LeavesOf(shard'.nodes) = [LeavesOf(shard.nodes) EXCEPT ![i] = leaf]
          BY <3>1, <4>1, UpdateLeaf
        <4>3. QED
          BY <2>1, <4>2
      <3>3. shard' # Empty
        BY <3>2, LiveView
      <3>4. /\ view = [next_index |-> shard.next_index, leaves |-> leaves]
            /\ view' = [next_index |-> shard.next_index, leaves |-> [leaves EXCEPT ![i] = leaf]]
            /\ view # Empty
        BY <3>1, <3>2, <3>3 DEF EmptyIsNoTree
      <3>5. Abstract!Set(i, leaf)
        BY <3>1, <3>4 DEF Abstract!Set
      <3>6. QED
        BY <2>2, <3>5 DEF Abstract!Next
    <2>7. CASE UNCHANGED shard
      <3>1. view' = view
        BY <2>7 DEF leaves
      <3>2. QED
        BY <3>1
    <2>8. QED
      BY <2>3, <2>4, <2>5, <2>6, <2>7 DEF apply
  <1>3. QED
    BY <1>1, <1>2, TreeInvariance, PTL DEF Spec, ImplementsLeafVector, Abstract!Spec

-----------------------------------------------------------------------------
(* Members and verifiers.                                                  *)

\* Members and verifiers read the tree and leave it alone.
LEMMA ProofStepIsTreeStep ==
  [ProofNext]_proof_vars => [apply]_shard
  BY DEF ProofNext, proof_vars, TreeChanges, Locate, get_merkle_proof

\* With members at work the tree is still the merkle program's: all that is
\* proved of it holds of the tree they read.
THEOREM ProofsKeepTree ==
  ProofSpec => Spec
  <1>1. ProofInit => Init
    BY DEF ProofInit
  <1>2. QED
    BY <1>1, ProofStepIsTreeStep, PTL DEF ProofSpec, Spec

\* What an instruction does to a live tree's root, history and leaves.
LEMMA TreeStep ==
  ASSUME EmptyIsNoTree, MInv, apply
  PROVE  /\ IsShard(shard') /\ shard' # Empty
         /\ shard # Empty =>
               /\ IsShard(shard)
               /\ Pushed(shard, shard')
         /\ shard = Empty => shard'.root_history = [k \in 1 .. ROOT_HISTORY_SIZE |-> ZERO]
  <1>1. CASE initialize_tree
    <2>1. /\ shard = Empty /\ IsShard(shard')
          /\ shard'.root_history = [k \in 1 .. ROOT_HISTORY_SIZE |-> ZERO]
      BY <1>1, NewShard DEF initialize_tree
    <2>2. QED
      BY <2>1, LiveView
  <1>2. ASSUME NEW leaf \in FieldElements, insert_leaf(leaf)
        PROVE  shard # Empty /\ IsShard(shard) /\ IsShard(shard') /\ Pushed(shard, shard')
    <2>1. shard # Empty /\ IsShard(shard) /\ shard.next_index < TREE_LEAVES
      BY <1>2 DEF MInv, insert_leaf
    <2>2. QED
      BY <1>2, <2>1, InsertLeaf DEF insert_leaf
  <1>3. ASSUME NEW i \in Indices, NEW leaf, shard # Empty, shard' = update_leaf(shard, i, leaf)
        PROVE  shard # Empty /\ IsShard(shard) /\ IsShard(shard') /\ Pushed(shard, shard')
    <2>1. IsShard(shard)
      BY <1>3 DEF MInv
    <2>2. QED
      BY <1>3, <2>1, UpdateLeaf
  <1>4. apply => \/ initialize_tree
                 \/ \E leaf \in FieldElements : insert_leaf(leaf)
                 \/ \E i \in Indices, leaf \in FieldElements :
                       shard # Empty /\ (\/ shard' = update_leaf(shard, i, ZERO)
                                         \/ shard' = update_leaf(shard, i, leaf))
    BY DEF apply, remove_leaf, set_leaf
  <1>5. CASE ~initialize_tree
    <2>1. shard # Empty /\ IsShard(shard) /\ IsShard(shard') /\ Pushed(shard, shard')
      BY <1>2, <1>3, <1>4, <1>5
    <2>2. QED
      BY <2>1, LiveView
  <1>6. QED
    BY <1>1, <1>5

\* Poseidon of two field elements is not the empty leaf.
HashIsNotZero == \A left, right : hash_pair(left, right) # ZERO

\* The root of a live tree is a hash.
LEMMA RootIsHash ==
  ASSUME HashIsNotZero, NEW s, IsShard(s)
  PROVE  s.root # ZERO
  <1>1. Root \in Nodes /\ Root[1] = 0 /\ 0 < TREE_DEPTH
    BY Ends, OffsetAssumption, DepthAssumption DEF Root
  <1>2. Hashed(TreeOf(s.nodes), Root)
    BY <1>1 DEF IsShard, Sound, IsTree
  <1>3. QED
    BY <1>2 DEF IsShard, Hashed, HashIsNotZero

\* A held proof's root is where the history says, for as long as it reaches.
Window ==
    /\ target # None => shard # Empty
    /\ proof # None =>
          /\ shard # Empty
          /\ proof.root # ZERO
          /\ age \in Nat
          /\ age = 0 => proof.root = shard.root
          /\ age \in 1 .. ROOT_HISTORY_SIZE => proof.root = shard.root_history[age]

\* Every step moves the proof's root one slot on, or fetches a new one.
LEMMA WindowStep ==
  ASSUME EmptyIsNoTree, HashIsNotZero, MInv, Window, [ProofNext]_proof_vars
  PROVE  Window'
  <1>1. ROOT_HISTORY_SIZE \in Nat
    BY DepthAssumption
  <1>2. CASE TreeChanges
    <2>1. apply /\ target' = target /\ proof' = proof
      BY <1>2 DEF TreeChanges
    <2>2. /\ shard' # Empty
          /\ shard # Empty => Pushed(shard, shard')
      BY <2>1, TreeStep
    <2>3. ASSUME proof # None
          PROVE  /\ proof'.root # ZERO
                 /\ age' \in Nat
                 /\ age' = 0 => proof'.root = shard'.root
                 /\ age' \in 1 .. ROOT_HISTORY_SIZE => proof'.root = shard'.root_history[age']
      <3>1. /\ shard # Empty /\ proof.root # ZERO /\ age \in Nat
            /\ age = 0 => proof.root = shard.root
            /\ age \in 1 .. ROOT_HISTORY_SIZE => proof.root = shard.root_history[age]
        BY <2>3 DEF Window
      <3>2. age' = IF age < ROOT_HISTORY_SIZE + 1 THEN age + 1 ELSE age
        BY <1>2, <2>3 DEF TreeChanges, MaxAge
      <3>3. age' \in Nat /\ age' # 0
        BY <1>1, <3>1, <3>2
      <3>4. ASSUME age' \in 1 .. ROOT_HISTORY_SIZE PROVE proof.root = shard'.root_history[age']
        <4>1. age' = age + 1 /\ age' - 1 = age /\ (age # 0 => age \in 1 .. ROOT_HISTORY_SIZE)
          BY <1>1, <3>1, <3>2, <3>4
        <4>2. shard'.root_history[age'] = IF age' = 1 THEN shard.root ELSE shard.root_history[age' - 1]
          BY <2>2, <3>1, <3>4 DEF Pushed
        <4>3. QED
          BY <3>1, <4>1, <4>2
      <3>5. QED
        BY <2>1, <3>1, <3>3, <3>4
    <2>4. QED
      BY <2>1, <2>2, <2>3 DEF Window
  <1>3. CASE \E leaf \in FieldElements \ {ZERO} : Locate(leaf)
    BY <1>3 DEF Locate, Window
  <1>4. CASE get_merkle_proof
    <2>1. shard # Empty /\ shard' = shard /\ age' = 0
      BY <1>4 DEF get_merkle_proof, Window
    <2>2. shard.root # ZERO
      BY <2>1, RootIsHash DEF MInv
    <2>3. proof' = None \/ proof' = merkle_proof(target.index)
      BY <1>4 DEF get_merkle_proof
    <2>4. merkle_proof(target.index).root = shard.root
      BY DEF merkle_proof
    <2>5. QED
      BY <2>1, <2>2, <2>3, <2>4 DEF Window
  <1>5. CASE UNCHANGED proof_vars
    BY <1>5 DEF proof_vars, Window
  <1>6. QED
    BY <1>2, <1>3, <1>4, <1>5 DEF ProofNext

\* ProofSurvivesWindow: as many changes of the tree as the history has slots
\* may pass between fetching a proof and spending it, and the verifier that
\* reads the shard then still accepts its root.
THEOREM WindowCorrect ==
  ASSUME EmptyIsNoTree, HashIsNotZero
  PROVE  ProofSpec => []ProofSurvivesWindow
  <1>1. ProofInit => Window
    BY DEF ProofInit, Window
  <1>2. MInv /\ Window /\ [ProofNext]_proof_vars => Window'
    BY WindowStep
  <1>3. Window => ProofSurvivesWindow
    <2> SUFFICES ASSUME Window, proof # None, age <= ROOT_HISTORY_SIZE
                 PROVE  fold_root(proof.root) \in AcceptedRoots
      BY DEF ProofSurvivesWindow
    <2>1. proof.root \in fetch_root_history
      <3>1. CASE age = 0
        BY <3>1 DEF Window, fetch_root_history
      <3>2. CASE age # 0
        <4>1. age \in 1 .. ROOT_HISTORY_SIZE
          BY <3>2, DepthAssumption DEF Window
        <4>2. proof.root = shard.root_history[age] /\ proof.root # ZERO
          BY <4>1 DEF Window
        <4>3. QED
          BY <4>1, <4>2 DEF fetch_root_history
      <3>3. QED
        BY <3>1, <3>2
    <2>2. QED
      BY <2>1 DEF AcceptedRoots
  <1>4. QED
    BY <1>1, <1>2, <1>3, ProofsKeepTree, TreeInvariance, PTL DEF ProofSpec

-----------------------------------------------------------------------------
(* Folding.                                                                *)

\* The heights that fold_root climbs.
Climb(root) ==
    CHOOSE fold : fold = [height \in TREE_DEPTH .. CIRCUIT_DEPTH |->
        IF height = TREE_DEPTH THEN root
        ELSE hash_pair(fold[height - 1], zero_ladder[height - 1])]

\* fold_root makes that climb.
LEMMA FoldIsClimb ==
  ASSUME NEW root
  PROVE  fold_root(root) = Climb(root)[CIRCUIT_DEPTH]
  BY DEF fold_root, Climb

\* There is such a climb.
LEMMA ClimbExists ==
  ASSUME NEW root
  PROVE  /\ Climb(root)[TREE_DEPTH] = root
         /\ \A height \in TREE_DEPTH .. CIRCUIT_DEPTH : height # TREE_DEPTH =>
               Climb(root)[height] = hash_pair(Climb(root)[height - 1], zero_ladder[height - 1])
  <1> DEFINE D == TREE_DEPTH
             C == CIRCUIT_DEPTH
             Step(g, h) == IF h = D THEN root ELSE hash_pair(g[h - 1], zero_ladder[h - 1])
             Part(n, g) == \A h \in D .. C : h <= D + n => g[h] = Step(g, h)
             S == {n \in Nat : \E g : Part(n, g)}
  <1>1. D \in Nat /\ C \in Nat /\ D <= C
    BY OffsetAssumption, CircuitAssumption
  <1>2. 0 \in S
    <2> DEFINE g == [h \in D .. C |-> root]
    <2>1. Part(0, g)
      BY <1>1
    <2> HIDE DEF Part, g
    <2>2. QED
      BY <2>1
  <1>3. ASSUME NEW n \in Nat, n \in S PROVE n + 1 \in S
    <2>1. PICK g : Part(n, g)
      BY <1>3
    <2> DEFINE f == [h \in D .. C |-> IF h <= D + n THEN g[h] ELSE Step(g, h)]
    <2>2. ASSUME NEW h \in D .. C, h <= D + (n + 1) PROVE f[h] = Step(f, h)
      <3>1. f[h] = Step(g, h)
        BY <2>1
      <3>2. h # D => h - 1 \in D .. C /\ h - 1 <= D + n
        BY <1>1, <2>2
      <3>3. h # D => f[h - 1] = g[h - 1]
        BY <3>2
      <3> HIDE DEF f
      <3>4. QED
        BY <3>1, <3>3
    <2>3. Part(n + 1, f)
      BY <2>2
    <2> HIDE DEF Part, f
    <2>4. QED
      BY <2>3
  <1> HIDE DEF S
  <1>4. \A n \in Nat : n \in S
    BY <1>2, <1>3, Induction
  <1>5. PICK g : Part(C, g)
    BY <1>1, <1>4 DEF S
  <1> DEFINE f == [h \in D .. C |-> g[h]]
  <1>6. ASSUME NEW h \in D .. C PROVE f[h] = Step(f, h)
    <2>1. f[h] = Step(g, h)
      BY <1>1, <1>5
    <2>2. h # D => h - 1 \in D .. C
      BY <1>1
    <2>3. QED
      BY <2>1, <2>2
  <1>7. f = [h \in D .. C |-> f[h]]
    OBVIOUS
  <1> HIDE DEF f
  <1>8. f = [h \in D .. C |-> Step(f, h)]
    BY <1>6, <1>7
  <1> DEFINE fold == Climb(root)
  <1>9. fold = [h \in D .. C |-> Step(fold, h)]
    <2>1. \E s : s = [height \in TREE_DEPTH .. CIRCUIT_DEPTH |->
                        IF height = TREE_DEPTH THEN root
                        ELSE hash_pair(s[height - 1], zero_ladder[height - 1])]
      BY <1>8
    <2>2. QED
      BY <2>1 DEF Climb
  <1> HIDE DEF fold
  <1>10. ASSUME NEW h \in D .. C PROVE fold[h] = Step(fold, h)
    BY <1>9
  <1>11. D \in D .. C
    BY <1>1
  <1>12. QED
    BY <1>10, <1>11 DEF fold

\* A hash commits to what it hashes.
LEMMA PairInjective ==
  ASSUME NEW l1, NEW r1, NEW l2, NEW r2, hash_pair(l1, r1) = hash_pair(l2, r2)
  PROVE  l1 = l2 /\ r1 = r2
  BY DEF hash_pair

\* Different roots fold to different roots.
LEMMA FoldInjective ==
  ASSUME NEW r1, NEW r2, fold_root(r1) = fold_root(r2)
  PROVE  r1 = r2
  <1> DEFINE D == TREE_DEPTH
             C == CIRCUIT_DEPTH
             f1 == Climb(r1)
             f2 == Climb(r2)
             S == {n \in Nat : D <= C - n => f1[C - n] = f2[C - n]}
  <1>1. D \in Nat /\ C \in Nat /\ D <= C
    BY OffsetAssumption, CircuitAssumption
  <1>2. /\ f1[D] = r1 /\ f2[D] = r2
        /\ \A h \in D .. C : h # D => /\ f1[h] = hash_pair(f1[h - 1], zero_ladder[h - 1])
                                      /\ f2[h] = hash_pair(f2[h - 1], zero_ladder[h - 1])
    BY ClimbExists
  <1>3. f1[C] = f2[C]
    BY FoldIsClimb
  <1> HIDE DEF f1, f2
  <1>4. 0 \in S
    BY <1>1, <1>3
  <1>5. ASSUME NEW n \in Nat, n \in S PROVE n + 1 \in S
    <2>1. CASE D <= C - (n + 1)
      <3> DEFINE h == C - n
      <3>1. h \in D .. C /\ h # D /\ C - (n + 1) = h - 1 /\ f1[h] = f2[h]
        BY <1>1, <1>5, <2>1
      <3> HIDE DEF h
      <3>2. hash_pair(f1[h - 1], zero_ladder[h - 1]) = hash_pair(f2[h - 1], zero_ladder[h - 1])
        BY <1>2, <3>1
      <3>3. f1[h - 1] = f2[h - 1]
        BY <3>2, PairInjective
      <3>4. QED
        BY <3>1, <3>3
    <2>2. CASE ~(D <= C - (n + 1))
      BY <2>2
    <2>3. QED
      BY <2>1, <2>2
  <1> HIDE DEF S
  <1>6. \A n \in Nat : n \in S
    BY <1>4, <1>5, Induction
  <1>7. C - D \in S /\ C - (C - D) = D /\ D <= D
    BY <1>1, <1>6
  <1>8. f1[D] = f2[D]
    BY <1>7 DEF S
  <1>9. QED
    BY <1>2, <1>8

-----------------------------------------------------------------------------
(* Recent trees.                                                           *)

\* A root is the Merkle root of a vector of leaves.
Rooted(vector, root) ==
    \E t : /\ \A n \in Nodes : n[1] < TREE_DEPTH => Hashed(t, n)
           /\ \A i \in Indices : t[Leaf(i)] = vector[i]
           /\ t[Root] = root

\* A root commits to every leaf.
LEMMA RootCommits ==
  ASSUME NEW v, NEW w, NEW root, Rooted(v, root), Rooted(w, root), NEW i \in Indices
  PROVE  v[i] = w[i]
  <1> DEFINE Of(t, vector) == /\ \A n \in Nodes : n[1] < TREE_DEPTH => Hashed(t, n)
                              /\ \A j \in Indices : t[Leaf(j)] = vector[j]
                              /\ t[Root] = root
  <1>1. PICK s : Of(s, v)
    BY DEF Rooted
  <1>2. PICK t : Of(t, w)
    BY DEF Rooted
  <1> DEFINE S == {k \in Nat : \A n \in Nodes : n[1] <= k => s[n] = t[n]}
  <1>3. 0 \in S
    <2>1. ASSUME NEW n \in Nodes, n[1] <= 0 PROVE s[n] = t[n]
      <3>1. n[1] = 0
        BY <2>1, NodeParts
      <3>2. n = Root
        BY <3>1, Ends
      <3>3. QED
        BY <1>1, <1>2, <3>2
    <2>2. QED
      BY <2>1
  <1>4. ASSUME NEW k \in Nat, k \in S PROVE k + 1 \in S
    <2>1. ASSUME NEW n \in Nodes, n[1] <= k + 1 PROVE s[n] = t[n]
      <3>1. n[1] \in Nat /\ n[2] \in Nat
        BY NodeParts
      <3>2. CASE n[1] = 0
        BY <1>4, <3>2
      <3>3. CASE n[1] # 0
        <4> DEFINE p == Parent(n)
        <4>1. /\ p \in Nodes /\ p[1] < TREE_DEPTH
              /\ n[2] % 2 = 0 => n = Left(p)
              /\ n[2] % 2 # 0 => n = Right(p)
          BY <3>3, Kin
        <4>2. p[1] <= k
          BY <2>1, <3>1, <3>3 DEF Parent
        <4> HIDE DEF p
        <4>3. s[p] = t[p] /\ Hashed(s, p) /\ Hashed(t, p)
          BY <1>1, <1>2, <1>4, <4>1, <4>2
        <4>4. hash_pair(s[Left(p)], s[Right(p)]) = hash_pair(t[Left(p)], t[Right(p)])
          BY <4>3 DEF Hashed
        <4>5. s[Left(p)] = t[Left(p)] /\ s[Right(p)] = t[Right(p)]
          BY <4>4, PairInjective
        <4>6. QED
          BY <4>1, <4>5
      <3>4. QED
        BY <3>2, <3>3
    <2>2. QED
      BY <2>1
  <1> HIDE DEF S
  <1>5. \A k \in Nat : k \in S
    BY <1>3, <1>4, Induction
  <1>6. Leaf(i) \in Nodes /\ Leaf(i)[1] = TREE_DEPTH /\ TREE_DEPTH \in Nat
    BY Ends, OffsetAssumption DEF Leaf
  <1>7. s[Leaf(i)] = t[Leaf(i)]
    <2>1. TREE_DEPTH \in S /\ TREE_DEPTH <= TREE_DEPTH
      BY <1>5, <1>6
    <2>2. QED
      BY <1>6, <2>1 DEF S
  <1>8. QED
    BY <1>1, <1>2, <1>7

\* A live shard's root is that of its leaves.
LEMMA ShardRooted ==
  ASSUME NEW s, IsShard(s)
  PROVE  Rooted(LeavesOf(s.nodes), s.root)
  <1> DEFINE t == TreeOf(s.nodes)
  <1>1. /\ \A n \in Nodes : n[1] < TREE_DEPTH => Hashed(t, n)
        /\ \A i \in Indices : t[Leaf(i)] = LeavesOf(s.nodes)[i]
        /\ t[Root] = s.root
    BY DEF IsShard, Sound, IsTree
  <1> HIDE DEF t
  <1>2. QED
    BY <1>1 DEF Rooted

\* A list of at most MaxAge vectors.
IsList(list) ==
    /\ Len(list) \in 0 .. MaxAge
    /\ list = [k \in 1 .. Len(list) |-> list[k]]

\* A vector has joined a list at its front.
Joined(old, v, new) ==
    /\ Len(new) = IF Len(old) < MaxAge THEN Len(old) + 1 ELSE MaxAge
    /\ \A k \in 1 .. Len(new) : new[k] = IF k = 1 THEN v ELSE old[k - 1]

\* The newest leaves go to the front, and the oldest fall off.
LEMMA PushRecent ==
  ASSUME NEW list, IsList(list), NEW v,
         NEW new, new = SubSeq(<<v>> \o list, 1, IF Len(list) < MaxAge THEN Len(list) + 1 ELSE MaxAge)
  PROVE  IsList(new) /\ Joined(list, v, new)
  <1> DEFINE n == Len(list)
             All == {list[k] : k \in 1 .. n} \cup {v}
             all == <<v>> \o list
             m == IF n < MaxAge THEN n + 1 ELSE MaxAge
  <1>1. MaxAge \in Nat /\ MaxAge >= 1
    BY DepthAssumption DEF MaxAge
  <1>2. n \in Nat /\ n <= MaxAge
    BY <1>1 DEF IsList
  <1>3. list \in Seq(All) /\ v \in All
    <2>1. list \in [1 .. n -> All]
      BY DEF IsList
    <2> HIDE DEF All, n
    <2>2. list \in Seq(All)
      BY <1>2, <2>1
    <2>3. QED
      BY <2>2 DEF All
  <1> HIDE DEF All
  <1>4. /\ all \in Seq(All) /\ Len(all) = n + 1
        /\ \A k \in 1 .. (n + 1) : all[k] = IF k = 1 THEN v ELSE list[k - 1]
    BY <1>2, <1>3
  <1>5. m \in Nat /\ 1 <= m /\ m <= n + 1 /\ m <= MaxAge
    BY <1>1, <1>2
  <1>6. new = SubSeq(all, 1, m)
    OBVIOUS
  <1> HIDE DEF all, m
  <1>7. new \in Seq(All) /\ Len(new) = m /\ \A k \in 1 .. m : new[k] = all[k]
    <2> DEFINE front == SubSeq(all, 1, m)
    <2>1. m <= Len(all)
      BY <1>4, <1>5
    <2>2. front \in Seq(All) /\ Len(front) = m /\ \A k \in 1 .. m : front[k] = all[k]
      BY <1>4, <1>5, <2>1
    <2>3. QED
      BY <1>6, <2>2
  <1>8. new = [k \in 1 .. Len(new) |-> new[k]]
    BY <1>7
  <1>9. \A k \in 1 .. m : new[k] = IF k = 1 THEN v ELSE list[k - 1]
    BY <1>2, <1>4, <1>5, <1>7
  <1>10. QED
    BY <1>1, <1>5, <1>7, <1>8, <1>9 DEF IsList, Joined, m

\* A set of indices has a newest.
LEMMA Newest ==
  ASSUME NEW T, T \subseteq Indices, T # {}
  PROVE  \E m \in T : \A j \in T : j <= m
  <1> DEFINE L == TREE_LEAVES
             Max == \E m \in T : \A j \in T : j <= m
             S == {k \in Nat : (\E x \in T : L - x <= k) => Max}
  <1>1. L \in Nat
    <2>1. TREE_DEPTH \in 0 .. (TREE_DEPTH + 1)
      BY OffsetAssumption
    <2>2. QED
      BY <2>1, OneShlPositive DEF TREE_LEAVES
  <1>2. ASSUME NEW x \in T PROVE x \in Nat /\ x < L
    BY <1>1 DEF Indices
  <1>3. 0 \in S
    BY <1>1, <1>2
  <1>4. ASSUME NEW k \in Nat, k \in S PROVE k + 1 \in S
    <2>1. ASSUME NEW x \in T, L - x <= k + 1 PROVE Max
      <3>1. CASE \E y \in T : x < y
        <4>1. PICK y \in T : x < y
          BY <3>1
        <4>2. L - y <= k
          BY <1>1, <1>2, <2>1, <4>1
        <4>3. QED
          BY <1>4, <4>2
      <3>2. CASE ~(\E y \in T : x < y)
        <4>1. \A j \in T : j <= x
          BY <1>2, <3>2
        <4>2. QED
          BY <4>1
      <3>3. QED
        BY <3>1, <3>2
    <2> HIDE DEF Max
    <2>2. QED
      BY <2>1
  <1> HIDE DEF S
  <1>5. \A k \in Nat : k \in S
    BY <1>3, <1>4, Induction
  <1>6. PICK x \in T : TRUE
    OBVIOUS
  <1>7. L \in S /\ L - x <= L
    BY <1>1, <1>2, <1>5
  <1>8. QED
    BY <1>7 DEF S

\* The roots that a verifier accepts are those of recent leaves, and a held
\* proof shows a leaf of a tree with the proof's root.
Recent ==
    /\ target # None => shard # Empty /\ target.index \in Indices
    /\ IsList(recent)
    /\ shard # Empty =>
          /\ Len(recent) >= 1 /\ Rooted(recent[1], shard.root)
          /\ \A k \in 1 .. ROOT_HISTORY_SIZE : shard.root_history[k] # ZERO =>
                k + 1 <= Len(recent) /\ Rooted(recent[k + 1], shard.root_history[k])
    /\ proof # None =>
          /\ shard # Empty
          /\ proof.leaf_index \in Indices
          /\ \E v : Rooted(v, proof.root) /\ v[proof.leaf_index] = proof.leaf

\* Every step keeps the accepted roots recent.
LEMMA RecentStep ==
  ASSUME EmptyIsNoTree, MInv, Recent, [ProofNext]_proof_vars
  PROVE  Recent'
  <1>1. ROOT_HISTORY_SIZE \in Nat /\ ROOT_HISTORY_SIZE >= 1 /\ MaxAge = ROOT_HISTORY_SIZE + 1
    BY DepthAssumption DEF MaxAge
  <1>2. CASE TreeChanges
    <2>1. apply /\ target' = target /\ proof' = proof
      BY <1>2 DEF TreeChanges
    <2>2. /\ shard' # Empty /\ IsShard(shard')
          /\ shard # Empty => Pushed(shard, shard')
          /\ shard = Empty => shard'.root_history = [k \in 1 .. ROOT_HISTORY_SIZE |-> ZERO]
      BY <2>1, TreeStep
    <2>3. leaves' = LeavesOf(shard'.nodes)
      BY DEF leaves, LeavesOf, Read, Leaf
    <2>4. Rooted(leaves', shard'.root)
      BY <2>2, <2>3, ShardRooted
    <2>5. /\ IsList(recent')
          /\ Len(recent') = IF Len(recent) < MaxAge THEN Len(recent) + 1 ELSE MaxAge
          /\ \A k \in 1 .. Len(recent') : recent'[k] = IF k = 1 THEN leaves' ELSE recent[k - 1]
      <3>1. IsList(recent)
        BY DEF Recent
      <3>2. recent' = SubSeq(<<leaves'>> \o recent, 1,
                             IF Len(recent) < MaxAge THEN Len(recent) + 1 ELSE MaxAge)
        BY <1>2 DEF TreeChanges
      <3>3. IsList(recent') /\ Joined(recent, leaves', recent')
        BY <3>1, <3>2, PushRecent
      <3>4. QED
        BY <3>3 DEF Joined
    <2>6. Len(recent) \in Nat /\ Len(recent) <= MaxAge
      BY <1>1 DEF Recent, IsList
    <2>7. Len(recent') >= 1 /\ Rooted(recent'[1], shard'.root)
      <3>1. Len(recent') \in Nat /\ Len(recent') >= 1
        BY <1>1, <2>5, <2>6
      <3>2. 1 \in 1 .. Len(recent')
        BY <3>1
      <3>3. QED
        BY <2>4, <2>5, <3>1, <3>2
    <2>8. ASSUME NEW k \in 1 .. ROOT_HISTORY_SIZE, shard'.root_history[k] # ZERO
          PROVE  k + 1 <= Len(recent') /\ Rooted(recent'[k + 1], shard'.root_history[k])
      <3>1. shard # Empty
        BY <2>2, <2>8
      <3>2. shard'.root_history[k] = IF k = 1 THEN shard.root ELSE shard.root_history[k - 1]
        BY <2>2, <3>1 DEF Pushed
      <3>3. k <= Len(recent) /\ Rooted(recent[k], shard'.root_history[k])
        <4>1. CASE k = 1
          BY <3>1, <3>2, <4>1 DEF Recent
        <4>2. CASE k # 1
          <5>1. k - 1 \in 1 .. ROOT_HISTORY_SIZE /\ k - 1 + 1 = k
            BY <1>1, <4>2
          <5>2. shard.root_history[k - 1] # ZERO
            BY <2>8, <3>2, <4>2
          <5>3. k - 1 + 1 <= Len(recent) /\ Rooted(recent[k - 1 + 1], shard.root_history[k - 1])
            BY <3>1, <5>1, <5>2 DEF Recent
          <5>4. QED
            BY <3>2, <4>2, <5>1, <5>3
        <4>3. QED
          BY <4>1, <4>2
      <3>4. k + 1 \in 1 .. Len(recent') /\ k + 1 # 1 /\ k + 1 - 1 = k /\ k + 1 <= Len(recent')
        BY <1>1, <2>5, <2>6, <3>3
      <3>5. recent'[k + 1] = recent[k]
        BY <2>5, <3>4
      <3>6. QED
        BY <3>3, <3>4, <3>5
    <2>9. ASSUME proof # None
          PROVE  /\ proof'.leaf_index \in Indices
                 /\ \E v : Rooted(v, proof'.root) /\ v[proof'.leaf_index] = proof'.leaf
      BY <2>1, <2>9 DEF Recent
    <2>10. target # None => target'.index \in Indices
      BY <2>1 DEF Recent
    <2>11. QED
      BY <2>1, <2>2, <2>5, <2>7, <2>8, <2>9, <2>10 DEF Recent
  <1>3. ASSUME NEW leaf \in FieldElements \ {ZERO}, Locate(leaf) PROVE Recent'
    <2> DEFINE at == {i \in Indices : /\ i < shard.next_index
                                      /\ node_hash(TREE_DEPTH, i) = leaf}
    <2>1. find_leaf_index(leaf) = IF at = {} THEN None
                                  ELSE CHOOSE i \in at : \A j \in at : j <= i
      BY DEF find_leaf_index
    <2>2. find_leaf_index(leaf) # None /\ shard # Empty /\ target'.index = find_leaf_index(leaf)
          /\ proof' = None /\ shard' = shard /\ recent' = recent
      BY <1>3 DEF Locate
    <2>3. at # {} /\ at \subseteq Indices
      BY <2>1, <2>2
    <2> HIDE DEF at
    <2>4. \E i \in at : \A j \in at : j <= i
      BY <2>3, Newest
    <2>5. (CHOOSE i \in at : \A j \in at : j <= i) \in at
      BY <2>4
    <2>6. find_leaf_index(leaf) \in Indices
      BY <2>1, <2>3, <2>5
    <2>7. QED
      BY <2>2, <2>6 DEF Recent
  <1>4. CASE get_merkle_proof
    <2>1. /\ shard # Empty /\ shard' = shard /\ recent' = recent /\ target.index \in Indices
          /\ target' = target \/ target' = None
      BY <1>4 DEF get_merkle_proof, Recent
    <2> DEFINE fetched == merkle_proof(target.index)
               v == LeavesOf(shard.nodes)
    <2>2. proof' = None \/ proof' = fetched
      BY <1>4 DEF get_merkle_proof
    <2>3. /\ fetched.root = shard.root /\ fetched.leaf_index = target.index
          /\ fetched.leaf = v[target.index]
      BY <2>1 DEF merkle_proof, node_hash, LeavesOf, Read, Leaf
    <2>4. Rooted(v, shard.root)
      BY <2>1, ShardRooted DEF MInv
    <2> HIDE DEF fetched, v
    <2>5. proof' # None => /\ proof'.leaf_index \in Indices
                           /\ Rooted(v, proof'.root) /\ v[proof'.leaf_index] = proof'.leaf
      BY <2>1, <2>2, <2>3, <2>4
    <2>6. QED
      BY <2>1, <2>5 DEF Recent
  <1>5. CASE UNCHANGED proof_vars
    BY <1>5 DEF proof_vars, Recent
  <1>6. QED
    BY <1>2, <1>3, <1>4, <1>5 DEF ProofNext

\* Along every run the tree is sound, and the accepted roots are recent.
THEOREM ProofInvariance ==
  ASSUME EmptyIsNoTree
  PROVE  ProofSpec => [](MInv /\ Recent)
  <1>1. ProofInit => Recent
    <2> SUFFICES ASSUME ProofInit PROVE Recent
      OBVIOUS
    <2>1. IsList(recent)
      <3>1. MaxAge \in Nat
        BY DepthAssumption DEF MaxAge
      <3>2. recent = <<>> /\ Len(recent) = 0
        BY DEF ProofInit
      <3>3. QED
        BY <3>1, <3>2 DEF IsList
    <2>2. QED
      BY <2>1 DEF ProofInit, Init, Recent
  <1>2. MInv /\ Recent /\ [ProofNext]_proof_vars => Recent'
    BY RecentStep
  <1>3. QED
    BY <1>1, <1>2, ProofsKeepTree, TreeInvariance, PTL DEF ProofSpec

\* AcceptedProofIsRecent: a root that a verifier accepts is one the tree had at
\* most ROOT_HISTORY_SIZE changes ago, and an accepted proof's leaf was at its
\* index then: the proofs of a slashed or erased member lapse with the window.
THEOREM RecentCorrect ==
  ASSUME EmptyIsNoTree
  PROVE  ProofSpec => []AcceptedProofIsRecent
  <1>1. Recent => AcceptedProofIsRecent
    <2> SUFFICES ASSUME Recent, proof # None, fold_root(proof.root) \in AcceptedRoots
                 PROVE  \E k \in 1 .. Len(recent) : recent[k][proof.leaf_index] = proof.leaf
      BY DEF AcceptedProofIsRecent
    <2>1. PICK r \in fetch_root_history : fold_root(proof.root) = fold_root(r)
      BY DEF AcceptedRoots
    <2>2. proof.root = r
      BY <2>1, FoldInjective
    <2>3. shard # Empty /\ proof.leaf_index \in Indices /\ Len(recent) \in Nat
      BY DEF Recent, IsList
    <2>4. PICK v : Rooted(v, proof.root) /\ v[proof.leaf_index] = proof.leaf
      BY DEF Recent
    <2>5. PICK k \in 1 .. Len(recent) : Rooted(recent[k], r)
      <3>1. CASE r = shard.root
        <4>1. 1 \in 1 .. Len(recent) /\ Rooted(recent[1], shard.root)
          BY <2>3 DEF Recent
        <4>2. QED
          BY <3>1, <4>1
      <3>2. CASE r # shard.root
        <4>1. PICK k \in 1 .. ROOT_HISTORY_SIZE : r = shard.root_history[k] /\ r # ZERO
          BY <2>1, <3>2 DEF fetch_root_history
        <4>2. k + 1 <= Len(recent) /\ Rooted(recent[k + 1], r)
          BY <2>3, <4>1 DEF Recent
        <4>3. k + 1 \in 1 .. Len(recent)
          BY <2>3, <4>2
        <4>4. QED
          BY <4>2, <4>3
      <3>3. QED
        BY <3>1, <3>2
    <2>6. recent[k][proof.leaf_index] = v[proof.leaf_index]
      BY <2>2, <2>3, <2>4, <2>5, RootCommits
    <2>7. QED
      BY <2>4, <2>6
  <1>2. QED
    BY <1>1, ProofInvariance, PTL

-----------------------------------------------------------------------------
(* Paths.                                                                  *)

\* The hashes that the circuit derives along a path.
Up(leaf, path) ==
    CHOOSE up : up = [k \in 0 .. Len(path) |->
        IF k = 0 THEN leaf
        ELSE IF path[k].right = 0 THEN hash_pair(up[k - 1], path[k].element)
                                  ELSE hash_pair(path[k].element, up[k - 1])]

\* The circuit's root is the last of them.
LEMMA CircuitIsUp ==
  ASSUME NEW leaf, NEW path
  PROVE  circuit_root(leaf, path) = Up(leaf, path)[Len(path)]
  BY DEF circuit_root, Up

\* There are such hashes.
LEMMA UpExists ==
  ASSUME NEW leaf, NEW path, Len(path) \in Nat
  PROVE  /\ Up(leaf, path)[0] = leaf
         /\ \A k \in 1 .. Len(path) :
               Up(leaf, path)[k] =
                  IF path[k].right = 0 THEN hash_pair(Up(leaf, path)[k - 1], path[k].element)
                                       ELSE hash_pair(path[k].element, Up(leaf, path)[k - 1])
  <1> DEFINE L == Len(path)
             Step(g, k) == IF k = 0 THEN leaf
                           ELSE IF path[k].right = 0 THEN hash_pair(g[k - 1], path[k].element)
                                                     ELSE hash_pair(path[k].element, g[k - 1])
             Part(n, g) == \A k \in 0 .. L : k <= n => g[k] = Step(g, k)
             S == {n \in Nat : \E g : Part(n, g)}
  <1>1. 0 \in S
    <2> DEFINE g == [k \in 0 .. L |-> leaf]
    <2>1. Part(0, g)
      OBVIOUS
    <2> HIDE DEF Part, g
    <2>2. QED
      BY <2>1
  <1>2. ASSUME NEW n \in Nat, n \in S PROVE n + 1 \in S
    <2>1. PICK g : Part(n, g)
      BY <1>2
    <2> DEFINE f == [k \in 0 .. L |-> IF k <= n THEN g[k] ELSE Step(g, k)]
    <2>2. ASSUME NEW k \in 0 .. L, k <= n + 1 PROVE f[k] = Step(f, k)
      <3>1. f[k] = Step(g, k)
        BY <2>1
      <3>2. k # 0 => k - 1 \in 0 .. L /\ k - 1 <= n
        BY <2>2
      <3>3. k # 0 => f[k - 1] = g[k - 1]
        BY <3>2
      <3> HIDE DEF f
      <3>4. QED
        BY <3>1, <3>3
    <2>3. Part(n + 1, f)
      BY <2>2
    <2> HIDE DEF Part, f
    <2>4. QED
      BY <2>3
  <1> HIDE DEF S
  <1>3. \A n \in Nat : n \in S
    BY <1>1, <1>2, Induction
  <1>4. PICK g : Part(L, g)
    BY <1>3 DEF S
  <1> DEFINE f == [k \in 0 .. L |-> g[k]]
  <1>5. ASSUME NEW k \in 0 .. L PROVE f[k] = Step(f, k)
    <2>1. f[k] = Step(g, k)
      BY <1>4
    <2>2. k # 0 => k - 1 \in 0 .. L
      OBVIOUS
    <2>3. QED
      BY <2>1, <2>2
  <1>6. f = [k \in 0 .. L |-> f[k]]
    OBVIOUS
  <1> HIDE DEF f
  <1>7. f = [k \in 0 .. L |-> Step(f, k)]
    BY <1>5, <1>6
  <1> DEFINE up == Up(leaf, path)
  <1>8. up = [k \in 0 .. L |-> Step(up, k)]
    <2>1. \E s : s = [k \in 0 .. Len(path) |->
                        IF k = 0 THEN leaf
                        ELSE IF path[k].right = 0 THEN hash_pair(s[k - 1], path[k].element)
                                                  ELSE hash_pair(path[k].element, s[k - 1])]
      BY <1>7
    <2>2. QED
      BY <2>1 DEF Up
  <1> HIDE DEF up
  <1>9. ASSUME NEW k \in 0 .. L PROVE up[k] = Step(up, k)
    BY <1>8
  <1>10. 0 \in 0 .. L /\ \A k \in 1 .. L : k \in 0 .. L /\ k # 0
    OBVIOUS
  <1>11. QED
    BY <1>9, <1>10 DEF up

\* A function over 1 .. n is a list of length n.
LEMMA ListLength ==
  ASSUME NEW n \in Nat, NEW f, f = [k \in 1 .. n |-> f[k]]
  PROVE  Len(f) = n
  <1> DEFINE All == {f[k] : k \in 1 .. n}
  <1>1. f \in [1 .. n -> All]
    OBVIOUS
  <1> HIDE DEF All
  <1>2. QED
    BY <1>1

\* One step of a path leads from a node to its parent.
LEMMA PathStep ==
  ASSUME NEW t, \A n \in Nodes : n[1] < TREE_DEPTH => Hashed(t, n),
         NEW m \in Nodes, m[1] # 0,
         NEW other, other = <<m[1], sibling(m[2])>>
  PROVE  /\ Parent(m) \in Nodes
         /\ t[Parent(m)] = IF m[2] % 2 = 0 THEN hash_pair(t[m], t[other]) ELSE hash_pair(t[other], t[m])
         /\ other \in Nodes
  <1> DEFINE p == Parent(m)
  <1>1. /\ p \in Nodes /\ p[1] < TREE_DEPTH
        /\ m[2] % 2 = 0 => m = Left(p)
        /\ m[2] % 2 # 0 => m = Right(p)
    BY Kin
  <1>2. m = <<m[1], m[2]>> /\ m[1] \in Nat /\ m[2] \in Nat
    BY NodeParts
  <1>3. p[1] = m[1] - 1 /\ p[2] = m[2] \div 2
    BY DEF Parent
  <1> HIDE DEF p
  <1>4. Hashed(t, p) /\ Left(p) \in Nodes /\ Right(p) \in Nodes
    BY <1>1, Kin
  <1>5. CASE m[2] % 2 = 0
    <2>1. Right(p) = other
      <3>1. 2 * (m[2] \div 2) + 1 = m[2] + 1 /\ m[1] - 1 + 1 = m[1]
        BY <1>2, <1>5
      <3>2. QED
        BY <1>3, <1>5, <3>1 DEF Right, sibling
    <2>2. QED
      BY <1>1, <1>4, <1>5, <2>1 DEF Hashed, p
  <1>6. CASE m[2] % 2 # 0
    <2>1. Left(p) = other
      <3>1. 2 * (m[2] \div 2) = m[2] - 1 /\ m[1] - 1 + 1 = m[1]
        BY <1>2, <1>6
      <3>2. QED
        BY <1>3, <1>6, <3>1 DEF Left, sibling
    <2>2. QED
      BY <1>1, <1>4, <1>6, <2>1 DEF Hashed, p
  <1>7. QED
    BY <1>5, <1>6

\* The node that a leaf's path passes after k steps.
Ancestor(leaf_index, k) == <<TREE_DEPTH - k, leaf_index \div one_shl[k]>>

\* A leaf's ancestors are nodes, each the parent of the one before.
LEMMA Ancestors ==
  ASSUME NEW i \in Indices
  PROVE  /\ Ancestor(i, 0) = Leaf(i)
         /\ \A k \in 0 .. TREE_DEPTH : Ancestor(i, k) \in Nodes
         /\ \A k \in 1 .. TREE_DEPTH : Ancestor(i, k) = Parent(Ancestor(i, k - 1))
  <1> DEFINE D == TREE_DEPTH
             S == {k \in Nat : k <= D => Ancestor(i, k) \in Nodes}
  <1>1. D \in Nat
    BY OffsetAssumption
  <1>2. i \in Nat
    <2>1. Leaf(i) \in Nodes /\ Leaf(i)[2] = i
      BY Ends DEF Leaf
    <2>2. QED
      BY <2>1, NodeParts
  <1>3. Ancestor(i, 0) = Leaf(i)
    <2>1. one_shl[0] = 1 /\ i \div 1 = i /\ D - 0 = D
      BY <1>1, <1>2, OneShl
    <2>2. QED
      BY <2>1 DEF Ancestor, Leaf
  <1>4. ASSUME NEW k \in Nat, k + 1 <= D PROVE Ancestor(i, k + 1) = Parent(Ancestor(i, k))
    <2>1. k \in 0 .. D /\ k \in 0 .. (D + 1)
      BY <1>1, <1>4
    <2>2. one_shl[k + 1] = 2 * one_shl[k] /\ one_shl[k] \in Nat \ {0}
      BY <2>1, OneShl, OneShlPositive
    <2>3. ASSUME NEW x \in Nat, NEW m \in Nat \ {0} PROVE (x \div m) \div 2 = x \div (2 * m)
      OBVIOUS
    <2>4. i \div one_shl[k + 1] = (i \div one_shl[k]) \div 2
      BY <1>2, <2>2, <2>3
    <2>5. D - (k + 1) = D - k - 1
      BY <1>1
    <2>6. QED
      BY <2>4, <2>5 DEF Ancestor, Parent
  <1>5. 0 \in S
    BY <1>3, Ends
  <1>6. ASSUME NEW k \in Nat, k \in S PROVE k + 1 \in S
    <2>1. CASE k + 1 <= D
      <3>1. Ancestor(i, k) \in Nodes /\ Ancestor(i, k)[1] = D - k
        BY <1>1, <1>6, <2>1 DEF Ancestor
      <3>2. Ancestor(i, k)[1] # 0
        BY <1>1, <2>1, <3>1
      <3>3. Parent(Ancestor(i, k)) \in Nodes
        BY <3>1, <3>2, Kin
      <3>4. QED
        BY <1>4, <2>1, <3>3
    <2>2. CASE ~(k + 1 <= D)
      BY <2>2
    <2>3. QED
      BY <2>1, <2>2
  <1> HIDE DEF S
  <1>7. \A k \in Nat : k \in S
    BY <1>5, <1>6, Induction
  <1>8. ASSUME NEW k \in 0 .. D PROVE Ancestor(i, k) \in Nodes
    BY <1>1, <1>7 DEF S
  <1>9. ASSUME NEW k \in 1 .. D PROVE Ancestor(i, k) = Parent(Ancestor(i, k - 1))
    <2>1. k - 1 \in Nat /\ k - 1 + 1 = k /\ k <= D
      BY <1>1
    <2>2. QED
      BY <1>4, <2>1
  <1>10. QED
    BY <1>3, <1>8, <1>9

\* The circuit's root of a proof's padded path is its root, folded.
Meets(fetched) == circuit_root(fetched.leaf, pad_path(fetched.path)) = fold_root(fetched.root)

\* So it is for every leaf of a live tree, when the proof is made.
LEMMA FetchedMeets ==
  ASSUME IsShard(shard), NEW i \in Indices
  PROVE  Meets(merkle_proof(i))
  <1> DEFINE D == TREE_DEPTH
             C == CIRCUIT_DEPTH
             t == TreeOf(shard.nodes)
             path == path_of(i)
             padded == pad_path(path)
             up == Up(t[Leaf(i)], padded)
             fold == Climb(shard.root)
  <1>1. D \in Nat /\ C \in Nat /\ D <= C
    BY OffsetAssumption, CircuitAssumption
  <1>2. /\ \A n \in Nodes : n[1] < D => Hashed(t, n)
        /\ t[Root] = shard.root
    BY DEF IsShard, Sound, IsTree
  <1>3. /\ Ancestor(i, 0) = Leaf(i)
        /\ \A k \in 0 .. D : Ancestor(i, k) \in Nodes
        /\ \A k \in 1 .. D : Ancestor(i, k) = Parent(Ancestor(i, k - 1))
    BY Ancestors
  <1>4. \A n \in Nodes : Read(shard.nodes, n) = t[n]
    BY DEF TreeOf
  <1>5. path = [k \in 1 .. D |->
                  [element |-> node_hash(D - k + 1, sibling(i \div one_shl[k - 1])),
                   right |-> (i \div one_shl[k - 1]) % 2]]
    BY DEF path_of
  <1>6. Len(path) = D
    <2>1. path = [k \in 1 .. D |-> path[k]]
      BY <1>5
    <2> HIDE DEF path
    <2>2. QED
      BY <1>1, <2>1, ListLength
  <1>7. padded = [k \in 1 .. C |-> IF k <= D THEN path[k]
                                   ELSE [element |-> zero_ladder[k - 1], right |-> 0]]
    <2> HIDE DEF path
    <2>1. QED
      BY <1>6 DEF pad_path
  <1> HIDE DEF path, padded
  <1>8. Len(padded) = C
    <2>1. padded = [k \in 1 .. C |-> padded[k]]
      BY <1>7
    <2>2. QED
      BY <1>1, <2>1, ListLength
  <1>9. /\ up[0] = t[Leaf(i)]
        /\ \A k \in 1 .. C :
              up[k] = IF padded[k].right = 0 THEN hash_pair(up[k - 1], padded[k].element)
                                             ELSE hash_pair(padded[k].element, up[k - 1])
    <2> HIDE DEF t
    <2>1. QED
      BY <1>1, <1>8, UpExists
  <1>10. /\ fold[D] = shard.root
         /\ \A h \in D .. C : h # D => fold[h] = hash_pair(fold[h - 1], zero_ladder[h - 1])
    BY ClimbExists
  <1> HIDE DEF up, fold, t
  <1>11. ASSUME NEW k \in 1 .. D, up[k - 1] = t[Ancestor(i, k - 1)] PROVE up[k] = t[Ancestor(i, k)]
    <2> DEFINE m == Ancestor(i, k - 1)
               other == <<m[1], sibling(m[2])>>
    <2>1. /\ k - 1 \in 0 .. D /\ D - (k - 1) = D - k + 1 /\ D - (k - 1) # 0
          /\ k \in 1 .. C /\ k <= D
      BY <1>1
    <2>2. m \in Nodes /\ m[1] = D - (k - 1) /\ m[2] = i \div one_shl[k - 1]
      BY <1>3, <2>1 DEF Ancestor
    <2>3. padded[k] = path[k]
      BY <1>7, <2>1
    <2>4. path[k].right = m[2] % 2 /\ path[k].element = node_hash(m[1], sibling(m[2]))
      BY <1>5, <2>1, <2>2
    <2>5. m[1] # 0
      BY <2>1, <2>2
    <2>6. Ancestor(i, k) = Parent(m)
      BY <1>3
    <2> HIDE DEF m
    <2>7. other[1] = m[1] /\ other[2] = sibling(m[2])
      OBVIOUS
    <2> HIDE DEF other
    <2>8. /\ t[Parent(m)] = IF m[2] % 2 = 0 THEN hash_pair(t[m], t[other]) ELSE hash_pair(t[other], t[m])
          /\ other \in Nodes
      BY <1>2, <2>2, <2>5, PathStep DEF other
    <2>9. node_hash(m[1], sibling(m[2])) = t[other]
      <3>1. Read(shard.nodes, other) = t[other]
        BY <1>4, <2>8
      <3>2. QED
        BY <2>7, <3>1 DEF node_hash, Read
    <2>10. up[k] = IF m[2] % 2 = 0 THEN hash_pair(t[m], t[other]) ELSE hash_pair(t[other], t[m])
      BY <1>9, <1>11, <2>1, <2>3, <2>4, <2>9 DEF m
    <2>11. QED
      BY <2>6, <2>8, <2>10
  <1>12. up[D] = t[Ancestor(i, D)]
    <2> DEFINE S == {k \in Nat : k <= D => up[k] = t[Ancestor(i, k)]}
    <2>1. 0 \in S
      BY <1>3, <1>9
    <2>2. ASSUME NEW k \in Nat, k \in S PROVE k + 1 \in S
      <3>1. CASE k + 1 <= D
        <4>1. k + 1 \in 1 .. D /\ k + 1 - 1 = k /\ up[k] = t[Ancestor(i, k)]
          BY <1>1, <2>2, <3>1
        <4>2. up[k + 1] = t[Ancestor(i, k + 1)]
          BY <1>11, <4>1
        <4>3. QED
          BY <4>2
      <3>2. CASE ~(k + 1 <= D)
        BY <3>2
      <3>3. QED
        BY <3>1, <3>2
    <2> HIDE DEF S
    <2>3. \A k \in Nat : k \in S
      BY <2>1, <2>2, Induction
    <2>4. D \in S /\ D <= D
      BY <1>1, <2>3
    <2>5. QED
      BY <2>4 DEF S
  <1>13. up[D] = fold[D]
    <2>1. D \in 0 .. D /\ Ancestor(i, D)[1] = 0
      BY <1>1 DEF Ancestor
    <2>2. Ancestor(i, D) = Root
      BY <1>3, <2>1, Ends
    <2>3. QED
      BY <1>2, <1>10, <1>12, <2>2
  <1>14. up[C] = fold[C]
    <2> DEFINE S == {n \in Nat : D + n <= C => up[D + n] = fold[D + n]}
    <2>1. 0 \in S
      BY <1>1, <1>13
    <2>2. ASSUME NEW n \in Nat, n \in S PROVE n + 1 \in S
      <3>1. CASE D + (n + 1) <= C
        <4> DEFINE h == D + (n + 1)
        <4>1. /\ h \in 1 .. C /\ h \in D .. C /\ h # D /\ ~(h <= D) /\ h - 1 = D + n
              /\ up[D + n] = fold[D + n]
          BY <1>1, <2>2, <3>1
        <4> HIDE DEF h
        <4>2. padded[h].element = zero_ladder[h - 1] /\ padded[h].right = 0
          BY <1>7, <4>1
        <4>3. up[h] = hash_pair(up[h - 1], zero_ladder[h - 1])
          BY <1>9, <4>1, <4>2
        <4>4. fold[h] = hash_pair(fold[h - 1], zero_ladder[h - 1])
          BY <1>10, <4>1
        <4>5. up[h] = fold[h]
          BY <4>1, <4>3, <4>4
        <4>6. QED
          BY <4>5 DEF h
      <3>2. CASE ~(D + (n + 1) <= C)
        BY <3>2
      <3>3. QED
        BY <3>1, <3>2
    <2> HIDE DEF S
    <2>3. \A n \in Nat : n \in S
      BY <2>1, <2>2, Induction
    <2>4. C - D \in S /\ D + (C - D) = C /\ C <= C
      BY <1>1, <2>3
    <2>5. QED
      BY <2>4 DEF S
  <1> DEFINE fetched == merkle_proof(i)
  <1>15. fetched.leaf = t[Leaf(i)] /\ fetched.path = path /\ fetched.root = shard.root
    <2>1. fetched = [leaf |-> node_hash(D, i), path |-> path_of(i),
                     root |-> shard.root, leaf_index |-> i]
      BY DEF merkle_proof
    <2>2. node_hash(D, i) = Read(shard.nodes, Leaf(i))
      BY DEF node_hash, Read, Leaf
    <2>3. Read(shard.nodes, Leaf(i)) = t[Leaf(i)]
      BY <1>4, Ends
    <2>4. QED
      BY <2>1, <2>2, <2>3 DEF path
  <1> HIDE DEF fetched
  <1>16. circuit_root(fetched.leaf, pad_path(fetched.path)) = up[C]
    <2>1. circuit_root(t[Leaf(i)], padded) = up[Len(padded)]
      BY CircuitIsUp DEF up
    <2>2. QED
      BY <1>8, <1>15, <2>1 DEF padded
  <1>17. fold_root(fetched.root) = fold[C]
    BY <1>15, FoldIsClimb DEF fold
  <1>18. QED
    BY <1>14, <1>16, <1>17 DEF Meets, fetched

\* A held proof met its folded root when it was fetched.
Fetched == proof # None => Meets(proof)

\* PaddedPathMeetsFoldedRoot: the circuit, deeper than the tree, derives from a
\* leaf and its padded path exactly the folded root that a verifier compares
\* with, for every leaf of every reachable tree and for all depths of both.
THEOREM PaddingCorrect ==
  ASSUME EmptyIsNoTree
  PROVE  ProofSpec => []PaddedPathMeetsFoldedRoot
  <1>1. ProofInit => Fetched
    BY DEF ProofInit, Fetched
  <1>2. MInv /\ Recent /\ Fetched /\ [ProofNext]_proof_vars => Fetched'
    <2> SUFFICES ASSUME MInv, Recent, Fetched, [ProofNext]_proof_vars PROVE Fetched'
      OBVIOUS
    <2>1. CASE get_merkle_proof
      <3>1. IsShard(shard) /\ target.index \in Indices
        BY <2>1 DEF get_merkle_proof, MInv, Recent
      <3>2. Meets(merkle_proof(target.index))
        BY <3>1, FetchedMeets
      <3>3. proof' = None \/ proof' = merkle_proof(target.index)
        BY <2>1 DEF get_merkle_proof
      <3>4. proof' # None => Meets(proof')
        BY <3>2, <3>3
      <3>5. QED
        BY <3>4 DEF Fetched
    <2>2. CASE ~get_merkle_proof
      <3>1. proof' = None \/ proof' = proof
        BY <2>2 DEF ProofNext, TreeChanges, Locate, proof_vars
      <3>2. QED
        BY <3>1 DEF Fetched
    <2>3. QED
      BY <2>1, <2>2
  <1>3. Fetched => PaddedPathMeetsFoldedRoot
    BY DEF Fetched, Meets, PaddedPathMeetsFoldedRoot
  <1>4. QED
    BY <1>1, <1>2, <1>3, ProofInvariance, PTL DEF ProofSpec

=============================================================================
