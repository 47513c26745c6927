-------------------------- MODULE NodeOffsetsProofs --------------------------
(***************************************************************************)
(* The offsets of different nodes are different, for every tree depth, and *)
(* all of them fit an entry.  Recursive definitions are used through two   *)
(* facts: that there is a function as defined (by induction on how much of *)
(* it there is), and the equation it satisfies.                            *)
(***************************************************************************)
EXTENDS NodeOffsets, WellFoundedInduction, TLAPS

\* Induction over the naturals, on a set.
LEMMA Induction ==
  ASSUME NEW S, 0 \in S, \A n \in Nat : n \in S => n + 1 \in S
  PROVE  \A n \in Nat : n \in S
  <1> DEFINE Below == {ss \in Nat \X Nat : ss[1] < ss[2]}
             T == {n \in Nat : n \notin S}
  <1>1. IsWellFoundedOn(Below, Nat)
    BY NatLessThanWellFounded DEF OpToRel
  <1> HIDE DEF Below
  <1>2. SUFFICES ASSUME T # {} PROVE FALSE
    OBVIOUS
  <1>3. T \subseteq Nat
    OBVIOUS
  <1>4. PICK x \in T : \A y \in T : ~(<<y, x>> \in Below)
    BY <1>1, <1>2, <1>3, WFMin
  <1>5. x \in Nat /\ x # 0
    OBVIOUS
  <1>6. x - 1 \in Nat /\ x - 1 < x /\ x - 1 + 1 = x
    BY <1>5
  <1>7. x - 1 \notin S
    BY <1>6
  <1>8. <<x - 1, x>> \in Below
    BY <1>5, <1>6 DEF Below
  <1>9. QED
    BY <1>4, <1>6, <1>7, <1>8

\* one_shl is what its definition says.
LEMMA OneShlExists ==
  one_shl = [bits \in 0 .. (TREE_DEPTH + 1) |->
                IF bits = 0 THEN 1 ELSE 2 * one_shl[bits - 1]]
  <1> DEFINE D == TREE_DEPTH + 1
             Part(n, g) == \A k \in 0 .. D : k <= n =>
                              g[k] = IF k = 0 THEN 1 ELSE 2 * g[k - 1]
             S == {n \in Nat : \E g : Part(n, g)}
  <1>1. 0 \in S
    <2> DEFINE g == [k \in 0 .. D |-> 1]
    <2>1. Part(0, g)
      OBVIOUS
    <2>2. QED
      BY <2>1
  <1>2. ASSUME NEW n \in Nat, n \in S PROVE n + 1 \in S
    <2>1. PICK g : Part(n, g)
      BY <1>2
    <2> DEFINE h == [k \in 0 .. D |-> IF k <= n THEN g[k] ELSE 2 * g[k - 1]]
    <2>2. Part(n + 1, h)
      <3> SUFFICES ASSUME NEW k \in 0 .. D, k <= n + 1
                   PROVE  h[k] = IF k = 0 THEN 1 ELSE 2 * h[k - 1]
        OBVIOUS
      <3>1. k \in Nat /\ D \in Int
        BY OffsetAssumption
      <3>2. CASE k = 0
        BY <2>1, <3>2
      <3>3. CASE k # 0
        <4>1. k - 1 \in 0 .. D /\ k - 1 <= n
          BY <3>1, <3>3
        <4>2. h[k - 1] = g[k - 1]
          BY <4>1
        <4>3. h[k] = 2 * g[k - 1]
          BY <2>1, <3>1, <3>3
        <4>4. QED
          BY <3>3, <4>2, <4>3
      <3>4. QED
        BY <3>2, <3>3
    <2> HIDE DEF Part, h
    <2>3. QED
      BY <2>2
  <1> HIDE DEF S
  <1>3. \A n \in Nat : n \in S
    BY <1>1, <1>2, Induction
  <1>4. D \in Nat
    BY OffsetAssumption
  <1>5. PICK g : Part(D, g)
    BY <1>3, <1>4 DEF S
  <1> DEFINE f == [k \in 0 .. D |-> g[k]]
  <1>6. f = [bits \in 0 .. D |-> IF bits = 0 THEN 1 ELSE 2 * f[bits - 1]]
    <2>1. ASSUME NEW k \in 0 .. D PROVE f[k] = IF k = 0 THEN 1 ELSE 2 * f[k - 1]
      <3>1. k \in Nat /\ k <= D
        BY <1>4
      <3>2. f[k] = IF k = 0 THEN 1 ELSE 2 * g[k - 1]
        BY <1>5, <3>1
      <3>3. k # 0 => k - 1 \in 0 .. D
        BY <1>4, <3>1
      <3>4. QED
        BY <3>2, <3>3
    <2>2. QED
      BY <2>1
  <1>7. \E s : s = [bits \in 0 .. (TREE_DEPTH + 1) |-> IF bits = 0 THEN 1 ELSE 2 * s[bits - 1]]
    BY <1>6
  <1>8. QED
    BY <1>7 DEF one_shl

\* Each level has twice the nodes of the one above it.
LEMMA OneShl ==
  /\ one_shl[0] = 1
  /\ \A level \in 0 .. TREE_DEPTH : one_shl[level + 1] = 2 * one_shl[level]
  <1> DEFINE D == TREE_DEPTH + 1
  <1>1. 0 \in 0 .. D
    BY OffsetAssumption
  <1>2. ASSUME NEW bits \in 0 .. D
        PROVE  one_shl[bits] = IF bits = 0 THEN 1 ELSE 2 * one_shl[bits - 1]
    BY OneShlExists
  <1>3. one_shl[0] = 1
    BY <1>1, <1>2
  <1>4. ASSUME NEW level \in 0 .. TREE_DEPTH PROVE one_shl[level + 1] = 2 * one_shl[level]
    <2>1. level + 1 \in 0 .. (TREE_DEPTH + 1) /\ level + 1 # 0 /\ level + 1 - 1 = level
      BY OffsetAssumption
    <2>2. one_shl[level + 1] = 2 * one_shl[level + 1 - 1]
      BY <1>2, <2>1
    <2>3. QED
      BY <2>1, <2>2
  <1>5. QED
    BY <1>3, <1>4

\* The sizes of levels are positive.
LEMMA OneShlPositive ==
  \A level \in 0 .. (TREE_DEPTH + 1) : one_shl[level] \in Nat \ {0}
  <1> DEFINE S == {n \in Nat : n <= TREE_DEPTH + 1 => one_shl[n] \in Nat \ {0}}
  <1>1. 0 \in S
    BY OneShl
  <1>2. ASSUME NEW n \in Nat, n \in S PROVE n + 1 \in S
    <2>1. CASE n + 1 <= TREE_DEPTH + 1
      <3>1. n \in 0 .. TREE_DEPTH /\ n <= TREE_DEPTH + 1
        BY <2>1, OffsetAssumption
      <3>2. one_shl[n] \in Nat \ {0} /\ one_shl[n + 1] = 2 * one_shl[n]
        BY <1>2, <3>1, OneShl
      <3>3. QED
        BY <3>2
    <2>2. CASE ~(n + 1 <= TREE_DEPTH + 1)
      BY <2>2
    <2>3. QED
      BY <2>1, <2>2
  <1> HIDE DEF S
  <1>3. \A n \in Nat : n \in S
    BY <1>1, <1>2, Induction
  <1>4. QED
    BY <1>3, OffsetAssumption DEF S

\* A deeper level is at least as large.
LEMMA OneShlMonotone ==
  ASSUME NEW low \in 0 .. (TREE_DEPTH + 1), NEW high \in 0 .. (TREE_DEPTH + 1), low <= high
  PROVE  one_shl[low] <= one_shl[high]
  <1> DEFINE S == {n \in Nat : low + n <= TREE_DEPTH + 1 => one_shl[low] <= one_shl[low + n]}
  <1>1. 0 \in S
    BY OneShlPositive
  <1>2. ASSUME NEW n \in Nat, n \in S PROVE n + 1 \in S
    <2>1. CASE low + (n + 1) <= TREE_DEPTH + 1
      <3>1. low + n \in 0 .. TREE_DEPTH /\ low + n <= TREE_DEPTH + 1 /\ low + n \in 0 .. (TREE_DEPTH + 1)
        BY <2>1, OffsetAssumption
      <3>2. /\ one_shl[low + n] \in Nat \ {0} /\ one_shl[low] \in Nat
            /\ one_shl[low + n + 1] = 2 * one_shl[low + n]
        BY <3>1, OneShl, OneShlPositive
      <3>3. one_shl[low] <= one_shl[low + n]
        BY <1>2, <3>1
      <3>4. low + (n + 1) = low + n + 1
        OBVIOUS
      <3>5. one_shl[low] <= one_shl[low + (n + 1)]
        BY <3>2, <3>3, <3>4
      <3>6. QED
        BY <3>5
    <2>2. CASE ~(low + (n + 1) <= TREE_DEPTH + 1)
      BY <2>2
    <2>3. QED
      BY <2>1, <2>2
  <1> HIDE DEF S
  <1>3. \A n \in Nat : n \in S
    BY <1>1, <1>2, Induction
  <1>4. high - low \in Nat /\ low + (high - low) = high /\ high <= TREE_DEPTH + 1
    BY OffsetAssumption
  <1>5. high - low \in S
    BY <1>3, <1>4
  <1>6. QED
    BY <1>4, <1>5 DEF S

\* A node's number lies in its own level's range, and below TREE_NODES.
LEMMA OffsetRange ==
  ASSUME NEW n \in Nodes
  PROVE  /\ n[1] \in 0 .. TREE_DEPTH /\ n[2] \in Nat
         /\ node_offset(n[1], n[2]) \in Nat
         /\ one_shl[n[1]] - 1 <= node_offset(n[1], n[2])
         /\ node_offset(n[1], n[2]) < one_shl[n[1] + 1] - 1
         /\ node_offset(n[1], n[2]) < TREE_NODES
         /\ target_offset(n[1], n[2]) = node_offset(n[1], n[2])
  <1>1. /\ n[1] \in 0 .. TREE_DEPTH /\ n[2] \in Indices /\ n[2] < one_shl[n[1]]
    BY DEF Nodes
  <1>2. n[1] \in 0 .. (TREE_DEPTH + 1) /\ n[1] + 1 \in 0 .. (TREE_DEPTH + 1)
        /\ n[1] + 1 <= TREE_DEPTH + 1 /\ TREE_DEPTH + 1 \in 0 .. (TREE_DEPTH + 1)
        /\ TREE_DEPTH \in 0 .. (TREE_DEPTH + 1)
    BY <1>1, OffsetAssumption
  <1>3. one_shl[n[1]] \in Nat \ {0} /\ one_shl[TREE_DEPTH + 1] \in Nat \ {0} /\ TREE_LEAVES \in Nat
    BY <1>2, OneShlPositive DEF TREE_LEAVES
  <1>4. one_shl[n[1] + 1] = 2 * one_shl[n[1]] /\ one_shl[n[1] + 1] <= one_shl[TREE_DEPTH + 1]
    BY <1>1, <1>2, OneShl, OneShlMonotone
  <1>5. n[2] \in Nat
    BY <1>1, <1>3 DEF Indices
  <1>6. /\ node_offset(n[1], n[2]) \in Nat
        /\ one_shl[n[1]] - 1 <= node_offset(n[1], n[2])
        /\ node_offset(n[1], n[2]) < one_shl[n[1] + 1] - 1
        /\ node_offset(n[1], n[2]) < TREE_NODES
    BY <1>1, <1>3, <1>4, <1>5 DEF node_offset, TREE_NODES
  <1>7. node_offset(n[1], n[2]) < OFFSETS
    BY <1>3, <1>6, OffsetAssumption DEF TREE_NODES
  <1>8. target_offset(n[1], n[2]) = node_offset(n[1], n[2])
    BY <1>6, <1>7, OffsetAssumption DEF target_offset
  <1>9. QED
    BY <1>1, <1>5, <1>6, <1>8

\* Different nodes have different offsets, and the u16 of an entry tells them
\* apart.
LEMMA OffsetsDiffer ==
  ASSUME NEW m \in Nodes, NEW n \in Nodes, target_offset(m[1], m[2]) = target_offset(n[1], n[2])
  PROVE  m = n
  <1>1. node_offset(m[1], m[2]) = node_offset(n[1], n[2])
    BY OffsetRange
  <1>2. ASSUME NEW x \in Nodes, NEW y \in Nodes, x[1] < y[1]
        PROVE  node_offset(x[1], x[2]) < node_offset(y[1], y[2])
    <2>1. /\ node_offset(x[1], x[2]) < one_shl[x[1] + 1] - 1
          /\ one_shl[y[1]] - 1 <= node_offset(y[1], y[2])
          /\ node_offset(x[1], x[2]) \in Nat /\ node_offset(y[1], y[2]) \in Nat
          /\ x[1] \in 0 .. TREE_DEPTH /\ y[1] \in 0 .. TREE_DEPTH
      BY OffsetRange
    <2>2. /\ x[1] + 1 \in 0 .. (TREE_DEPTH + 1) /\ y[1] \in 0 .. (TREE_DEPTH + 1)
          /\ x[1] + 1 <= y[1]
      BY <1>2, <2>1, OffsetAssumption
    <2>3. /\ one_shl[x[1] + 1] <= one_shl[y[1]]
          /\ one_shl[x[1] + 1] \in Nat /\ one_shl[y[1]] \in Nat
      BY <2>2, OneShlMonotone, OneShlPositive
    <2>4. QED
      BY <2>1, <2>3
  <1>3. /\ m[1] \in Nat /\ n[1] \in Nat /\ m[2] \in Nat /\ n[2] \in Nat
        /\ node_offset(m[1], m[2]) \in Nat /\ node_offset(n[1], n[2]) \in Nat
    BY OffsetRange
  <1>4. m[1] = n[1]
    BY <1>1, <1>2, <1>3
  <1>5. one_shl[m[1]] \in Nat
    <2>1. m[1] \in 0 .. (TREE_DEPTH + 1)
      BY OffsetAssumption DEF Nodes
    <2>2. QED
      BY <2>1, OneShlPositive
  <1>6. m[2] = n[2]
    BY <1>1, <1>3, <1>4, <1>5 DEF node_offset
  <1>7. m = <<m[1], m[2]>> /\ n = <<n[1], n[2]>>
    BY DEF Nodes
  <1>8. QED
    BY <1>4, <1>6, <1>7
==============================================================================
