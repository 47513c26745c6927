-------------------------- MODULE SparseNodesProofs --------------------------
(***************************************************************************)
(* The stored list of entries is a map from nodes to hashes, for every     *)
(* depth of the tree, every number of entries and every order of writes.   *)
(***************************************************************************)
EXTENDS SparseNodes, NodeOffsetsProofs, SequenceTheorems

Entry == [offset : Nat, hash : Hashes]

Sorted(entries) ==
    \A i, j \in 1 .. Len(entries) : i < j => entries[i].offset < entries[j].offset

-----------------------------------------------------------------------------
(* Bisection.                                                              *)

Ranges(entries) == (0 .. Len(entries)) \X (0 .. Len(entries))

\* One turn of the loop: where the search goes on from a range.
Halve(entries, target, search, range) ==
    LET lo == range[1]
        hi == range[2]
        mid == lo + (hi - lo) \div 2
    IN  IF lo >= hi THEN lo
        ELSE IF entries[mid + 1].offset < target THEN search[<<mid + 1, hi>>]
        ELSE search[<<lo, mid>>]

\* Both halves of a range are ranges, and shorter.
LEMMA Halves ==
  ASSUME NEW entries, Len(entries) \in Nat, NEW range \in Ranges(entries),
         range[1] < range[2],
         NEW mid, mid = range[1] + (range[2] - range[1]) \div 2
  PROVE  /\ range[1] \in Nat /\ range[2] \in Nat
         /\ mid \in Nat /\ range[1] <= mid /\ mid < range[2]
         /\ <<mid + 1, range[2]>> \in Ranges(entries)
         /\ <<range[1], mid>> \in Ranges(entries)
         /\ range[2] - (mid + 1) < range[2] - range[1]
         /\ mid - range[1] < range[2] - range[1]
  <1>1. range[1] \in Nat /\ range[2] \in Nat /\ range[2] <= Len(entries)
    BY DEF Ranges
  <1>2. mid \in Nat /\ range[1] <= mid /\ mid < range[2]
    BY <1>1
  <1>3. mid + 1 \in 0 .. Len(entries) /\ mid \in 0 .. Len(entries)
        /\ range[1] \in 0 .. Len(entries) /\ range[2] \in 0 .. Len(entries)
    BY <1>1, <1>2
  <1>4. QED
    BY <1>1, <1>2, <1>3 DEF Ranges

\* The search that lower_bound makes.
Search(entries, target) ==
    CHOOSE search : search = [range \in Ranges(entries) |-> Halve(entries, target, search, range)]

\* lower_bound searches the whole list.
LEMMA LowerBoundIsSearch ==
  ASSUME NEW entries, NEW target
  PROVE  lower_bound(entries, target) = Search(entries, target)[<<0, Len(entries)>>]
  BY DEF lower_bound, Search, Ranges, Halve

\* There is a function as lower_bound's loop describes it.
LEMMA SearchExists ==
  ASSUME NEW entries, Len(entries) \in Nat, NEW target
  PROVE  Search(entries, target)
            = [range \in Ranges(entries) |->
                  Halve(entries, target, Search(entries, target), range)]
  <1> DEFINE R == Ranges(entries)
             Part(n, g) == \A range \in R : range[2] - range[1] <= n =>
                              g[range] = Halve(entries, target, g, range)
             S == {n \in Nat : \E g : Part(n, g)}
  <1>0. ASSUME NEW g, NEW h, NEW range \in R,
               \A r \in R : r[2] - r[1] < range[2] - range[1] => g[r] = h[r]
        PROVE  Halve(entries, target, g, range) = Halve(entries, target, h, range)
    <2> DEFINE mid == range[1] + (range[2] - range[1]) \div 2
    <2>1. range[1] \in Nat /\ range[2] \in Nat
      BY DEF Ranges
    <2>2. CASE range[1] >= range[2]
      BY <2>2 DEF Halve
    <2>3. CASE range[1] < range[2]
      <3>1. /\ <<mid + 1, range[2]>> \in R /\ <<range[1], mid>> \in R
            /\ range[2] - (mid + 1) < range[2] - range[1]
            /\ mid - range[1] < range[2] - range[1]
        BY <2>3, Halves
      <3>2. /\ g[<<mid + 1, range[2]>>] = h[<<mid + 1, range[2]>>]
            /\ g[<<range[1], mid>>] = h[<<range[1], mid>>]
        BY <1>0, <3>1
      <3>3. QED
        BY <2>3, <3>2 DEF Halve
    <2>4. QED
      BY <2>1, <2>2, <2>3
  <1>1. 0 \in S
    <2> DEFINE g == [range \in R |-> range[1]]
    <2>1. ASSUME NEW range \in R, range[2] - range[1] <= 0
          PROVE  g[range] = Halve(entries, target, g, range)
      <3>1. range[1] \in Nat /\ range[2] \in Nat
        BY DEF Ranges
      <3>2. range[1] >= range[2]
        BY <2>1, <3>1
      <3>3. QED
        BY <3>2 DEF Halve
    <2>2. Part(0, g)
      BY <2>1
    <2> HIDE DEF Part, g
    <2>3. QED
      BY <2>2
  <1>2. ASSUME NEW n \in Nat, n \in S PROVE n + 1 \in S
    <2>1. PICK g : Part(n, g)
      BY <1>2
    <2> DEFINE h == [range \in R |-> IF range[2] - range[1] <= n THEN g[range]
                                     ELSE Halve(entries, target, g, range)]
    <2>2. ASSUME NEW range \in R, range[2] - range[1] <= n + 1
          PROVE  h[range] = Halve(entries, target, h, range)
      <3>1. range[1] \in Nat /\ range[2] \in Nat
        BY DEF Ranges
      <3>2. h[range] = Halve(entries, target, g, range)
        BY <2>1
      <3>3. ASSUME NEW r \in R, r[2] - r[1] < range[2] - range[1] PROVE g[r] = h[r]
        <4>1. r[1] \in Nat /\ r[2] \in Nat
          BY DEF Ranges
        <4>2. r[2] - r[1] <= n
          BY <2>2, <3>1, <3>3, <4>1
        <4>3. QED
          BY <4>2
      <3> HIDE DEF h, Part
      <3>4. Halve(entries, target, g, range) = Halve(entries, target, h, range)
        BY <1>0, <3>3
      <3>5. QED
        BY <3>2, <3>4
    <2>3. Part(n + 1, h)
      BY <2>2
    <2> HIDE DEF Part, h
    <2>4. QED
      BY <2>3
  <1> HIDE DEF S
  <1>3. \A n \in Nat : n \in S
    BY <1>1, <1>2, Induction
  <1>4. PICK g : Part(Len(entries), g)
    BY <1>3 DEF S
  <1> DEFINE f == [range \in R |-> g[range]]
  <1>5. ASSUME NEW range \in R PROVE f[range] = Halve(entries, target, f, range)
    <2>1. range[1] \in 0 .. Len(entries) /\ range[2] \in 0 .. Len(entries)
      BY DEF Ranges
    <2>2. range[2] - range[1] <= Len(entries)
      BY <2>1
    <2>3. g[range] = Halve(entries, target, g, range)
      BY <1>4, <2>2
    <2>4. \A r \in R : g[r] = f[r]
      OBVIOUS
    <2> HIDE DEF f
    <2>5. Halve(entries, target, g, range) = Halve(entries, target, f, range)
      BY <1>0, <2>4
    <2>6. QED
      BY <2>3, <2>4, <2>5
  <1>6. f = [range \in R |-> Halve(entries, target, f, range)]
    <2>1. f = [range \in R |-> f[range]]
      OBVIOUS
    <2> HIDE DEF f
    <2>2. QED
      BY <1>5, <2>1
  <1> HIDE DEF f
  <1>7. \E s : s = [range \in R |-> Halve(entries, target, s, range)]
    BY <1>6
  <1>8. QED
    BY <1>7 DEF Search

AllBelow(entries, target, k) == \A i \in 1 .. Len(entries) : i <= k => entries[i].offset < target
NoneBelow(entries, target, k) ==
    \A i \in 1 .. Len(entries) : i > k => ~(entries[i].offset < target)

\* Bisection over a sorted list finds how many offsets are below the target.
LEMMA Bisection ==
  ASSUME NEW entries \in Seq(Entry), NEW target \in Nat, Sorted(entries)
  PROVE  LET lo == lower_bound(entries, target)
         IN  /\ lo \in 0 .. Len(entries)
             /\ AllBelow(entries, target, lo) /\ NoneBelow(entries, target, lo)
  <1> DEFINE R == Ranges(entries)
             L == Len(entries)
             f == Search(entries, target)
             Framed(range) == /\ range[1] <= range[2]
                              /\ AllBelow(entries, target, range[1])
                              /\ NoneBelow(entries, target, range[2])
             Found(k) == /\ k \in 0 .. L
                         /\ AllBelow(entries, target, k) /\ NoneBelow(entries, target, k)
             S == {n \in Nat : \A range \in R :
                                  Framed(range) /\ range[2] - range[1] <= n => Found(f[range])}
  <1>1. L \in Nat
    OBVIOUS
  <1>2. ASSUME NEW range \in R PROVE f[range] = Halve(entries, target, f, range)
    BY <1>1, SearchExists
  <1>3. ASSUME NEW i \in 1 .. L PROVE entries[i].offset \in Nat
    <2>1. entries[i] \in Entry
      OBVIOUS
    <2>2. QED
      BY <2>1 DEF Entry
  <1> HIDE DEF f
  <1>4. ASSUME NEW range \in R, Framed(range), range[1] >= range[2] PROVE Found(f[range])
    <2>1. range[1] \in 0 .. L /\ range[2] \in 0 .. L
      BY DEF Ranges
    <2>2. range[1] = range[2]
      BY <1>1, <1>4, <2>1
    <2>3. f[range] = range[1]
      BY <1>2, <1>4 DEF Halve
    <2>4. QED
      BY <1>4, <2>1, <2>2, <2>3
  <1>5. 0 \in S
    <2>1. ASSUME NEW range \in R, Framed(range), range[2] - range[1] <= 0 PROVE Found(f[range])
      <3>1. range[1] \in 0 .. L /\ range[2] \in 0 .. L
        BY DEF Ranges
      <3>2. range[1] >= range[2]
        BY <1>1, <2>1, <3>1
      <3>3. QED
        BY <1>4, <2>1, <3>2
    <2> HIDE DEF Framed, Found
    <2>2. QED
      BY <2>1
  <1>6. ASSUME NEW n \in Nat, n \in S PROVE n + 1 \in S
    <2>1. ASSUME NEW range \in R, Framed(range), range[2] - range[1] <= n + 1
          PROVE  Found(f[range])
      <3> DEFINE mid == range[1] + (range[2] - range[1]) \div 2
                 right == <<mid + 1, range[2]>>
                 left == <<range[1], mid>>
      <3>1. range[1] \in Nat /\ range[2] \in Nat /\ range[2] <= L
        BY <1>1 DEF Ranges
      <3>2. CASE range[1] >= range[2]
        BY <1>4, <2>1, <3>2
      <3>3. CASE range[1] < range[2]
        <4>1. /\ mid \in Nat /\ range[1] <= mid /\ mid < range[2]
              /\ right \in R /\ left \in R
              /\ right[2] - right[1] <= n /\ left[2] - left[1] <= n
          <5>1. /\ mid \in Nat /\ range[1] <= mid /\ mid < range[2]
                /\ right \in R /\ left \in R
                /\ range[2] - (mid + 1) < range[2] - range[1]
                /\ mid - range[1] < range[2] - range[1]
            BY <1>1, <3>3, Halves
          <5> HIDE DEF mid
          <5>2. QED
            BY <2>1, <3>1, <5>1
        <4>2. mid + 1 \in 1 .. L /\ entries[mid + 1].offset \in Nat
          <5> HIDE DEF mid
          <5>1. mid + 1 \in 1 .. L
            BY <1>1, <3>1, <4>1
          <5>2. QED
            BY <1>3, <5>1
        <4>3. f[range] = IF entries[mid + 1].offset < target THEN f[right] ELSE f[left]
          BY <1>2, <3>1, <3>3 DEF Halve
        <4>4. right[1] = mid + 1 /\ right[2] = range[2] /\ left[1] = range[1] /\ left[2] = mid
          OBVIOUS
        <4> HIDE DEF mid, right, left
        <4>5. CASE entries[mid + 1].offset < target
          <5>1. AllBelow(entries, target, mid + 1)
            <6> SUFFICES ASSUME NEW i \in 1 .. L, i <= mid + 1
                         PROVE  entries[i].offset < target
              BY DEF AllBelow
            <6>1. CASE i = mid + 1
              BY <4>5, <6>1
            <6>2. CASE i < mid + 1
              <7>1. entries[i].offset < entries[mid + 1].offset
                BY <4>2, <6>2 DEF Sorted
              <7>2. entries[i].offset \in Nat
                BY <1>3
              <7>3. QED
                BY <4>2, <4>5, <7>1, <7>2
            <6>3. QED
              BY <4>1, <6>1, <6>2
          <5>2. Framed(right)
            <6>1. right[1] <= right[2]
              BY <3>1, <4>1, <4>4
            <6>2. QED
              BY <2>1, <4>4, <5>1, <6>1
          <5> HIDE DEF Framed, Found
          <5>3. Found(f[right])
            BY <1>6, <4>1, <5>2
          <5>4. QED
            BY <4>3, <4>5, <5>3
        <4>6. CASE ~(entries[mid + 1].offset < target)
          <5>1. NoneBelow(entries, target, mid)
            <6> SUFFICES ASSUME NEW i \in 1 .. L, i > mid
                         PROVE  ~(entries[i].offset < target)
              BY DEF NoneBelow
            <6>1. CASE i = mid + 1
              BY <4>6, <6>1
            <6>2. CASE i > mid + 1
              <7>1. entries[mid + 1].offset < entries[i].offset
                BY <4>2, <6>2 DEF Sorted
              <7>2. entries[i].offset \in Nat
                BY <1>3
              <7>3. QED
                BY <4>2, <4>6, <7>1, <7>2
            <6>3. QED
              BY <4>1, <6>1, <6>2
          <5>2. Framed(left)
            <6>1. left[1] <= left[2]
              BY <4>1, <4>4
            <6>2. QED
              BY <2>1, <4>4, <5>1, <6>1
          <5> HIDE DEF Framed, Found
          <5>3. Found(f[left])
            BY <1>6, <4>1, <5>2
          <5>4. QED
            BY <4>3, <4>6, <5>3
        <4>7. QED
          BY <4>5, <4>6
      <3>4. QED
        BY <3>1, <3>2, <3>3
    <2> HIDE DEF Framed, Found
    <2>2. QED
      BY <2>1
  <1> HIDE DEF S
  <1>7. \A n \in Nat : n \in S
    BY <1>5, <1>6, Induction
  <1> DEFINE whole == <<0, L>>
  <1>8. whole \in R /\ whole[2] - whole[1] <= L /\ Framed(whole)
    <2>1. whole \in R /\ whole[1] = 0 /\ whole[2] = L
      BY <1>1 DEF Ranges
    <2>2. AllBelow(entries, target, 0) /\ NoneBelow(entries, target, L)
      BY <1>1 DEF AllBelow, NoneBelow
    <2> HIDE DEF whole
    <2>3. QED
      BY <1>1, <2>1, <2>2
  <1>9. Found(f[whole])
    <2> HIDE DEF whole, Framed, Found
    <2>1. L \in S
      BY <1>1, <1>7
    <2>2. QED
      BY <1>8, <2>1 DEF S
  <1>10. lower_bound(entries, target) = f[whole]
    BY LowerBoundIsSearch DEF f
  <1>11. QED
    BY <1>9, <1>10

\* What a position of a list holds after an insertion.
LEMMA Insertion ==
  ASSUME NEW entries \in Seq(Entry), NEW at \in 1 .. (Len(entries) + 1), NEW e \in Entry
  PROVE  LET new == InsertAt(entries, at, e)
         IN  /\ new \in Seq(Entry)
             /\ Len(new) = Len(entries) + 1
             /\ \A i \in 1 .. (Len(entries) + 1) :
                   new[i] = IF i < at THEN entries[i] ELSE IF i = at THEN e ELSE entries[i - 1]
  <1> DEFINE L == Len(entries)
             low == SubSeq(entries, 1, at - 1)
             high == SubSeq(entries, at, L)
             new == InsertAt(entries, at, e)
  <1>1. L \in Nat /\ at \in Nat /\ 1 <= at /\ at - 1 <= L
    OBVIOUS
  <1>2. low \in Seq(Entry) /\ Len(low) = at - 1 /\ \A i \in 1 .. (at - 1) : low[i] = entries[i]
    BY <1>1
  <1>3. /\ high \in Seq(Entry) /\ Len(high) = L + 1 - at
        /\ \A i \in 1 .. (L + 1 - at) : high[i] = entries[at - 1 + i]
    BY <1>1
  <1>4. new = low \o <<e>> \o high
    BY DEF InsertAt
  <1> HIDE DEF low, high, new
  <1> DEFINE head == low \o <<e>>
  <1>5. /\ head \in Seq(Entry) /\ Len(head) = at
        /\ \A i \in 1 .. at : head[i] = IF i < at THEN entries[i] ELSE e
    BY <1>1, <1>2
  <1> HIDE DEF head
  <1>6. new = head \o high
    BY <1>4 DEF head
  <1>7. new \in Seq(Entry) /\ Len(new) = L + 1
    <2>1. new \in Seq(Entry) /\ Len(new) = Len(head) + Len(high)
      BY <1>3, <1>5, <1>6, ConcatProperties
    <2>2. QED
      BY <1>1, <1>3, <1>5, <2>1
  <1>8. ASSUME NEW i \in 1 .. (L + 1)
        PROVE  new[i] = IF i < at THEN entries[i] ELSE IF i = at THEN e ELSE entries[i - 1]
    <2>1. CASE i <= at
      <3>1. new[i] = head[i]
        BY <1>1, <1>3, <1>5, <1>6, <2>1
      <3>2. QED
        BY <1>1, <1>5, <2>1, <3>1
    <2>2. CASE i > at
      <3>1. i - at \in 1 .. (L + 1 - at) /\ at - 1 + (i - at) = i - 1
        BY <1>1, <2>2
      <3>2. new[i] = high[i - at]
        BY <1>1, <1>3, <1>5, <1>6, <2>2
      <3>3. high[i - at] = entries[i - 1]
        BY <1>3, <3>1
      <3>4. QED
        BY <1>1, <2>2, <3>2, <3>3
    <2>3. QED
      BY <1>1, <2>1, <2>2
  <1>9. QED
    BY <1>7, <1>8 DEF new

-----------------------------------------------------------------------------
(* Reading and writing.                                                    *)

\* The entries map an offset to a hash.
Maps(entries, offset, hash) ==
    \E i \in 1 .. Len(entries) : entries[i].offset = offset /\ entries[i].hash = hash

\* Reading finds the offset's entry if there is one.
LEMMA Reading ==
  ASSUME NEW entries \in Seq(Entry), Sorted(entries), NEW n \in Nodes
  PROVE  LET offset == target_offset(n[1], n[2])
             hash == read_sparse_node(entries, n[1], n[2], Default)
         IN  \/ hash \in Hashes /\ Maps(entries, offset, hash)
             \/ hash = Default /\ ~(\E h \in Hashes : Maps(entries, offset, h))
  <1> DEFINE target == target_offset(n[1], n[2])
             lo == lower_bound(entries, target)
  <1>1. target \in Nat
    BY OffsetRange
  <1>2. lo \in 0 .. Len(entries) /\ AllBelow(entries, target, lo) /\ NoneBelow(entries, target, lo)
    BY <1>1, Bisection
  <1>3. ASSUME NEW i \in 1 .. Len(entries)
        PROVE  entries[i].offset \in Nat /\ entries[i].hash \in Hashes
    <2>1. entries[i] \in Entry
      OBVIOUS
    <2>2. QED
      BY <2>1 DEF Entry
  <1>4. read_sparse_node(entries, n[1], n[2], Default)
          = IF holds(entries, lo, target) THEN entries[lo + 1].hash ELSE Default
    BY DEF read_sparse_node
  <1> HIDE DEF target, lo
  <1>5. CASE holds(entries, lo, target)
    <2>1. lo + 1 \in 1 .. Len(entries) /\ entries[lo + 1].offset = target
      BY <1>2, <1>5 DEF holds
    <2>2. QED
      BY <1>3, <1>4, <1>5, <2>1 DEF Maps, target
  <1>6. CASE ~holds(entries, lo, target)
    <2>1. ASSUME NEW i \in 1 .. Len(entries), entries[i].offset = target PROVE FALSE
      <3>1. ~(i <= lo)
        BY <1>1, <1>2, <2>1 DEF AllBelow
      <3>2. i # lo + 1
        BY <1>2, <1>6, <2>1 DEF holds
      <3>3. lo + 1 \in 1 .. Len(entries) /\ lo + 1 < i /\ lo + 1 > lo
        BY <1>2, <3>1, <3>2
      <3>4. ~(entries[lo + 1].offset < target) /\ entries[lo + 1].offset < entries[i].offset
        BY <1>2, <3>3 DEF NoneBelow, Sorted
      <3>5. QED
        BY <2>1, <3>4
    <2>2. QED
      BY <1>4, <1>6, <2>1 DEF Maps, target
  <1>7. QED
    BY <1>5, <1>6

\* Writing keeps the list sorted, maps the node's offset to the hash, and
\* changes what no other offset maps to.
LEMMA Writing ==
  ASSUME NEW entries \in Seq(Entry), Sorted(entries), NEW n \in Nodes, NEW hash \in Hashes
  PROVE  LET offset == target_offset(n[1], n[2])
             new == write_sparse_node(entries, n[1], n[2], hash)
         IN  /\ new \in Seq(Entry) /\ Sorted(new)
             /\ Maps(new, offset, hash)
             /\ \A h \in Hashes : Maps(new, offset, h) => h = hash
             /\ \A o \in Nat, h \in Hashes :
                   o # offset => (Maps(new, o, h) <=> Maps(entries, o, h))
  <1> DEFINE target == target_offset(n[1], n[2])
             lo == lower_bound(entries, target)
             L == Len(entries)
             new == write_sparse_node(entries, n[1], n[2], hash)
             entry == [offset |-> target, hash |-> hash]
  <1>1. target \in Nat
    BY OffsetRange
  <1>2. lo \in 0 .. L /\ AllBelow(entries, target, lo) /\ NoneBelow(entries, target, lo)
    BY <1>1, Bisection
  <1>3. ASSUME NEW i \in 1 .. L
        PROVE  /\ entries[i] \in Entry /\ entries[i].offset \in Nat /\ entries[i].hash \in Hashes
    <2>1. entries[i] \in Entry
      OBVIOUS
    <2>2. QED
      BY <2>1 DEF Entry
  <1>4. new = IF holds(entries, lo, target) THEN [entries EXCEPT ![lo + 1].hash = hash]
              ELSE InsertAt(entries, lo + 1, entry)
    BY DEF write_sparse_node
  <1>5. L \in Nat /\ lo \in Nat /\ entry \in Entry /\ entry.offset = target /\ entry.hash = hash
    BY <1>1, <1>2 DEF Entry
  <1> HIDE DEF lo, new, target, entry
  <1>6. CASE holds(entries, lo, target)
    <2>1. lo + 1 \in 1 .. L /\ entries[lo + 1].offset = target
      BY <1>2, <1>6 DEF holds
    <2>2. new = [entries EXCEPT ![lo + 1] = [entries[lo + 1] EXCEPT !.hash = hash]]
      BY <1>4, <1>6
    <2>3. [entries[lo + 1] EXCEPT !.hash = hash] = entry
      BY <1>3, <2>1 DEF Entry, entry
    <2>4. /\ new \in Seq(Entry) /\ Len(new) = L
          /\ \A i \in 1 .. L : new[i] = IF i = lo + 1 THEN entry ELSE entries[i]
      BY <1>5, <2>1, <2>2, <2>3
    <2>5. \A i \in 1 .. L : new[i].offset = entries[i].offset
      BY <1>5, <2>1, <2>4
    <2>6. Sorted(new)
      BY <2>4, <2>5 DEF Sorted
    <2>7. ASSUME NEW i \in 1 .. L, entries[i].offset = target PROVE i = lo + 1
      <3>1. ~(i < lo + 1) /\ ~(lo + 1 < i)
        BY <1>1, <2>1, <2>7 DEF Sorted
      <3>2. QED
        BY <1>5, <3>1
    <2>8. Maps(new, target, hash)
      BY <1>5, <2>1, <2>4 DEF Maps
    <2>9. ASSUME NEW h \in Hashes, Maps(new, target, h) PROVE h = hash
      <3>1. PICK i \in 1 .. L : new[i].offset = target /\ new[i].hash = h
        BY <2>4, <2>9 DEF Maps
      <3>2. i = lo + 1
        BY <2>5, <2>7, <3>1
      <3>3. QED
        BY <1>5, <2>4, <3>1, <3>2
    <2>10. ASSUME NEW o \in Nat, NEW h \in Hashes, o # target
           PROVE  Maps(new, o, h) <=> Maps(entries, o, h)
      <3>1. ASSUME NEW i \in 1 .. L PROVE new[i].offset = o => new[i] = entries[i]
        BY <1>5, <2>4, <2>10
      <3>2. ASSUME NEW i \in 1 .. L PROVE entries[i].offset = o => new[i] = entries[i]
        BY <2>1, <2>4, <2>10
      <3>3. QED
        BY <2>4, <3>1, <3>2 DEF Maps
    <2>11. QED
      BY <2>4, <2>6, <2>8, <2>9, <2>10 DEF new, target
  <1>7. CASE ~holds(entries, lo, target)
    <2>1. lo + 1 \in 1 .. (L + 1)
      BY <1>2, <1>5
    <2>2. /\ new \in Seq(Entry) /\ Len(new) = L + 1
          /\ \A i \in 1 .. (L + 1) : new[i] = IF i < lo + 1 THEN entries[i]
                                              ELSE IF i = lo + 1 THEN entry ELSE entries[i - 1]
      <3> DEFINE at == lo + 1
      <3>1. new = InsertAt(entries, at, entry) /\ at \in 1 .. (Len(entries) + 1)
        BY <1>4, <1>7, <2>1
      <3> HIDE DEF at
      <3>2. /\ new \in Seq(Entry) /\ Len(new) = L + 1
            /\ \A i \in 1 .. (L + 1) : new[i] = IF i < at THEN entries[i]
                                                ELSE IF i = at THEN entry ELSE entries[i - 1]
        <4> DEFINE inserted == InsertAt(entries, at, entry)
        <4>1. /\ inserted \in Seq(Entry) /\ Len(inserted) = L + 1
              /\ \A i \in 1 .. (L + 1) :
                    inserted[i] = IF i < at THEN entries[i] ELSE IF i = at THEN entry ELSE entries[i - 1]
          BY <1>5, <3>1, Insertion, Zenon
        <4> HIDE DEF inserted
        <4>2. new = inserted
          BY <3>1 DEF inserted
        <4>3. QED
          BY <4>1, <4>2
      <3>3. QED
        BY <3>2 DEF at
    <2>3. \A i \in 1 .. L : i <= lo => entries[i].offset < target
      BY <1>2 DEF AllBelow
    <2>4. \A i \in 1 .. L : lo < i => target < entries[i].offset
      <3> SUFFICES ASSUME NEW i \in 1 .. L, lo < i PROVE target < entries[i].offset
        OBVIOUS
      <3>1. lo + 1 \in 1 .. L /\ i > lo /\ lo + 1 > lo
        BY <1>5
      <3>2. ~(entries[lo + 1].offset < target) /\ entries[lo + 1].offset # target
        BY <1>2, <1>5, <1>7, <3>1 DEF NoneBelow, holds
      <3>3. target < entries[lo + 1].offset
        BY <1>1, <1>3, <3>1, <3>2
      <3>4. CASE i = lo + 1
        BY <3>3, <3>4
      <3>5. CASE lo + 1 < i
        <4>1. entries[lo + 1].offset < entries[i].offset
          BY <3>1, <3>5 DEF Sorted
        <4>2. entries[lo + 1].offset \in Nat /\ entries[i].offset \in Nat
          BY <1>3, <3>1
        <4>3. QED
          BY <1>1, <3>3, <4>1, <4>2
      <3>6. QED
        BY <1>5, <3>4, <3>5
    <2>5. Sorted(new)
      <3> SUFFICES ASSUME NEW i \in 1 .. (L + 1), NEW j \in 1 .. (L + 1), i < j
                   PROVE  new[i].offset < new[j].offset
        BY <2>2 DEF Sorted
      <3>1. CASE j < lo + 1
        <4>1. i \in 1 .. L /\ j \in 1 .. L /\ i < lo + 1
          BY <1>2, <1>5, <3>1
        <4>2. new[i] = entries[i] /\ new[j] = entries[j]
          BY <2>2, <3>1, <4>1
        <4>3. QED
          BY <4>1, <4>2 DEF Sorted
      <3>2. CASE j = lo + 1
        <4>1. i \in 1 .. L /\ i <= lo /\ i < lo + 1
          BY <1>2, <1>5, <3>2
        <4>2. new[i] = entries[i] /\ new[j] = entry
          BY <1>5, <2>2, <3>2, <4>1
        <4>3. QED
          BY <1>5, <2>3, <4>1, <4>2
      <3>3. CASE lo + 1 < j
        <4>1. j - 1 \in 1 .. L /\ lo < j - 1
          BY <1>5, <3>3
        <4>2. new[j] = entries[j - 1]
          BY <1>5, <2>2, <3>3
        <4>3. CASE i < lo + 1
          <5>1. i \in 1 .. L /\ i < j - 1
            BY <1>2, <1>5, <4>1, <4>3
          <5>2. new[i] = entries[i]
            BY <2>2, <4>3
          <5>3. QED
            BY <4>1, <4>2, <5>1, <5>2 DEF Sorted
        <4>4. CASE i = lo + 1
          <5>1. new[i] = entry
            BY <1>5, <2>2, <4>4
          <5>2. QED
            BY <1>5, <2>4, <4>1, <4>2, <5>1
        <4>5. CASE lo + 1 < i
          <5>1. i - 1 \in 1 .. L /\ i - 1 < j - 1
            BY <1>5, <4>5
          <5>2. new[i] = entries[i - 1]
            BY <1>5, <2>2, <4>5
          <5>3. QED
            BY <4>1, <4>2, <5>1, <5>2 DEF Sorted
        <4>6. QED
          BY <1>5, <4>3, <4>4, <4>5
      <3>4. QED
        BY <1>5, <3>1, <3>2, <3>3
    <2>6. new[lo + 1] = entry
      BY <1>5, <2>1, <2>2
    <2>7. Maps(new, target, hash)
      BY <1>5, <2>1, <2>2, <2>6 DEF Maps
    <2>8. ASSUME NEW i \in 1 .. (L + 1), i # lo + 1
          PROVE  \E j \in 1 .. L : new[i] = entries[j] /\ entries[j].offset # target
      <3>1. CASE i < lo + 1
        <4>1. i \in 1 .. L /\ i <= lo /\ new[i] = entries[i]
          BY <1>2, <1>5, <2>2, <3>1
        <4>2. entries[i].offset # target
          BY <1>1, <2>3, <4>1
        <4>3. QED
          BY <4>1, <4>2
      <3>2. CASE lo + 1 < i
        <4>1. i - 1 \in 1 .. L /\ lo < i - 1 /\ new[i] = entries[i - 1]
          BY <1>5, <2>2, <3>2
        <4>2. entries[i - 1].offset # target
          BY <1>1, <2>4, <4>1
        <4>3. QED
          BY <4>1, <4>2
      <3>3. QED
        BY <1>5, <2>8, <3>1, <3>2
    <2>9. ASSUME NEW j \in 1 .. L PROVE \E i \in 1 .. (L + 1) : new[i] = entries[j]
      <3>1. CASE j < lo + 1
        <4>1. j \in 1 .. (L + 1) /\ new[j] = entries[j]
          BY <1>5, <2>2, <3>1
        <4>2. QED
          BY <4>1
      <3>2. CASE lo + 1 <= j
        <4>1. j + 1 \in 1 .. (L + 1) /\ lo + 1 < j + 1 /\ j + 1 - 1 = j
          BY <1>5, <3>2
        <4>2. new[j + 1] = entries[j]
          BY <1>5, <2>2, <4>1
        <4>3. QED
          BY <4>1, <4>2
      <3>3. QED
        BY <1>5, <3>1, <3>2
    <2>10. ASSUME NEW h \in Hashes, Maps(new, target, h) PROVE h = hash
      <3>1. PICK i \in 1 .. (L + 1) : new[i].offset = target /\ new[i].hash = h
        BY <2>2, <2>10 DEF Maps
      <3>2. i = lo + 1
        BY <2>8, <3>1
      <3>3. QED
        BY <1>5, <2>6, <3>1, <3>2
    <2>11. ASSUME NEW o \in Nat, NEW h \in Hashes, o # target
           PROVE  Maps(new, o, h) <=> Maps(entries, o, h)
      <3>1. ASSUME Maps(new, o, h) PROVE Maps(entries, o, h)
        <4>1. PICK i \in 1 .. (L + 1) : new[i].offset = o /\ new[i].hash = h
          BY <2>2, <3>1 DEF Maps
        <4>2. i # lo + 1
          BY <1>5, <2>6, <2>11, <4>1
        <4>3. QED
          BY <2>8, <4>1, <4>2 DEF Maps
      <3>2. ASSUME Maps(entries, o, h) PROVE Maps(new, o, h)
        <4>1. PICK j \in 1 .. L : entries[j].offset = o /\ entries[j].hash = h
          BY <3>2 DEF Maps
        <4>2. QED
          BY <2>2, <2>9, <4>1 DEF Maps
      <3>3. QED
        BY <3>1, <3>2
    <2>12. QED
      BY <2>2, <2>5, <2>7, <2>10, <2>11 DEF new, target
  <1>8. QED
    BY <1>6, <1>7

-----------------------------------------------------------------------------
(* The map.                                                                *)

\* The list holds the history: its offsets are nodes' offsets, in order, and
\* a node's offset maps to what was last written there, or to nothing.
SInv ==
    /\ data \in Seq(Entry)
    /\ Sorted(data)
    /\ \A o \in Nat, h \in Hashes : Maps(data, o, h) => o < TREE_NODES
    /\ written \in [Nodes -> Hashes \cup {Default}]
    /\ \A n \in Nodes : LET offset == target_offset(n[1], n[2]) IN
          /\ \A h \in Hashes : Maps(data, offset, h) => h = written[n]
          /\ written[n] # Default => \E h \in Hashes : Maps(data, offset, h)

\* The empty list holds the empty history.
LEMMA SInitial ==
  Init => SInv
  <1> SUFFICES ASSUME Init PROVE SInv
    OBVIOUS
  <1>1. data \in Seq(Entry) /\ Len(data) = 0
    BY DEF Init
  <1>2. 1 .. Len(data) = {}
    BY <1>1
  <1>3. Sorted(data) /\ \A o, h : ~Maps(data, o, h)
    BY <1>2 DEF Sorted, Maps
  <1>4. QED
    BY <1>1, <1>3 DEF Init, SInv

\* A write keeps list and history together.
LEMMA SNextStep ==
  SInv /\ [Next]_vars => SInv'
  <1> SUFFICES ASSUME SInv, [Next]_vars PROVE SInv'
    OBVIOUS
  <1>1. CASE Next
    <2>1. PICK n \in Nodes, hash \in Hashes : Write(n[1], n[2], hash)
      BY <1>1 DEF Next
    <2> DEFINE offset(m) == target_offset(m[1], m[2])
    <2>2. ASSUME NEW m \in Nodes PROVE offset(m) \in Nat /\ offset(m) < TREE_NODES
      BY OffsetRange
    <2>3. <<n[1], n[2]>> = n
      BY DEF Nodes
    <2>4. data' = write_sparse_node(data, n[1], n[2], hash)
          /\ written' = [written EXCEPT ![n] = hash]
      BY <2>1, <2>3 DEF Write
    <2>5. /\ data' \in Seq(Entry) /\ Sorted(data')
          /\ Maps(data', offset(n), hash)
          /\ \A h \in Hashes : Maps(data', offset(n), h) => h = hash
          /\ \A o \in Nat, h \in Hashes :
                o # offset(n) => (Maps(data', o, h) <=> Maps(data, o, h))
      BY <2>4, Writing DEF SInv
    <2>6. /\ written' \in [Nodes -> Hashes \cup {Default}]
          /\ \A m \in Nodes : written'[m] = IF m = n THEN hash ELSE written[m]
      BY <2>4 DEF SInv
    <2>7. ASSUME NEW m \in Nodes, offset(m) = offset(n) PROVE m = n
      BY <2>7, OffsetsDiffer
    <2> HIDE DEF offset
    <2>8. ASSUME NEW o \in Nat, NEW h \in Hashes, Maps(data', o, h) PROVE o < TREE_NODES
      BY <2>2, <2>5, <2>8 DEF SInv
    <2>9. ASSUME NEW m \in Nodes
          PROVE  /\ \A h \in Hashes : Maps(data', offset(m), h) => h = written'[m]
                 /\ written'[m] # Default => \E h \in Hashes : Maps(data', offset(m), h)
      <3>1. CASE m = n
        BY <2>5, <2>6, <3>1
      <3>2. CASE m # n
        <4>1. \A h \in Hashes : Maps(data', offset(m), h) <=> Maps(data, offset(m), h)
          BY <2>2, <2>5, <2>7, <3>2
        <4>2. written'[m] = written[m]
          BY <2>6, <3>2
        <4>3. /\ \A h \in Hashes : Maps(data, offset(m), h) => h = written[m]
              /\ written[m] # Default => \E h \in Hashes : Maps(data, offset(m), h)
          BY DEF SInv, offset
        <4>4. QED
          BY <4>1, <4>2, <4>3
      <3>3. QED
        BY <3>1, <3>2
    <2>10. QED
      BY <2>5, <2>6, <2>8, <2>9 DEF SInv, Sorted, Maps, offset
  <1>2. CASE UNCHANGED vars
    BY <1>2 DEF vars, SInv, Sorted, Maps
  <1>3. QED
    BY <1>1, <1>2

\* Along every run of writes the list holds the history.
THEOREM MapInvariance ==
  Spec => []SInv
  BY SInitial, SNextStep, PTL DEF Spec

\* The offsets of a sorted list are at least as large as their positions.
LEMMA SortedLong ==
  ASSUME NEW entries \in Seq(Entry), Sorted(entries)
  PROVE  \A i \in 1 .. Len(entries) : i <= entries[i].offset + 1
  <1> DEFINE L == Len(entries)
             S == {n \in Nat : n + 1 <= L => n + 1 <= entries[n + 1].offset + 1}
  <1>1. ASSUME NEW i \in 1 .. L PROVE entries[i].offset \in Nat
    <2>1. entries[i] \in Entry
      OBVIOUS
    <2>2. QED
      BY <2>1 DEF Entry
  <1>2. L \in Nat
    OBVIOUS
  <1>3. 0 \in S
    <2>1. CASE 1 <= L
      <3>1. entries[1].offset \in Nat
        BY <1>1, <1>2, <2>1
      <3>2. QED
        BY <3>1
    <2>2. QED
      BY <1>2, <2>1
  <1>4. ASSUME NEW n \in Nat, n \in S PROVE n + 1 \in S
    <2>1. CASE n + 1 + 1 <= L
      <3>1. n + 1 \in 1 .. L /\ n + 1 + 1 \in 1 .. L /\ n + 1 < n + 1 + 1
        BY <1>2, <2>1
      <3>2. entries[n + 1].offset < entries[n + 1 + 1].offset
        BY <3>1 DEF Sorted
      <3>3. entries[n + 1].offset \in Nat /\ entries[n + 1 + 1].offset \in Nat
        BY <1>1, <3>1
      <3>4. n + 1 <= entries[n + 1].offset + 1
        BY <1>4, <3>1
      <3>5. n + 1 + 1 <= entries[n + 1 + 1].offset + 1
        BY <3>2, <3>3, <3>4
      <3>6. QED
        BY <3>5
    <2>2. CASE ~(n + 1 + 1 <= L)
      BY <2>2
    <2>3. QED
      BY <2>1, <2>2
  <1> HIDE DEF S
  <1>5. \A n \in Nat : n \in S
    BY <1>3, <1>4, Induction
  <1>6. ASSUME NEW i \in 1 .. L PROVE i <= entries[i].offset + 1
    <2>1. i - 1 \in S /\ i - 1 + 1 = i /\ i <= L
      BY <1>2, <1>5
    <2>2. QED
      BY <2>1 DEF S
  <1>7. QED
    BY <1>6

\* EntriesSorted: the list that bisection searches is always sorted by offset
\* without repetition, and never longer than the tree has nodes, whatever the
\* depth and the order of writes.
THEOREM SortedCorrect ==
  Spec => []EntriesSorted
  <1>1. SInv => EntriesSorted
    <2> SUFFICES ASSUME SInv PROVE EntriesSorted
      OBVIOUS
    <2>1. Len(data) \in Nat /\ data \in Seq(Entry) /\ Sorted(data)
      BY DEF SInv
    <2>2. TREE_NODES \in Nat
      <3>1. TREE_DEPTH + 1 \in 0 .. (TREE_DEPTH + 1)
        BY OffsetAssumption
      <3>2. one_shl[TREE_DEPTH + 1] \in Nat \ {0}
        BY <3>1, OneShlPositive
      <3>3. QED
        BY <3>2 DEF TREE_NODES
    <2>3. Len(data) <= TREE_NODES
      <3>1. CASE Len(data) = 0
        BY <2>2, <3>1
      <3>2. CASE Len(data) # 0
        <4> DEFINE last == Len(data)
        <4>1. last \in 1 .. Len(data)
          BY <2>1, <3>2
        <4>2. data[last] \in Entry
          BY <2>1, <4>1
        <4>3. data[last].offset \in Nat /\ data[last].hash \in Hashes
          BY <4>2 DEF Entry
        <4>4. Maps(data, data[last].offset, data[last].hash)
          BY <4>1 DEF Maps
        <4>5. data[last].offset < TREE_NODES
          BY <4>3, <4>4 DEF SInv
        <4>6. last <= data[last].offset + 1
          BY <2>1, <4>1, SortedLong
        <4>7. QED
          BY <2>1, <2>2, <4>3, <4>5, <4>6
      <3>3. QED
        BY <3>1, <3>2
    <2>4. QED
      BY <2>1, <2>3 DEF EntriesSorted, Sorted
  <1>2. QED
    BY <1>1, MapInvariance, PTL

\* ReadsLastWrite: after any sequence of writes every node reads back the hash
\* last written to it, or its default; no write is lost and none shows through
\* at another node, for every depth that the entries' u16 can number.
THEOREM ReadsCorrect ==
  Spec => []ReadsLastWrite
  <1>1. SInv => ReadsLastWrite
    <2> SUFFICES ASSUME SInv, NEW n \in Nodes
                 PROVE  read_sparse_node(data, n[1], n[2], Default) = written[n]
      BY DEF ReadsLastWrite
    <2> DEFINE offset == target_offset(n[1], n[2])
               hash == read_sparse_node(data, n[1], n[2], Default)
    <2>1. \/ hash \in Hashes /\ Maps(data, offset, hash)
          \/ hash = Default /\ ~(\E h \in Hashes : Maps(data, offset, h))
      BY Reading DEF SInv
    <2>2. /\ \A h \in Hashes : Maps(data, offset, h) => h = written[n]
          /\ written[n] # Default => \E h \in Hashes : Maps(data, offset, h)
      BY DEF SInv
    <2> HIDE DEF offset, hash
    <2>3. hash = written[n]
      BY <2>1, <2>2
    <2>4. QED
      BY <2>3 DEF hash
  <1>2. QED
    BY <1>1, MapInvariance, PTL

=============================================================================
