--------------------------- MODULE RegistryProofs ---------------------------
(***************************************************************************)
(* Proofs about Registry, for every value of its constants.                *)
(*                                                                         *)
(* Inv is inductive.  Its parts are the checked invariants and what they   *)
(* need to be preserved: the validity of the members' rate limits and the  *)
(* bound of the counters by `next_index` (CountersInv), and the payers'    *)
(* balances staying below U128_MAX, so that a saturated price is never     *)
(* paid (MoneyInv).  There is one lemma per part and step; the theorems    *)
(* are at the end.                                                         *)
(***************************************************************************)
EXTENDS Registry, FiniteSetTheorems, TLAPS

\* The saturating sum of two naturals is a natural.
LEMMA SaturatingAddNat ==
  ASSUME NEW a \in Nat, NEW b \in Nat
  PROVE  saturating_add(a, b) \in Nat
  BY BoundsAssumption DEF saturating_add

\* The price of a registration (calculate_payment_amount) is a natural.
LEMMA PaymentNat ==
  ASSUME NEW rate \in Nat, NEW price \in Nat
  PROVE  calculate_payment_amount(rate, price) \in Nat
  BY BoundsAssumption DEF calculate_payment_amount

\* secs_to_millis maps naturals to naturals.
LEMMA SecsNat ==
  ASSUME NEW s \in Nat
  PROVE  secs_to_millis(s) \in Nat
  BY DEF secs_to_millis

\* InitConfig writes a well-formed config with both counters at zero.
LEMMA InitConfigType ==
  ASSUME NEW d \in Deployments, InitConfig(d)
  PROVE  config' \in ConfigState
  BY DomainAssumption DEF InitConfig, ConfigState, Deployment

\* RegisterConfig keeps the config well-formed.
LEMMA RegisterConfigType ==
  ASSUME TypeOK, NEW rate \in RateLimits, NEW claim \in Deployments,
         RegisterConfig(rate, claim)
  PROVE  config' \in ConfigState
  <1>1. config \in ConfigState
    BY DEF TypeOK, RegisterConfig, RegisterConfigChecks, assert_config_ids
  <1>2. rate \in Nat
    BY DomainAssumption
  <1>3. /\ saturating_add(config.total_registrations, 1) \in Nat
        /\ saturating_add(config.current_total_rate_limit, rate) \in Nat
    BY <1>1, <1>2, SaturatingAddNat DEF ConfigState
  <1>4. QED
    BY <1>1, <1>3 DEF RegisterConfig, RegisterConfigChecks, ConfigState

\* ReleaseConfig keeps the config well-formed: the counters saturate at zero.
LEMMA ReleaseConfigType ==
  ASSUME TypeOK, NEW rate \in RateLimits, NEW p,
         ReleaseConfig(rate, p)
  PROVE  config' \in ConfigState
  <1>1. config \in ConfigState
    BY DEF TypeOK, ReleaseConfig, assert_config_ids
  <1>2. rate \in Nat
    BY DomainAssumption
  <1>3. /\ saturating_sub(config.total_registrations, 1) \in Nat
        /\ saturating_sub(config.current_total_rate_limit, rate) \in Nat
    BY <1>1, <1>2 DEF ConfigState, saturating_sub
  <1>4. QED
    BY <1>1, <1>3 DEF ReleaseConfig, ConfigState

\* insert_leaf keeps every tree shard well-formed: its guard stops `next_index`
\* at the last leaf.
LEMMA InsertType ==
  ASSUME TypeOK, NEW p \in MerklePrograms, NEW leaf \in Leaves,
         insert_leaf(p, leaf)
  PROVE  tree' \in [MerklePrograms -> Tree \cup {Empty}]
  BY BoundsAssumption DEF TypeOK, insert_leaf, insert_leaf_checks, Tree, Indices

\* remove_leaf keeps every tree shard well-formed.
LEMMA RemoveType ==
  ASSUME TypeOK, NEW p \in MerklePrograms, NEW i \in Indices, NEW leaf,
         remove_leaf(p, i, leaf)
  PROVE  tree' \in [MerklePrograms -> Tree \cup {Empty}]
  BY BoundsAssumption DEF TypeOK, remove_leaf, remove_leaf_checks, Tree, Indices, Leaves

\* native_payment never makes a balance negative.
LEMMA PaymentType ==
  ASSUME TypeOK, NEW payer \in Payers, NEW t \in Treasuries, NEW amount \in Nat,
         native_payment(payer, t, amount)
  PROVE  balance' \in [Payers \cup Treasuries -> Nat]
  BY DEF TypeOK, native_payment

\* InitMembership writes a well-formed record.
LEMMA InitMembershipType ==
  ASSUME TypeOK, NEW c \in Commitments, NEW rate \in RateLimits,
         NEW claim \in Deployments, NEW now \in Instants,
         InitMembership(c, rate, claim, now)
  PROVE  membership' \in [Commitments -> MembershipState \cup {Empty}]
  <1>1. /\ claim.active_duration_sec \in Nat
        /\ claim.grace_period_duration_sec \in Nat
        /\ rate \in Nat
        /\ now \in Nat
    BY DomainAssumption DEF Deployment
  <1>2. saturating_add(now, secs_to_millis(claim.active_duration_sec)) \in Nat
    BY <1>1, SaturatingAddNat, SecsNat
  <1>3. QED
    BY <1>1, <1>2 DEF InitMembership, TypeOK, MembershipState

\* ExtendMembership keeps the record well-formed.
LEMMA ExtendMembershipType ==
  ASSUME TypeOK, NEW c \in Commitments, NEW rate, NEW now,
         ExtendMembership(c, rate, now)
  PROVE  membership' \in [Commitments -> MembershipState \cup {Empty}]
  <1> DEFINE m == membership[c]
  <1>1. m \in MembershipState
    BY DEF TypeOK, ExtendMembership, ExtendMembershipChecks
  <1> DEFINE start == saturating_add(
                        saturating_add(m.grace_period_start_timestamp_ms,
                                       secs_to_millis(m.grace_period_duration_sec)),
                        secs_to_millis(m.active_duration_sec))
  <1>2. start \in Nat
    BY <1>1, SaturatingAddNat, SecsNat DEF MembershipState
  <1>3. membership' = [membership EXCEPT
          ![c] = [m EXCEPT !.grace_period_start_timestamp_ms = start]]
    BY DEF ExtendMembership, ExtendMembershipChecks
  <1>4. [m EXCEPT !.grace_period_start_timestamp_ms = start] \in MembershipState
    BY <1>1, <1>2 DEF MembershipState
  <1>5. QED
    BY <1>3, <1>4 DEF TypeOK

\* Emptying a membership shard (Slash, Erase) keeps the shards well-formed.
LEMMA ClearMembershipType ==
  ASSUME TypeOK, NEW c \in Commitments,
         membership' = [membership EXCEPT ![c] = Empty]
  PROVE  membership' \in [Commitments -> MembershipState \cup {Empty}]
  BY DEF TypeOK

\* compute_registration_leaf yields a leaf.
LEMMA LeafType ==
  ASSUME NEW c \in Commitments, NEW rate \in RateLimits
  PROVE  compute_registration_leaf(c, rate) \in Leaves
  BY DomainAssumption DEF compute_registration_leaf, Leaves

\* Extend only ever renews a membership that has a sale on record.
Recorded == \A c \in Members : sale[c] # Empty

\* Every instruction and every step of the environment keeps the types.  Extend
\* needs Recorded: it counts a period on an existing sale.
LEMMA TypeStep ==
  ASSUME TypeOK, Recorded, [Next]_vars
  PROVE  TypeOK'
  <1>1. ASSUME NEW d \in Deployments, Initialize(d) PROVE TypeOK'
    BY <1>1, InitConfigType DEF Initialize, TypeOK
  <1>2. ASSUME NEW p \in MerklePrograms, InitializeMerkleTree(p) PROVE TypeOK'
    <2>1. EmptyTree \in Tree
      BY BoundsAssumption DEF EmptyTree, Tree, Leaves, Indices
    <2>2. QED
      BY <1>2, <2>1 DEF InitializeMerkleTree, initialize_tree, TypeOK
  <1>3. ASSUME NEW c \in Commitments, NEW rate \in RateLimits,
               NEW claim \in Deployments, NEW now \in Instants,
               NEW payer \in Payers, Register(c, rate, claim, now, payer)
        PROVE  TypeOK'
    <2>1. /\ claim.merkle_program_id \in MerklePrograms
          /\ claim.treasury_account_id \in Treasuries
          /\ claim.price_per_unit \in Nat
          /\ rate \in Nat
          /\ now \in Nat
      BY DomainAssumption DEF Deployment
    <2>2. config' \in ConfigState
      BY <1>3, RegisterConfigType DEF Register
    <2>3. membership' \in [Commitments -> MembershipState \cup {Empty}]
      BY <1>3, InitMembershipType DEF Register
    <2>4. tree' \in [MerklePrograms -> Tree \cup {Empty}]
      BY <1>3, <2>1, InsertType, LeafType DEF Register
    <2>5. balance' \in [Payers \cup Treasuries -> Nat]
      BY <1>3, <2>1, PaymentType, PaymentNat DEF Register
    <2>6. sale' \in [Commitments -> Sale \cup {Empty}]
      BY <1>3, <2>1 DEF Register, TypeOK, Sale
    <2>7. QED
      BY <1>3, <2>1, <2>2, <2>3, <2>4, <2>5, <2>6 DEF Register, TypeOK
  <1>4. ASSUME NEW s \in Secrets, NEW c \in Commitments, NEW rate \in RateLimits,
               NEW p \in MerklePrograms, NEW i \in Indices, Slash(s, c, rate, p, i)
        PROVE  TypeOK'
    <2>1. config' \in ConfigState
      BY <1>4, ReleaseConfigType DEF Slash
    <2>2. membership' \in [Commitments -> MembershipState \cup {Empty}]
      BY <1>4, ClearMembershipType DEF Slash, SlashMembership, SlashMembershipChecks
    <2>3. tree' \in [MerklePrograms -> Tree \cup {Empty}]
      BY <1>4, RemoveType DEF Slash
    <2>4. QED
      BY <1>4, <2>1, <2>2, <2>3 DEF Slash, TypeOK
  <1>5. ASSUME NEW c \in Commitments, NEW rate \in RateLimits,
               NEW claim \in Deployments, NEW now \in Instants,
               NEW payer \in Payers, Extend(c, rate, claim, now, payer)
        PROVE  TypeOK'
    <2>1. /\ claim.treasury_account_id \in Treasuries
          /\ claim.price_per_unit \in Nat
          /\ rate \in Nat
      BY DomainAssumption DEF Deployment
    <2>2. membership' \in [Commitments -> MembershipState \cup {Empty}]
      BY <1>5, ExtendMembershipType DEF Extend
    <2>3. balance' \in [Payers \cup Treasuries -> Nat]
      BY <1>5, <2>1, PaymentType, PaymentNat DEF Extend
    <2>4. sale[c] \in Sale
      BY <1>5 DEF Extend, ExtendMembership, ExtendMembershipChecks, Recorded, Members, TypeOK
    <2>5. [sale[c] EXCEPT !.periods = @ + 1] \in Sale
      BY <2>4 DEF Sale
    <2>6. sale' = [sale EXCEPT ![c] = [sale[c] EXCEPT !.periods = @ + 1]]
      BY <1>5 DEF Extend
    <2>7. sale' \in [Commitments -> Sale \cup {Empty}]
      BY <2>5, <2>6 DEF TypeOK
    <2>8. QED
      BY <1>5, <2>1, <2>2, <2>3, <2>7 DEF Extend, TypeOK
  <1>6. ASSUME NEW c \in Commitments, NEW rate \in RateLimits,
               NEW p \in MerklePrograms, NEW i \in Indices, NEW now \in Instants,
               Erase(c, rate, p, i, now)
        PROVE  TypeOK'
    <2>1. config' \in ConfigState
      BY <1>6, ReleaseConfigType DEF Erase
    <2>2. membership' \in [Commitments -> MembershipState \cup {Empty}]
      BY <1>6, ClearMembershipType DEF Erase, EraseMembership, EraseMembershipChecks
    <2>3. tree' \in [MerklePrograms -> Tree \cup {Empty}]
      BY <1>6, RemoveType DEF Erase
    <2>4. QED
      BY <1>6, <2>1, <2>2, <2>3 DEF Erase, TypeOK
  <1>7. ASSUME NEW t \in Instants, Tick(t) PROVE TypeOK'
    BY <1>7 DEF Tick, TypeOK
  <1>8. ASSUME NEW s \in Secrets, Reveal(s) PROVE TypeOK'
    BY <1>8 DEF Reveal, TypeOK
  <1>9. CASE UNCHANGED vars
    BY <1>9 DEF vars, TypeOK
  <1>10. QED
    BY <1>1, <1>2, <1>3, <1>4, <1>5, <1>6, <1>7, <1>8, <1>9 DEF Next

-----------------------------------------------------------------------------
(* Members and leaves under the four operations that touch them.           *)

\* InitMembership adds one member and touches no other shard.
LEMMA NewMember ==
  ASSUME TypeOK, NEW c \in Commitments, NEW rate, NEW claim, NEW now,
         InitMembership(c, rate, claim, now)
  PROVE  /\ c \notin Members
         /\ membership'[c] # Empty => Members' = Members \cup {c}
         /\ membership'[c].rate_limit = rate
         /\ \A d \in Members : membership'[d] = membership[d]
  BY DEF InitMembership, Members, TypeOK

\* Emptying a shard removes one member and touches no other.
LEMMA GoneMember ==
  ASSUME TypeOK, NEW c \in Commitments,
         membership' = [membership EXCEPT ![c] = Empty]
  PROVE  /\ Members' = Members \ {c}
         /\ \A d \in Members : d # c => membership'[d] = membership[d]
  BY DEF Members, TypeOK

\* ExtendMembership moves one grace period start and nothing else: the members
\* and their rate limits stay.
LEMMA RenewedMember ==
  ASSUME TypeOK, NEW c \in Commitments, NEW rate, NEW now,
         ExtendMembership(c, rate, now), TypeOK'
  PROVE  /\ Members' = Members
         /\ \A d \in Members : membership'[d].rate_limit = membership[d].rate_limit
  <1> DEFINE m == membership[c]
             start == saturating_add(
                        saturating_add(m.grace_period_start_timestamp_ms,
                                       secs_to_millis(m.grace_period_duration_sec)),
                        secs_to_millis(m.active_duration_sec))
  <1>1. m \in MembershipState
    BY DEF TypeOK, ExtendMembership, ExtendMembershipChecks
  <1>2. membership' = [membership EXCEPT
          ![c] = [m EXCEPT !.grace_period_start_timestamp_ms = start]]
    BY DEF ExtendMembership, ExtendMembershipChecks
  <1> HIDE DEF start
  <1>3. [m EXCEPT !.grace_period_start_timestamp_ms = start].rate_limit = m.rate_limit
    BY <1>1 DEF MembershipState
  <1>4. \A d \in Commitments : d # c => membership'[d] = membership[d]
    BY <1>2 DEF TypeOK
  <1>5. membership'[c] = [m EXCEPT !.grace_period_start_timestamp_ms = start]
    BY <1>2 DEF TypeOK
  <1>6. membership'[c] # Empty
    <2>1. \E st : membership'[c] = [m EXCEPT !.grace_period_start_timestamp_ms = st]
      BY <1>5
    <2>2. start \in Nat
      BY <1>1, SaturatingAddNat, SecsNat DEF MembershipState, start
    <2>3. membership'[c] \in MembershipState
      BY <1>1, <1>5, <2>2 DEF MembershipState
    <2>4. QED
      BY <2>3, EmptyAssumption
  <1>7. m # Empty
    BY DEF ExtendMembership, ExtendMembershipChecks
  <1>8. QED
    BY <1>3, <1>4, <1>5, <1>6, <1>7 DEF Members

\* The members and the leaves of the configured tree, step by step.
TreeInv == OnlyConfiguredTree /\ LeavesMatchMembers

\* Register's chained InsertLeaf and its InitMembership keep the tree and the
\* members in step: the new leaf lands on an empty slot, and no member had it.
LEMMA InsertKeepsTreeInv ==
  ASSUME TypeOK, TypeOK', TreeInv, 
         NEW c \in Commitments, NEW rate \in RateLimits, NEW claim \in Deployments,
         NEW now \in Instants,
         RegisterConfig(rate, claim), InitMembership(c, rate, claim, now),
         insert_leaf(claim.merkle_program_id, compute_registration_leaf(c, rate))
  PROVE  TreeInv'
  <1> DEFINE p == claim.merkle_program_id
             n == tree[p].next_index
             leaf == compute_registration_leaf(c, rate)
  <1>1. /\ p \in MerklePrograms
        /\ config # Empty
        /\ config' # Empty
        /\ config.merkle_program_id = p
        /\ config'.merkle_program_id = p
    <2>1. p \in MerklePrograms
      BY DomainAssumption DEF Deployment
    <2>2. config # Empty /\ config.merkle_program_id = p
      BY DEF RegisterConfig, RegisterConfigChecks, assert_config_ids
    <2>3. config' \in ConfigState
      BY RegisterConfigType
    <2>4. config'.merkle_program_id = config.merkle_program_id
      <3>1. config \in ConfigState
        BY <2>2 DEF TypeOK
      <3>2. QED
        BY <3>1 DEF RegisterConfig, RegisterConfigChecks, ConfigState
    <2>5. QED
      BY <2>1, <2>2, <2>3, <2>4, EmptyAssumption
  <1>2. /\ tree[p] \in Tree
        /\ n \in Indices
        /\ tree'[p] = [next_index |-> n + 1, leaves |-> [tree[p].leaves EXCEPT ![n] = leaf]]
        /\ \A q \in MerklePrograms : q # p => tree'[q] = tree[q]
    <2>1. /\ tree[p] # Empty
          /\ n < TREE_LEAVES
          /\ tree' = [tree EXCEPT ![p] =
                [next_index |-> n + 1, leaves |-> [tree[p].leaves EXCEPT ![n] = leaf]]]
      BY DEF insert_leaf, insert_leaf_checks
    <2>2. tree[p] \in Tree
      BY <1>1, <2>1 DEF TypeOK
    <2>3. n \in Indices
      BY <2>1, <2>2, BoundsAssumption DEF Tree, Indices
    <2>4. QED
      BY <1>1, <2>1, <2>2, <2>3 DEF TypeOK
  <1>3. /\ tree'[p].next_index = n + 1
        /\ tree'[p].leaves[n] = leaf
        /\ \A i \in Indices : i # n => tree'[p].leaves[i] = tree[p].leaves[i]
    BY <1>2 DEF Tree
  <1>4. /\ tree[p] # Empty
        /\ tree'[p] # Empty
    <2>1. tree'[p] \in Tree
      BY <1>1, <1>2, BoundsAssumption, LeafType DEF Tree, Indices
    <2>2. QED
      BY <1>2, <2>1, EmptyAssumption
  <1>5. /\ c \notin Members
        /\ Members' = Members \cup {c}
        /\ membership'[c].rate_limit = rate
        /\ \A d \in Members : membership'[d] = membership[d]
    <2>1. membership'[c] # Empty
      <3>1. \E st : membership'[c] = [rate_limit |-> rate,
                 grace_period_start_timestamp_ms |-> st,
                 active_duration_sec |-> claim.active_duration_sec,
                 grace_period_duration_sec |-> claim.grace_period_duration_sec]
        BY DEF InitMembership, TypeOK
      <3>2. /\ claim.active_duration_sec \in Nat
            /\ claim.grace_period_duration_sec \in Nat
            /\ rate \in Nat /\ now \in Nat
        BY DomainAssumption DEF Deployment
      <3>3. saturating_add(now, secs_to_millis(claim.active_duration_sec)) \in Nat
        BY <3>2, SaturatingAddNat, SecsNat
      <3>4. membership'[c] \in MembershipState
        BY <3>2, <3>3 DEF InitMembership, TypeOK, MembershipState
      <3>5. QED
        BY <3>4, EmptyAssumption
    <2>2. QED
      BY <2>1, NewMember
  <1>6. /\ MemberLeaf(c)' = leaf
        /\ \A d \in Members : MemberLeaf(d)' = MemberLeaf(d)
    BY <1>5 DEF MemberLeaf, compute_registration_leaf
  <1>7. \A d \in Members : MemberLeaf(d) # leaf
    BY <1>5 DEF MemberLeaf, compute_registration_leaf
  <1>8. leaf # ZERO
    BY DomainAssumption, EmptyAssumption DEF compute_registration_leaf
  <1>9. OnlyConfiguredTree'
    BY <1>1, <1>2 DEF OnlyConfiguredTree, TreeInv
  <1> HIDE DEF p, n, leaf
  <1>10. \A i \in Indices : tree[p].leaves[i] # ZERO =>
               i < n /\ \E d \in Members : tree[p].leaves[i] = MemberLeaf(d)
    BY <1>1, <1>4 DEF TreeInv, LeavesMatchMembers, n
  <1>11. \A d \in Members' : \E i \in Indices : tree'[p].leaves[i] = MemberLeaf(d)'
    <2>1. ASSUME NEW d \in Members 
          PROVE \E i \in Indices : tree'[p].leaves[i] = MemberLeaf(d)'
      <3>1. PICK i \in Indices : tree[p].leaves[i] = MemberLeaf(d)
        BY <1>1 DEF TreeInv, LeavesMatchMembers
      <3>2. MemberLeaf(d) # ZERO
        <4>1. d \in Commitments /\ membership[d] \in MembershipState
          BY DEF Members, TypeOK
        <4>2. membership[d].rate_limit \in Nat
          BY <4>1 DEF MembershipState
        <4>3. QED
          BY <4>1, <4>2, EmptyAssumption DEF MemberLeaf, compute_registration_leaf
      <3>3. i # n
        BY <3>1, <3>2, <1>10, <1>2 DEF Indices
      <3>4. QED
        BY <3>1, <3>3, <1>3, <1>6
    <2>2. QED
      BY <2>1, <1>2, <1>3, <1>5, <1>6
  <1>12. \A i \in Indices : tree'[p].leaves[i] # ZERO =>
               /\ i < tree'[p].next_index
               /\ \E d \in Members' : tree'[p].leaves[i] = MemberLeaf(d)'
    <2> TAKE i \in Indices
    <2>1. CASE i = n
      BY <2>1, <1>2, <1>3, <1>5, <1>6 DEF Indices
    <2>2. CASE i # n
      <3>1. HAVE tree'[p].leaves[i] # ZERO
      <3>2. tree'[p].leaves[i] = tree[p].leaves[i]
        BY <2>2, <1>3
      <3>3. PICK d \in Members : tree[p].leaves[i] = MemberLeaf(d)
        BY <3>1, <3>2, <1>10
      <3>4. i < n
        BY <3>1, <3>2, <1>10
      <3>5. QED
        BY <3>2, <3>3, <3>4, <1>2, <1>3, <1>5, <1>6 DEF Indices
    <2>3. QED
      BY <2>1, <2>2
  <1>13. \A i, j \in Indices :
             tree'[p].leaves[i] = tree'[p].leaves[j] /\ tree'[p].leaves[i] # ZERO
               => i = j
    <2>1. \A i, j \in Indices :
             tree[p].leaves[i] = tree[p].leaves[j] /\ tree[p].leaves[i] # ZERO => i = j
      BY <1>1, <1>4 DEF TreeInv, LeavesMatchMembers
    <2>2. \A i \in Indices : tree[p].leaves[i] # leaf
      BY <1>7, <1>8, <1>10
    <2>3. QED
      BY <2>1, <2>2, <1>3
  <1>14. \A q \in MerklePrograms : tree'[q] # Empty => q = p
    BY <1>9, <1>1 DEF OnlyConfiguredTree
  <1>15. LeavesMatchMembers'
    BY <1>1, <1>4, <1>11, <1>12, <1>13, <1>14 DEF LeavesMatchMembers
  <1>16. QED
    BY <1>9, <1>15 DEF TreeInv

\* The chained RemoveLeaf of Slash and Erase zeroes the removed member's leaf
\* and no other: a leaf found under the claimed pair is the member's only one.
LEMMA RemoveKeepsTreeInv ==
  ASSUME TypeOK, TypeOK', TreeInv,
         NEW c \in Commitments, NEW rate \in RateLimits, NEW p \in MerklePrograms,
         NEW k \in Indices,
         ReleaseConfig(rate, p), membership[c] # Empty,
         membership[c].rate_limit = rate,
         membership' = [membership EXCEPT ![c] = Empty],
         remove_leaf(p, k, compute_registration_leaf(c, rate))
  PROVE  TreeInv'
  <1>1. /\ config # Empty
        /\ config' # Empty
        /\ config.merkle_program_id = p
        /\ config'.merkle_program_id = p
    <2>1. config # Empty /\ config.merkle_program_id = p
      BY DEF ReleaseConfig, assert_config_ids
    <2>2. config \in ConfigState
      BY <2>1 DEF TypeOK
    <2>3. config'.merkle_program_id = config.merkle_program_id
      BY <2>2 DEF ReleaseConfig, ConfigState
    <2>4. config' \in ConfigState
      BY ReleaseConfigType
    <2>5. QED
      BY <2>1, <2>3, <2>4, EmptyAssumption
  <1>2. /\ tree[p] # Empty
        /\ tree[p] \in Tree
        /\ tree[p].leaves[k] = MemberLeaf(c)
        /\ tree'[p] = [next_index |-> tree[p].next_index,
                       leaves |-> [tree[p].leaves EXCEPT ![k] = ZERO]]
        /\ \A q \in MerklePrograms : q # p => tree'[q] = tree[q]
    BY DEF remove_leaf, remove_leaf_checks, TypeOK, MemberLeaf
  <1>3. /\ tree'[p].next_index = tree[p].next_index
        /\ tree'[p].leaves[k] = ZERO
        /\ \A i \in Indices : i # k => tree'[p].leaves[i] = tree[p].leaves[i]
    BY <1>2 DEF Tree
  <1>4. tree'[p] # Empty
    <2>1. tree'[p] \in Tree
      BY <1>2 DEF Tree, Leaves
    <2>2. QED
      BY <2>1, EmptyAssumption
  <1>5. /\ Members' = Members \ {c}
        /\ c \in Members
        /\ \A d \in Members : d # c => membership'[d] = membership[d]
    BY GoneMember DEF Members
  <1>6. \A d \in Members' : MemberLeaf(d)' = MemberLeaf(d) /\ MemberLeaf(d) # MemberLeaf(c)
    BY <1>5 DEF MemberLeaf, compute_registration_leaf
  <1>7. OnlyConfiguredTree'
    BY <1>1, <1>2 DEF OnlyConfiguredTree, TreeInv
  <1>8. \A d \in Members' : \E i \in Indices : tree'[p].leaves[i] = MemberLeaf(d)'
    <2> TAKE d \in Members'
    <2>1. PICK i \in Indices : tree[p].leaves[i] = MemberLeaf(d)
      BY <1>1, <1>5 DEF TreeInv, LeavesMatchMembers
    <2>2. i # k
      BY <2>1, <1>2, <1>6
    <2>3. QED
      BY <2>1, <2>2, <1>3, <1>6
  <1>9. \A i \in Indices : tree'[p].leaves[i] # ZERO =>
              /\ i < tree'[p].next_index
              /\ \E d \in Members' : tree'[p].leaves[i] = MemberLeaf(d)'
    <2> SUFFICES ASSUME NEW i \in Indices, tree'[p].leaves[i] # ZERO
                 PROVE  /\ i < tree'[p].next_index
                        /\ \E d \in Members' : tree'[p].leaves[i] = MemberLeaf(d)'
      OBVIOUS
    <2>1. i # k /\ tree'[p].leaves[i] = tree[p].leaves[i]
      BY <1>3
    <2>2. PICK d \in Members : tree[p].leaves[i] = MemberLeaf(d)
      BY <2>1, <1>2 DEF TreeInv, LeavesMatchMembers
    <2>3. i < tree[p].next_index
      BY <2>1, <1>2 DEF TreeInv, LeavesMatchMembers
    <2>4. d # c
      <3>1. d = c => tree[p].leaves[i] = tree[p].leaves[k]
        BY <2>2, <1>2
      <3>2. tree[p].leaves[i] = tree[p].leaves[k] => i = k
        BY <2>1, <1>2 DEF TreeInv, LeavesMatchMembers
      <3>3. QED
        BY <3>1, <3>2, <2>1
    <2>5. QED
      BY <2>1, <2>2, <2>3, <2>4, <1>3, <1>5, <1>6
  <1>10. \A i, j \in Indices :
             tree'[p].leaves[i] = tree'[p].leaves[j] /\ tree'[p].leaves[i] # ZERO
               => i = j
    <2>1. \A i, j \in Indices :
             tree[p].leaves[i] = tree[p].leaves[j] /\ tree[p].leaves[i] # ZERO => i = j
      BY <1>2 DEF TreeInv, LeavesMatchMembers
    <2>2. QED
      BY <2>1, <1>3
  <1>11. \A q \in MerklePrograms : tree'[q] # Empty => q = p
    BY <1>7, <1>1 DEF OnlyConfiguredTree
  <1>12. LeavesMatchMembers'
    BY <1>1, <1>4, <1>8, <1>9, <1>10, <1>11 DEF LeavesMatchMembers
  <1>13. QED
    BY <1>7, <1>12 DEF TreeInv

\* Every step keeps the tree in step with the members.
LEMMA TreeStep ==
  ASSUME TypeOK, TypeOK', TreeInv, CountersMatchMembers, [Next]_vars
  PROVE  TreeInv'
  <1>1. ASSUME NEW d \in Deployments, Initialize(d) PROVE TreeInv'
    <2>1. config = Empty /\ Members = {}
      BY <1>1 DEF Initialize, InitConfig, CountersMatchMembers
    <2>2. \A p \in MerklePrograms : tree[p] = Empty
      BY <2>1 DEF TreeInv, OnlyConfiguredTree
    <2>3. tree' = tree /\ membership' = membership
      BY <1>1 DEF Initialize
    <2>4. Members' = {}
      BY <2>1, <2>3 DEF Members
    <2>5. QED
      BY <2>2, <2>3, <2>4 DEF TreeInv, OnlyConfiguredTree, LeavesMatchMembers
  <1>2. ASSUME NEW p \in MerklePrograms, InitializeMerkleTree(p) PROVE TreeInv'
    <2>1. /\ config # Empty /\ config' = config
          /\ config.merkle_program_id = p
          /\ tree[p] = Empty
          /\ membership' = membership
      BY <1>2 DEF InitializeMerkleTree, initialize_tree, assert_config_ids
    <2>2. Members = {}
      BY <2>1 DEF TreeInv, LeavesMatchMembers
    <2>3. Members' = {}
      BY <2>1, <2>2 DEF Members
    <2>4. \A q \in MerklePrograms : tree'[q] = IF q = p THEN EmptyTree ELSE tree[q]
      BY <1>2 DEF InitializeMerkleTree, initialize_tree, TypeOK
    <2>5. \A q \in MerklePrograms : q # p => tree[q] = Empty
      BY <2>1 DEF TreeInv, OnlyConfiguredTree
    <2>6. OnlyConfiguredTree'
      BY <2>1, <2>4, <2>5 DEF OnlyConfiguredTree
    <2>7. \A i \in Indices : EmptyTree.leaves[i] = ZERO
      BY DEF EmptyTree
    <2>8. QED
      BY <2>3, <2>4, <2>5, <2>6, <2>7 DEF TreeInv, LeavesMatchMembers
  <1>3. ASSUME NEW c \in Commitments, NEW rate \in RateLimits,
               NEW claim \in Deployments, NEW now \in Instants,
               NEW payer \in Payers, Register(c, rate, claim, now, payer)
        PROVE  TreeInv'
    BY <1>3, InsertKeepsTreeInv DEF Register
  <1>4. ASSUME NEW s \in Secrets, NEW c \in Commitments, NEW rate \in RateLimits,
               NEW p \in MerklePrograms, NEW i \in Indices, Slash(s, c, rate, p, i)
        PROVE  TreeInv'
    BY <1>4, RemoveKeepsTreeInv DEF Slash, SlashMembership, SlashMembershipChecks
  <1>5. ASSUME NEW c \in Commitments, NEW rate \in RateLimits,
               NEW claim \in Deployments, NEW now \in Instants,
               NEW payer \in Payers, Extend(c, rate, claim, now, payer)
        PROVE  TreeInv'
    <2>1. config' = config /\ tree' = tree
      BY <1>5 DEF Extend
    <2>2. /\ Members' = Members
          /\ \A d \in Members : membership'[d].rate_limit = membership[d].rate_limit
      BY <1>5, RenewedMember DEF Extend
    <2>3. \A d \in Members : MemberLeaf(d)' = MemberLeaf(d)
      BY <2>2 DEF MemberLeaf
    <2>4. QED
      BY <2>1, <2>2, <2>3 DEF TreeInv, OnlyConfiguredTree, LeavesMatchMembers
  <1>6. ASSUME NEW c \in Commitments, NEW rate \in RateLimits,
               NEW p \in MerklePrograms, NEW i \in Indices, NEW now \in Instants,
               Erase(c, rate, p, i, now)
        PROVE  TreeInv'
    BY <1>6, RemoveKeepsTreeInv DEF Erase, EraseMembership, EraseMembershipChecks
  <1>7. ASSUME UNCHANGED <<config, membership, tree>> PROVE TreeInv'
    BY <1>7 DEF TreeInv, OnlyConfiguredTree, LeavesMatchMembers, Members, MemberLeaf
  <1>8. QED
    BY <1>1, <1>2, <1>3, <1>4, <1>5, <1>6, <1>7 DEF Next, Tick, Reveal, vars

-----------------------------------------------------------------------------
(* Counting members and their units of rate limit.                         *)

\* c's block of RateUnits when it holds `rate` units.
Block(c, rate) == {c} \X (1 .. rate)

\* A member's block of units has as many elements as its rate limit.
LEMMA BlockSize ==
  ASSUME NEW c, NEW rate \in Nat
  PROVE  IsFiniteSet(Block(c, rate)) /\ Cardinality(Block(c, rate)) = rate
  <1>1. IsFiniteSet({c}) /\ Cardinality({c}) = 1
    BY FS_Singleton
  <1>2. IsFiniteSet(1 .. rate) /\ Cardinality(1 .. rate) = rate
    BY FS_Interval
  <1>3. /\ IsFiniteSet({c} \X (1 .. rate))
        /\ Cardinality({c} \X (1 .. rate)) = Cardinality({c}) * Cardinality(1 .. rate)
    BY <1>1, <1>2, FS_Product, Zenon
  <1>4. Cardinality({c}) * Cardinality(1 .. rate) = rate
    BY <1>1, <1>2
  <1>5. QED
    BY <1>3, <1>4 DEF Block

\* The units held are finitely many.
LEMMA RateUnitsFinite == IsFiniteSet(RateUnits)
  <1>1. IsFiniteSet(1 .. MAX_RATE_LIMIT)
    BY FS_Interval, BoundsAssumption
  <1>2. IsFiniteSet(Commitments \X (1 .. MAX_RATE_LIMIT))
    BY <1>1, FS_Product, DomainAssumption
  <1>3. RateUnits \in SUBSET (Commitments \X (1 .. MAX_RATE_LIMIT))
    BY DEF RateUnits
  <1>4. QED
    BY <1>2, <1>3, FS_Subset

\* The members are finitely many.
LEMMA MembersFinite == IsFiniteSet(Members)
  BY FS_Subset, DomainAssumption DEF Members

\* Cardinality of a disjoint union.
LEMMA DisjointUnion ==
  ASSUME NEW S, NEW T, IsFiniteSet(S), IsFiniteSet(T), S \cap T = {}
  PROVE  Cardinality(S \cup T) = Cardinality(S) + Cardinality(T)
  <1>1. Cardinality(S \cap T) = 0
    BY FS_EmptySet
  <1>2. Cardinality(S) \in Nat /\ Cardinality(T) \in Nat
    BY FS_CardinalityType
  <1>3. Cardinality(S \cup T) = Cardinality(S) + Cardinality(T) - Cardinality(S \cap T)
    BY FS_Union
  <1>4. QED
    BY <1>1, <1>2, <1>3

\* Every standing membership holds a valid number of units.
RatesValid == \A c \in Members : membership[c].rate_limit \in 0 .. MAX_RATE_LIMIT

\* A new member adds its rate limit to the units held, and one to the members.
LEMMA UnitsAdded ==
  ASSUME NEW c \in Commitments, NEW rate \in 0 .. MAX_RATE_LIMIT,
         c \notin Members, Members' = Members \cup {c},
         membership'[c].rate_limit = rate,
         \A d \in Members : membership'[d] = membership[d]
  PROVE  /\ Cardinality(RateUnits)' = Cardinality(RateUnits) + rate
         /\ Cardinality(Members)' = Cardinality(Members) + 1
  <1>1. RateUnits' = RateUnits \cup Block(c, rate)
    <2>1. \A u \in Commitments \X (1 .. MAX_RATE_LIMIT) :
             u \in RateUnits' <=> u \in RateUnits \/ u \in Block(c, rate)
      <3> SUFFICES ASSUME NEW d \in Commitments, NEW k \in 1 .. MAX_RATE_LIMIT
                   PROVE  <<d, k>> \in RateUnits' <=>
                            <<d, k>> \in RateUnits \/ <<d, k>> \in Block(c, rate)
        OBVIOUS
      <3>1. <<d, k>> \in RateUnits' <=> d \in Members' /\ k <= membership'[d].rate_limit
        BY DEF RateUnits
      <3>2. <<d, k>> \in RateUnits <=> d \in Members /\ k <= membership[d].rate_limit
        BY DEF RateUnits
      <3>3. <<d, k>> \in Block(c, rate) <=> d = c /\ k <= rate
        BY BoundsAssumption DEF Block
      <3>4. CASE d = c
        BY <3>1, <3>2, <3>3, <3>4
      <3>5. CASE d # c
        BY <3>1, <3>2, <3>3, <3>5
      <3>6. QED
        BY <3>4, <3>5
    <2>2. Block(c, rate) \subseteq Commitments \X (1 .. MAX_RATE_LIMIT)
      BY BoundsAssumption DEF Block
    <2>3. RateUnits \subseteq Commitments \X (1 .. MAX_RATE_LIMIT)
      BY DEF RateUnits
    <2>4. RateUnits' \subseteq Commitments \X (1 .. MAX_RATE_LIMIT)
      BY DEF RateUnits
    <2>5. QED
      BY <2>1, <2>2, <2>3, <2>4, Zenon
  <1>2. RateUnits \cap Block(c, rate) = {}
    BY DEF RateUnits, Block
  <1>3. rate \in Nat
    BY BoundsAssumption
  <1>4. Cardinality(RateUnits') = Cardinality(RateUnits) + Cardinality(Block(c, rate))
    BY <1>1, <1>2, <1>3, BlockSize, RateUnitsFinite, DisjointUnion
  <1>5. Cardinality(Members') = Cardinality(Members) + 1
    BY MembersFinite, FS_AddElement
  <1>6. QED
    BY <1>3, <1>4, <1>5, BlockSize

\* Removing a member frees exactly its rate limit.
LEMMA UnitsFreed ==
  ASSUME NEW c \in Commitments, c \in Members, RatesValid,
         Members' = Members \ {c},
         \A d \in Members : d # c => membership'[d] = membership[d]
  PROVE  /\ Cardinality(RateUnits) = Cardinality(RateUnits)' + membership[c].rate_limit
         /\ Cardinality(Members) = Cardinality(Members)' + 1
         /\ IsFiniteSet(RateUnits)' /\ IsFiniteSet(Members)'
  <1> DEFINE rate == membership[c].rate_limit
  <1>0. rate \in 0 .. MAX_RATE_LIMIT /\ rate \in Nat
    BY BoundsAssumption DEF RatesValid
  <1>1. RateUnits = RateUnits' \cup Block(c, rate)
    <2>1. \A u \in Commitments \X (1 .. MAX_RATE_LIMIT) :
             u \in RateUnits <=> u \in RateUnits' \/ u \in Block(c, rate)
      <3> SUFFICES ASSUME NEW d \in Commitments, NEW k \in 1 .. MAX_RATE_LIMIT
                   PROVE  <<d, k>> \in RateUnits <=>
                            <<d, k>> \in RateUnits' \/ <<d, k>> \in Block(c, rate)
        OBVIOUS
      <3>1. <<d, k>> \in RateUnits' <=> d \in Members' /\ k <= membership'[d].rate_limit
        BY DEF RateUnits
      <3>2. <<d, k>> \in RateUnits <=> d \in Members /\ k <= membership[d].rate_limit
        BY DEF RateUnits
      <3>3. <<d, k>> \in Block(c, rate) <=> d = c /\ k <= rate
        BY <1>0, BoundsAssumption DEF Block
      <3>4. CASE d = c
        BY <3>1, <3>2, <3>3, <3>4
      <3>5. CASE d # c
        BY <3>1, <3>2, <3>3, <3>5
      <3>6. QED
        BY <3>4, <3>5
    <2>2. Block(c, rate) \subseteq Commitments \X (1 .. MAX_RATE_LIMIT)
      BY <1>0, BoundsAssumption DEF Block
    <2>3. RateUnits \subseteq Commitments \X (1 .. MAX_RATE_LIMIT)
      BY DEF RateUnits
    <2>4. RateUnits' \subseteq Commitments \X (1 .. MAX_RATE_LIMIT)
      BY DEF RateUnits
    <2>5. QED
      BY <2>1, <2>2, <2>3, <2>4, Zenon
  <1>2. RateUnits' \cap Block(c, rate) = {}
    BY DEF RateUnits, Block
  <1>3. IsFiniteSet(RateUnits') /\ IsFiniteSet(Members')
    <2>1. RateUnits' \in SUBSET RateUnits
      BY <1>1
    <2>2. Members' \in SUBSET Members
      OBVIOUS
    <2>3. QED
      BY <2>1, <2>2, RateUnitsFinite, MembersFinite, FS_Subset
  <1>4. Cardinality(RateUnits) = Cardinality(RateUnits') + Cardinality(Block(c, rate))
    <2>1. IsFiniteSet(Block(c, rate))
      BY <1>0, BlockSize
    <2>2. QED
      BY <1>1, <1>2, <1>3, <2>1, DisjointUnion
  <1>5. Cardinality(Members) = Cardinality(Members') + 1
    <2>1. Members = Members' \cup {c} /\ c \notin Members'
      OBVIOUS
    <2>2. QED
      BY <2>1, <1>3, FS_AddElement
  <1>6. QED
    BY <1>0, <1>3, <1>4, <1>5, BlockSize

\* Leaf indices used so far: the registrations the tree has ever taken.
Filled == IF tree[config.merkle_program_id] = Empty
          THEN 0 ELSE tree[config.merkle_program_id].next_index

\* The counters stay below what the tree has room for, so the saturating
\* additions of RegisterConfig never saturate.
CountersBounded ==
    config # Empty =>
        /\ config.total_registrations <= Filled
        /\ config.current_total_rate_limit <= Filled * MAX_RATE_LIMIT

\* The counters, the validity of what they count, and their room below u64.
CountersInv ==
    RatesValid /\ CountersMatchMembers /\ CountersBounded /\ LiveRateWithinCap

\* A registration that found a free leaf cannot saturate a u64 counter: each
\* living member holds at most MAX_RATE_LIMIT units and one leaf.
LEMMA RoomForOne ==
  ASSUME NEW n \in Nat, n < TREE_LEAVES, NEW rate \in 0 .. MAX_RATE_LIMIT,
         NEW x \in Nat, x <= n * MAX_RATE_LIMIT
  PROVE  /\ x + rate <= (n + 1) * MAX_RATE_LIMIT
         /\ x + rate <= U64_MAX
  <1>1. \A a, b, m \in Nat : a <= b => a * m <= b * m
    OBVIOUS
  <1>2. (n + 1) * MAX_RATE_LIMIT <= TREE_LEAVES * MAX_RATE_LIMIT
    BY <1>1, BoundsAssumption
  <1>3. (n + 1) * MAX_RATE_LIMIT = n * MAX_RATE_LIMIT + MAX_RATE_LIMIT
    BY BoundsAssumption
  <1>4. n * MAX_RATE_LIMIT \in Nat /\ TREE_LEAVES * MAX_RATE_LIMIT \in Nat
    BY BoundsAssumption
  <1>5. QED
    BY <1>2, <1>3, <1>4, BoundsAssumption, WidthAssumption

\* RegisterConfig counts exactly the member and the units that Register adds.
LEMMA RegisterCounts ==
  ASSUME TypeOK, TypeOK', CountersInv,
         NEW c \in Commitments, NEW rate \in RateLimits, NEW claim \in Deployments,
         NEW now \in Instants, validate_rate_limit(rate),
         RegisterConfig(rate, claim), InitMembership(c, rate, claim, now),
         insert_leaf(claim.merkle_program_id, compute_registration_leaf(c, rate))
  PROVE  CountersInv'
  <1> DEFINE p == claim.merkle_program_id
             n == tree[p].next_index
  <1>1. /\ p \in MerklePrograms
        /\ config \in ConfigState
        /\ config # Empty
        /\ config.merkle_program_id = p
        /\ rate \in 0 .. MAX_RATE_LIMIT
        /\ can_register(rate)
    BY DomainAssumption, BoundsAssumption
       DEF Deployment, RegisterConfig, RegisterConfigChecks, assert_config_ids, TypeOK,
           validate_rate_limit
  <1>2. /\ config'.merkle_program_id = p
        /\ config'.max_total_rate_limit = config.max_total_rate_limit
        /\ config'.total_registrations = saturating_add(config.total_registrations, 1)
        /\ config'.current_total_rate_limit
              = saturating_add(config.current_total_rate_limit, rate)
    BY <1>1 DEF RegisterConfig, RegisterConfigChecks, ConfigState
  <1>3. /\ tree[p] # Empty
        /\ n \in Nat /\ n < TREE_LEAVES
        /\ tree'[p] = [next_index |-> n + 1,
              leaves |-> [tree[p].leaves EXCEPT ![n] = compute_registration_leaf(c, rate)]]
    <2>1. /\ tree[p] # Empty
          /\ n < TREE_LEAVES
          /\ tree' = [tree EXCEPT ![p] = [next_index |-> n + 1,
                leaves |-> [tree[p].leaves EXCEPT ![n] = compute_registration_leaf(c, rate)]]]
      BY DEF insert_leaf, insert_leaf_checks
    <2>2. tree[p] \in Tree
      BY <1>1, <2>1 DEF TypeOK
    <2>3. n \in Nat
      BY <2>2 DEF Tree
    <2>4. QED
      BY <1>1, <2>1, <2>3 DEF TypeOK
  <1>4. tree'[p] # Empty
    <2>1. tree[p] \in Tree
      BY <1>1, <1>3 DEF TypeOK
    <2>2. compute_registration_leaf(c, rate) \in Leaves
      BY LeafType
    <2>3. tree'[p] \in Tree
      BY <1>3, <2>1, <2>2, BoundsAssumption DEF Tree, Indices
    <2>4. QED
      BY <2>3, EmptyAssumption
  <1>5. Filled = n /\ Filled' = n + 1
    BY <1>1, <1>2, <1>3, <1>4 DEF Filled
  <1> HIDE DEF n
  <1>6. /\ config.total_registrations \in Nat
        /\ config.current_total_rate_limit \in Nat
        /\ config.total_registrations <= n
        /\ config.current_total_rate_limit <= n * MAX_RATE_LIMIT
    BY <1>1, <1>5 DEF CountersInv, CountersBounded, ConfigState
  <1>7. /\ config'.total_registrations = config.total_registrations + 1
        /\ config'.current_total_rate_limit = config.current_total_rate_limit + rate
        /\ config'.current_total_rate_limit <= (n + 1) * MAX_RATE_LIMIT
        /\ config'.current_total_rate_limit <= config.max_total_rate_limit
    <2>1. /\ config.current_total_rate_limit + rate <= (n + 1) * MAX_RATE_LIMIT
          /\ config.current_total_rate_limit + rate <= U64_MAX
      BY <1>1, <1>3, <1>6, RoomForOne
    <2>2. config.total_registrations + 1 <= U64_MAX
      BY <1>3, <1>6, WidthAssumption, BoundsAssumption
    <2>3. QED
      BY <1>1, <1>2, <1>6, <2>1, <2>2, BoundsAssumption DEF saturating_add, can_register
  <1>8. /\ c \notin Members
        /\ Members' = Members \cup {c}
        /\ membership'[c].rate_limit = rate
        /\ \A d \in Members : membership'[d] = membership[d]
    <2>1. membership'[c] # Empty
      <3>1. membership'[c] = [rate_limit |-> rate,
                 grace_period_start_timestamp_ms |->
                    saturating_add(now, secs_to_millis(claim.active_duration_sec)),
                 active_duration_sec |-> claim.active_duration_sec,
                 grace_period_duration_sec |-> claim.grace_period_duration_sec]
        BY DEF InitMembership, TypeOK
      <3>2. /\ claim.active_duration_sec \in Nat
            /\ claim.grace_period_duration_sec \in Nat
            /\ rate \in Nat /\ now \in Nat
        BY DomainAssumption DEF Deployment
      <3>3. saturating_add(now, secs_to_millis(claim.active_duration_sec)) \in Nat
        BY <3>2, SaturatingAddNat, SecsNat
      <3>4. membership'[c] \in MembershipState
        BY <3>1, <3>2, <3>3 DEF MembershipState
      <3>5. QED
        BY <3>4, EmptyAssumption
    <2>2. QED
      BY <2>1, NewMember
  <1>9. /\ Cardinality(RateUnits)' = Cardinality(RateUnits) + rate
        /\ Cardinality(Members)' = Cardinality(Members) + 1
    BY <1>1, <1>8, UnitsAdded
  <1>10. RatesValid'
    BY <1>1, <1>8 DEF RatesValid, CountersInv
  <1>11. config' # Empty
    BY RegisterConfigType, EmptyAssumption
  <1>12. CountersMatchMembers'
    BY <1>1, <1>7, <1>9, <1>11 DEF CountersMatchMembers, CountersInv
  <1>13. CountersBounded'
    BY <1>3, <1>5, <1>6, <1>7 DEF CountersBounded
  <1>14. LiveRateWithinCap'
    BY <1>1, <1>2, <1>7, <1>11, <1>12 DEF LiveRateWithinCap, CountersMatchMembers
  <1>15. QED
    BY <1>10, <1>12, <1>13, <1>14 DEF CountersInv

\* ReleaseConfig uncounts exactly the member and the units that Slash and Erase
\* remove: the claimed rate was checked against the membership shard.
LEMMA ReleaseCounts ==
  ASSUME TypeOK, TypeOK', CountersInv,
         NEW c \in Commitments, NEW rate \in RateLimits, NEW p \in MerklePrograms,
         NEW k \in Indices, NEW leaf,
         ReleaseConfig(rate, p), membership[c] # Empty,
         membership[c].rate_limit = rate,
         membership' = [membership EXCEPT ![c] = Empty],
         remove_leaf(p, k, leaf)
  PROVE  CountersInv'
  <1>1. /\ config # Empty
        /\ config \in ConfigState
        /\ config.merkle_program_id = p
        /\ rate \in Nat
    BY DomainAssumption DEF ReleaseConfig, assert_config_ids, TypeOK
  <1>2. /\ config'.merkle_program_id = p
        /\ config'.max_total_rate_limit = config.max_total_rate_limit
        /\ config'.total_registrations = saturating_sub(config.total_registrations, 1)
        /\ config'.current_total_rate_limit
              = saturating_sub(config.current_total_rate_limit, rate)
    BY <1>1 DEF ReleaseConfig, ConfigState
  <1>3. config' # Empty
    BY ReleaseConfigType, EmptyAssumption
  <1>4. Filled' = Filled /\ Filled \in Nat
    <2>1. /\ tree[p] # Empty
          /\ tree'[p] = [next_index |-> tree[p].next_index,
                         leaves |-> [tree[p].leaves EXCEPT ![k] = ZERO]]
      BY DEF remove_leaf, remove_leaf_checks, TypeOK
    <2>2. tree[p] \in Tree
      BY <2>1 DEF TypeOK
    <2>3. tree'[p] \in Tree
      BY <2>1, <2>2 DEF Tree, Leaves
    <2>4. tree'[p].next_index = tree[p].next_index
      BY <2>1
    <2>5. tree[p].next_index \in Nat
      BY <2>2 DEF Tree
    <2>6. QED
      BY <1>1, <1>2, <2>1, <2>3, <2>4, <2>5, EmptyAssumption DEF Filled
  <1>5. /\ Members' = Members \ {c}
        /\ c \in Members
        /\ \A d \in Members : d # c => membership'[d] = membership[d]
    BY GoneMember DEF Members
  <1>6. /\ Cardinality(RateUnits) = Cardinality(RateUnits)' + rate
        /\ Cardinality(Members) = Cardinality(Members)' + 1
        /\ Cardinality(RateUnits)' \in Nat
        /\ Cardinality(Members)' \in Nat
    BY <1>5, UnitsFreed, FS_CardinalityType DEF CountersInv
  <1>7. /\ config'.total_registrations = Cardinality(Members)'
        /\ config'.current_total_rate_limit = Cardinality(RateUnits)'
    BY <1>1, <1>2, <1>6 DEF CountersInv, CountersMatchMembers, saturating_sub
  <1>8. RatesValid'
    BY <1>5 DEF RatesValid, CountersInv
  <1>9. CountersMatchMembers'
    BY <1>3, <1>7 DEF CountersMatchMembers
  <1>10. CountersBounded'
    <2>1. /\ config'.total_registrations <= config.total_registrations
          /\ config'.current_total_rate_limit <= config.current_total_rate_limit
      BY <1>1, <1>6, <1>7 DEF CountersInv, CountersMatchMembers
    <2>2. /\ config.total_registrations <= Filled
          /\ config.current_total_rate_limit <= Filled * MAX_RATE_LIMIT
      BY <1>1 DEF CountersInv, CountersBounded
    <2>3. Filled * MAX_RATE_LIMIT \in Nat
      BY <1>4, BoundsAssumption
    <2>4. QED
      BY <1>1, <1>4, <1>6, <1>7, <2>1, <2>2, <2>3 DEF CountersBounded, ConfigState
  <1>11. LiveRateWithinCap'
    BY <1>1, <1>2, <1>6 DEF LiveRateWithinCap, CountersInv, ConfigState
  <1>12. QED
    BY <1>8, <1>9, <1>10, <1>11 DEF CountersInv

\* Every step keeps the config's counters equal to what the members hold.
LEMMA CountersStep ==
  ASSUME TypeOK, TypeOK', TreeInv, CountersInv, [Next]_vars
  PROVE  CountersInv'
  <1>1. ASSUME NEW d \in Deployments, Initialize(d) PROVE CountersInv'
    <2>1. /\ config = Empty
          /\ membership' = membership /\ tree' = tree
          /\ config'.total_registrations = 0
          /\ config'.current_total_rate_limit = 0
          /\ config'.max_total_rate_limit = d.max_total_rate_limit
          /\ config' \in ConfigState
      BY <1>1, InitConfigType DEF Initialize, InitConfig
    <2>2. Members = {} /\ Members' = {}
      <3>1. Members = {}
        BY <2>1 DEF CountersInv, CountersMatchMembers
      <3>2. QED
        BY <2>1, <3>1 DEF Members
    <2>3. RateUnits' = {}
      BY <2>2 DEF RateUnits
    <2>4. Cardinality(Members)' = 0 /\ Cardinality(RateUnits)' = 0
      BY <2>2, <2>3, FS_EmptySet
    <2>5. \A q \in MerklePrograms : tree'[q] = Empty
      BY <2>1 DEF TreeInv, OnlyConfiguredTree
    <2>6. Filled' = 0
      BY <2>1, <2>5 DEF Filled, ConfigState
    <2>7. CountersBounded'
      BY <2>1, <2>6, BoundsAssumption DEF CountersBounded
    <2>8. config' # Empty /\ config'.max_total_rate_limit \in Nat
      BY <2>1, EmptyAssumption DEF ConfigState
    <2>9. QED
      BY <2>1, <2>2, <2>4, <2>7, <2>8
         DEF CountersInv, RatesValid, CountersMatchMembers, LiveRateWithinCap
  <1>2. ASSUME NEW p \in MerklePrograms, InitializeMerkleTree(p) PROVE CountersInv'
    <2>1. /\ config # Empty /\ config' = config
          /\ config.merkle_program_id = p
          /\ tree[p] = Empty
          /\ membership' = membership
          /\ tree'[p] = EmptyTree
      BY <1>2 DEF InitializeMerkleTree, initialize_tree, assert_config_ids, TypeOK
    <2>2. Filled = 0 /\ Filled' = 0
      BY <2>1 DEF Filled, EmptyTree
    <2>3. CountersBounded'
      BY <2>1, <2>2 DEF CountersBounded, CountersInv
    <2>4. QED
      BY <2>1, <2>3 DEF CountersInv, RatesValid, CountersMatchMembers,
                        LiveRateWithinCap, Members, RateUnits
  <1>3. ASSUME NEW c \in Commitments, NEW rate \in RateLimits,
               NEW claim \in Deployments, NEW now \in Instants,
               NEW payer \in Payers, Register(c, rate, claim, now, payer)
        PROVE  CountersInv'
    BY <1>3, RegisterCounts DEF Register
  <1>4. ASSUME NEW s \in Secrets, NEW c \in Commitments, NEW rate \in RateLimits,
               NEW p \in MerklePrograms, NEW i \in Indices, Slash(s, c, rate, p, i)
        PROVE  CountersInv'
    BY <1>4, ReleaseCounts DEF Slash, SlashMembership, SlashMembershipChecks
  <1>5. ASSUME NEW c \in Commitments, NEW rate \in RateLimits,
               NEW claim \in Deployments, NEW now \in Instants,
               NEW payer \in Payers, Extend(c, rate, claim, now, payer)
        PROVE  CountersInv'
    <2>1. config' = config /\ tree' = tree
      BY <1>5 DEF Extend
    <2>2. /\ Members' = Members
          /\ \A d \in Members : membership'[d].rate_limit = membership[d].rate_limit
      BY <1>5, RenewedMember DEF Extend
    <2>3. RateUnits' = RateUnits
      BY <2>2 DEF RateUnits
    <2>4. QED
      BY <2>1, <2>2, <2>3 DEF CountersInv, RatesValid, CountersMatchMembers,
                              LiveRateWithinCap, CountersBounded, Filled
  <1>6. ASSUME NEW c \in Commitments, NEW rate \in RateLimits,
               NEW p \in MerklePrograms, NEW i \in Indices, NEW now \in Instants,
               Erase(c, rate, p, i, now)
        PROVE  CountersInv'
    BY <1>6, ReleaseCounts DEF Erase, EraseMembership, EraseMembershipChecks
  <1>7. ASSUME UNCHANGED <<config, membership, tree>> PROVE CountersInv'
    BY <1>7 DEF CountersInv, RatesValid, CountersMatchMembers, LiveRateWithinCap,
                CountersBounded, Filled, Members, RateUnits
  <1>8. QED
    BY <1>1, <1>2, <1>3, <1>4, <1>5, <1>6, <1>7 DEF Next, Tick, Reveal, vars

-----------------------------------------------------------------------------
(* Time bought and time held.                                              *)

\* The time bought is honoured and bounded.
TimeInv == PaidTimeHonoured /\ RenewalHorizon

\* The code's saturating sum is the instant the properties speak of.
LEMMA SameSum == \A t, d : InstantAfter(t, d) = saturating_add(t, d)
  BY DEF InstantAfter, saturating_add

\* One period from the claimed time, in saturating arithmetic.
LEMMA FirstPeriod ==
  ASSUME NEW now \in Nat, NEW t \in Nat, now <= t, NEW a \in Nat, NEW g \in Nat
  PROVE  /\ saturating_add(saturating_add(now, a), g) = saturating_add(now, a + g)
         /\ saturating_add(now, a) <= saturating_add(t, a + g)
  BY BoundsAssumption DEF saturating_add

\* The renewal horizon moves forward with the clock.
LEMMA HorizonMoves ==
  ASSUME NEW t \in Nat, NEW u \in Nat, t <= u, NEW d \in Nat
  PROVE  /\ saturating_add(t, d) <= saturating_add(u, d)
         /\ saturating_add(t, d) \in Nat /\ saturating_add(u, d) \in Nat
  BY BoundsAssumption DEF saturating_add

\* Every step keeps each membership's end at the time bought for it, and its
\* grace period within one renewal of the clock.
LEMMA TimeStep ==
  ASSUME TypeOK, TypeOK', TimeInv, [Next]_vars
  PROVE  TimeInv'
  <1>0. clock \in Nat
    BY DomainAssumption DEF TypeOK
  <1>1. ASSUME NEW c \in Commitments, NEW rate \in RateLimits,
               NEW claim \in Deployments, NEW now \in Instants,
               NEW payer \in Payers, Register(c, rate, claim, now, payer)
        PROVE  TimeInv'
    <2> DEFINE a == secs_to_millis(claim.active_duration_sec)
               g == secs_to_millis(claim.grace_period_duration_sec)
    <2>1. a \in Nat /\ g \in Nat /\ now \in Nat /\ now <= clock
      BY <1>1, DomainAssumption, SecsNat DEF Deployment, Register, ClockIs, assert_clock_is
    <2>2. membership'[c] = [rate_limit |-> rate,
                 grace_period_start_timestamp_ms |-> saturating_add(now, a),
                 active_duration_sec |-> claim.active_duration_sec,
                 grace_period_duration_sec |-> claim.grace_period_duration_sec]
      BY <1>1 DEF Register, InitMembership, TypeOK
    <2>3. /\ sale'[c] = [at |-> now, periods |-> 1]
          /\ \A d \in Commitments : d # c =>
                sale'[d] = sale[d] /\ membership'[d] = membership[d]
      BY <1>1 DEF Register, InitMembership, TypeOK
    <2>4. sale'[c] # Empty
      BY <2>1, <2>3, EmptyAssumption DEF Sale
    <2>5. clock' = clock
      BY <1>1 DEF Register
    <2>6. /\ membership'[c].grace_period_start_timestamp_ms = saturating_add(now, a)
          /\ secs_to_millis(membership'[c].active_duration_sec) = a
          /\ secs_to_millis(membership'[c].grace_period_duration_sec) = g
          /\ sale'[c].at = now /\ sale'[c].periods = 1
      BY <2>2, <2>3
    <2> HIDE DEF a, g
    <2>7. /\ saturating_add(membership'[c].grace_period_start_timestamp_ms, g)
               = saturating_add(sale'[c].at, sale'[c].periods * (a + g))
          /\ membership'[c].grace_period_start_timestamp_ms
               <= saturating_add(clock', a + g)
      <3>1. 1 * (a + g) = a + g
        BY <2>1
      <3>2. /\ saturating_add(saturating_add(now, a), g) = saturating_add(now, a + g)
            /\ saturating_add(now, a) <= saturating_add(clock, a + g)
        BY <1>0, <2>1, FirstPeriod
      <3>3. QED
        BY <2>5, <2>6, <3>1, <3>2
    <2>8. Members' \subseteq Members \cup {c}
      BY <2>3 DEF Members
    <2>9. PaidTimeHonoured'
      BY <2>3, <2>4, <2>6, <2>7, <2>8, SameSum
         DEF TimeInv, PaidTimeHonoured, PaidUntil, Members
    <2>10. RenewalHorizon'
      BY <2>3, <2>5, <2>6, <2>7, <2>8 DEF TimeInv, RenewalHorizon, Members
    <2>11. QED
      BY <2>9, <2>10 DEF TimeInv
  <1>2. ASSUME NEW c \in Commitments, NEW rate \in RateLimits,
               NEW claim \in Deployments, NEW now \in Instants,
               NEW payer \in Payers, Extend(c, rate, claim, now, payer)
        PROVE  TimeInv'
    <2> DEFINE m == membership[c]
               start == m.grace_period_start_timestamp_ms
               a == secs_to_millis(m.active_duration_sec)
               g == secs_to_millis(m.grace_period_duration_sec)
    <2>1. /\ c \in Members
          /\ m \in MembershipState
          /\ start <= now
          /\ now <= clock
          /\ clock' = clock
      BY <1>2
         DEF Extend, ExtendMembership, ExtendMembershipChecks, ClockIs, assert_clock_is,
             is_in_grace_period, Members, TypeOK
    <2>2. /\ start \in Nat /\ a \in Nat /\ g \in Nat /\ now \in Nat
      BY <2>1, SecsNat, DomainAssumption DEF MembershipState
    <2>3. /\ sale[c] \in Sale
          /\ saturating_add(start, g)
                = saturating_add(sale[c].at, sale[c].periods * (a + g))
      BY <2>1, SameSum DEF TimeInv, PaidTimeHonoured, PaidUntil, TypeOK, Members
    <2>4. sale[c].at \in Nat /\ sale[c].periods \in Nat
      BY <2>3 DEF Sale
    <2>5. /\ membership' = [membership EXCEPT ![c] = [m EXCEPT
                !.grace_period_start_timestamp_ms =
                    saturating_add(saturating_add(start, g), a)]]
          /\ sale' = [sale EXCEPT ![c] = [sale[c] EXCEPT !.periods = sale[c].periods + 1]]
      BY <1>2 DEF Extend, ExtendMembership, ExtendMembershipChecks
    <2>6. /\ membership'[c] = [m EXCEPT
                !.grace_period_start_timestamp_ms =
                    saturating_add(saturating_add(start, g), a)]
          /\ sale'[c] = [sale[c] EXCEPT !.periods = sale[c].periods + 1]
          /\ \A d \in Commitments : d # c =>
                sale'[d] = sale[d] /\ membership'[d] = membership[d]
      BY <2>5 DEF TypeOK
    <2>7. /\ membership'[c].grace_period_start_timestamp_ms
                = saturating_add(saturating_add(start, g), a)
          /\ membership'[c].active_duration_sec = m.active_duration_sec
          /\ membership'[c].grace_period_duration_sec = m.grace_period_duration_sec
      BY <2>1, <2>6 DEF MembershipState
    <2>8. /\ sale'[c].at = sale[c].at /\ sale'[c].periods = sale[c].periods + 1
          /\ sale'[c] \in Sale
      BY <2>3, <2>6 DEF Sale
    <2>9. /\ secs_to_millis(membership'[c].active_duration_sec) = a
          /\ secs_to_millis(membership'[c].grace_period_duration_sec) = g
      BY <2>7
    <2> HIDE DEF m, start, a, g
    <2>10. /\ saturating_add(membership'[c].grace_period_start_timestamp_ms, g)
                = saturating_add(sale'[c].at, sale'[c].periods * (a + g))
           /\ membership'[c].grace_period_start_timestamp_ms
                <= saturating_add(clock', a + g)
      <3> DEFINE at == sale[c].at
                 bought == sale[c].periods * (a + g)
                 t == clock
      <3>1. /\ saturating_add(start, g) = saturating_add(at, bought)
            /\ at \in Nat /\ bought \in Nat /\ t \in Nat /\ now <= t /\ start <= now
        BY <1>0, <2>1, <2>2, <2>3, <2>4
      <3>2. sale'[c].periods * (a + g) = bought + (a + g)
        BY <2>2, <2>4, <2>8
      <3> HIDE DEF at, bought, t
      <3>3. /\ saturating_add(saturating_add(saturating_add(start, g), a), g)
                 = saturating_add(at, bought + (a + g))
            /\ saturating_add(saturating_add(start, g), a) <= saturating_add(t, a + g)
        BY <2>2, <3>1, BoundsAssumption DEF saturating_add
      <3>4. QED
        BY <2>1, <2>7, <2>8, <3>2, <3>3 DEF at, t
    <2>11. Members' \subseteq Members \cup {c}
      BY <2>6 DEF Members
    <2>12. PaidTimeHonoured'
      BY <2>6, <2>8, <2>9, <2>10, <2>11, EmptyAssumption, SameSum
         DEF TimeInv, PaidTimeHonoured, PaidUntil, Members
    <2>13. RenewalHorizon'
      BY <2>1, <2>6, <2>9, <2>10, <2>11 DEF TimeInv, RenewalHorizon, Members
    <2>14. QED
      BY <2>12, <2>13 DEF TimeInv
  <1>3. ASSUME NEW c \in Commitments,
               membership' = [membership EXCEPT ![c] = Empty],
               sale' = [sale EXCEPT ![c] = Empty], clock' = clock
        PROVE  TimeInv'
    <2>1. /\ Members' = Members \ {c}
          /\ \A d \in Members : d # c =>
                membership'[d] = membership[d] /\ sale'[d] = sale[d]
      BY <1>3 DEF Members, TypeOK
    <2>2. QED
      BY <1>3, <2>1 DEF TimeInv, PaidTimeHonoured, PaidUntil, RenewalHorizon
  <1>4. ASSUME NEW t \in Instants, Tick(t) PROVE TimeInv'
    <2>1. /\ clock' \in Nat /\ clock <= clock'
          /\ membership' = membership /\ sale' = sale
      BY <1>0, <1>4, DomainAssumption DEF Tick
    <2>2. PaidTimeHonoured' /\ Members' = Members
      BY <2>1 DEF TimeInv, PaidTimeHonoured, PaidUntil, Members
    <2>3. RenewalHorizon'
      <3> SUFFICES ASSUME NEW c \in Members
                   PROVE membership[c].grace_period_start_timestamp_ms
                     <= saturating_add(clock',
                          secs_to_millis(membership[c].active_duration_sec)
                          + secs_to_millis(membership[c].grace_period_duration_sec))
        BY <2>1, <2>2 DEF RenewalHorizon
      <3> DEFINE d == secs_to_millis(membership[c].active_duration_sec)
                       + secs_to_millis(membership[c].grace_period_duration_sec)
      <3>1. membership[c] \in MembershipState
        BY DEF Members, TypeOK
      <3>2. d \in Nat /\ membership[c].grace_period_start_timestamp_ms \in Nat
        BY <3>1, SecsNat DEF MembershipState
      <3>3. membership[c].grace_period_start_timestamp_ms <= saturating_add(clock, d)
        BY DEF TimeInv, RenewalHorizon
      <3> HIDE DEF d
      <3>4. membership[c].grace_period_start_timestamp_ms <= saturating_add(clock', d)
        <4> DEFINE old == clock
                   u == clock'
                   x == membership[c].grace_period_start_timestamp_ms
        <4>1. old \in Nat /\ u \in Nat /\ old <= u /\ d \in Nat /\ x \in Nat
          BY <1>0, <2>1, <3>2
        <4>2. x <= saturating_add(old, d)
          BY <3>3
        <4> HIDE DEF old, u, x
        <4>3. x <= saturating_add(u, d)
          BY <4>1, <4>2, HorizonMoves
        <4>4. QED
          BY <4>3 DEF u, x
      <3>5. QED
        BY <3>4 DEF d
    <2>4. QED
      BY <2>2, <2>3 DEF TimeInv
  <1>5. ASSUME UNCHANGED <<membership, sale, clock>> PROVE TimeInv'
    BY <1>5 DEF TimeInv, PaidTimeHonoured, PaidUntil, RenewalHorizon, Members
  <1>6. QED
    BY <1>1, <1>2, <1>3, <1>4, <1>5
       DEF Next, Initialize, InitializeMerkleTree, Slash, SlashMembership, SlashMembershipChecks,
           Erase, EraseMembership, EraseMembershipChecks, Reveal, vars

-----------------------------------------------------------------------------
(* Money.                                                                  *)

\* Nothing is sold before there is a config, and no payer ever holds more
\* than it started with, so a saturated price is never affordable.
MoneyInv ==
    /\ RevenueExact
    /\ config = Empty => sold = 0
    /\ \A p \in Payers : balance[p] < U128_MAX

\* A payment that the payer's balance covers is not the saturated amount, so
\* it is price times rate exactly.
LEMMA PaymentExact ==
  ASSUME TypeOK, MoneyInv, NEW payer \in Payers, NEW t \in Treasuries,
         NEW rate \in Nat, NEW price \in Nat,
         native_payment(payer, t, calculate_payment_amount(rate, price))
  PROVE  /\ balance'[t] = balance[t] + price * rate
         /\ \A u \in Treasuries : u # t => balance'[u] = balance[u]
         /\ \A p \in Payers : balance'[p] < U128_MAX
  <1> DEFINE amount == calculate_payment_amount(rate, price)
             product == price * rate
  <1>1. amount <= balance[payer] /\ balance[payer] < U128_MAX /\ balance[payer] \in Nat
    BY DEF native_payment, MoneyInv, TypeOK
  <1>2. product \in Nat
    OBVIOUS
  <1>3. amount = IF product > U128_MAX THEN U128_MAX ELSE product
    BY DEF calculate_payment_amount
  <1> HIDE DEF amount, product
  <1>4. amount = product
    BY <1>1, <1>2, <1>3, BoundsAssumption
  <1>5. payer # t
    BY DomainAssumption
  <1>6. balance' = [balance EXCEPT ![payer] = @ - amount, ![t] = @ + amount]
    BY DEF native_payment, amount
  <1>7. /\ balance'[t] = balance[t] + amount
        /\ balance'[payer] = balance[payer] - amount
        /\ \A x \in Payers \cup Treasuries : x # t /\ x # payer => balance'[x] = balance[x]
    BY <1>5, <1>6 DEF TypeOK
  <1>8. \A u \in Treasuries : u # t => balance'[u] = balance[u]
    BY <1>7, DomainAssumption
  <1>9. \A p \in Payers : balance'[p] < U128_MAX
    <2> TAKE p \in Payers
    <2>1. p # t
      BY DomainAssumption
    <2>2. CASE p = payer
      BY <2>2, <1>1, <1>2, <1>4, <1>7, BoundsAssumption
    <2>3. CASE p # payer
      BY <2>1, <2>3, <1>7 DEF MoneyInv
    <2>4. QED
      BY <2>2, <2>3
  <1>10. QED
    BY <1>4, <1>7, <1>8, <1>9 DEF product

\* A paid instruction: the config keeps its price and payee, the claim repeats
\* them, and `rate` more units are sold.
LEMMA SaleKeepsMoneyInv ==
  ASSUME TypeOK, TypeOK', MoneyInv,
         NEW payer \in Payers, NEW rate \in RateLimits, NEW claim \in Deployments,
         config # Empty, config' # Empty,
         config'.price_per_unit = config.price_per_unit,
         config'.treasury_account_id = config.treasury_account_id,
         claims_price_and_payee(claim),
         native_payment(payer, claim.treasury_account_id,
                        calculate_payment_amount(rate, claim.price_per_unit)),
         sold' = sold + rate
  PROVE  MoneyInv'
  <1> DEFINE t == config.treasury_account_id
             price == config.price_per_unit
  <1>1. /\ rate \in Nat /\ price \in Nat /\ t \in Treasuries /\ sold \in Nat
        /\ claim.treasury_account_id = t /\ claim.price_per_unit = price
    BY DomainAssumption DEF TypeOK, ConfigState, claims_price_and_payee
  <1>2. balance[t] = price * sold
    BY <1>1 DEF MoneyInv, RevenueExact
  <1>3. /\ balance'[t] = balance[t] + price * rate
        /\ \A u \in Treasuries : u # t => balance'[u] = balance[u]
        /\ \A p \in Payers : balance'[p] < U128_MAX
    BY <1>1, PaymentExact
  <1>4. price * sold + price * rate = price * (sold + rate)
    BY <1>1
  <1>5. balance'[t] = price * sold'
    BY <1>2, <1>3, <1>4
  <1>6. RevenueExact'
    BY <1>3, <1>5 DEF RevenueExact, MoneyInv
  <1>7. QED
    BY <1>3, <1>6 DEF MoneyInv

\* Every step keeps the treasuries' balances equal to price times units sold.
LEMMA MoneyStep ==
  ASSUME TypeOK, TypeOK', MoneyInv, [Next]_vars
  PROVE  MoneyInv'
  <1>1. ASSUME NEW d \in Deployments, Initialize(d) PROVE MoneyInv'
    <2>1. /\ config = Empty /\ config' \in ConfigState
          /\ balance' = balance /\ sold' = sold
      BY <1>1, InitConfigType DEF Initialize, InitConfig
    <2>2. sold = 0 /\ \A t \in Treasuries : balance[t] = 0
      BY <2>1 DEF MoneyInv, RevenueExact
    <2>3. config'.price_per_unit * sold' = 0
      BY <2>1, <2>2 DEF ConfigState
    <2>4. QED
      BY <2>1, <2>2, <2>3, EmptyAssumption DEF MoneyInv, RevenueExact
  <1>2. ASSUME NEW c \in Commitments, NEW rate \in RateLimits,
               NEW claim \in Deployments, NEW now \in Instants,
               NEW payer \in Payers, Register(c, rate, claim, now, payer)
        PROVE  MoneyInv'
    <2>1. /\ config # Empty /\ config \in ConfigState
          /\ claims_price_and_payee(claim)
          /\ sold' = sold + rate
          /\ native_payment(payer, claim.treasury_account_id,
                            calculate_payment_amount(rate, claim.price_per_unit))
      BY <1>2 DEF Register, RegisterConfig, RegisterConfigChecks, assert_config_ids, TypeOK
    <2>2. config' # Empty
      BY <1>2, RegisterConfigType, EmptyAssumption DEF Register
    <2>3. /\ config'.price_per_unit = config.price_per_unit
          /\ config'.treasury_account_id = config.treasury_account_id
      BY <1>2, <2>1 DEF Register, RegisterConfig, RegisterConfigChecks, ConfigState
    <2>4. QED
      BY <2>1, <2>2, <2>3, SaleKeepsMoneyInv
  <1>3. ASSUME NEW rate \in RateLimits, NEW p \in MerklePrograms,
               ReleaseConfig(rate, p), UNCHANGED <<balance, sold>>
        PROVE  MoneyInv'
    <2>1. config # Empty /\ config \in ConfigState
      BY <1>3 DEF ReleaseConfig, assert_config_ids, TypeOK
    <2>2. config' # Empty
      BY <1>3, ReleaseConfigType, EmptyAssumption
    <2>3. /\ config'.price_per_unit = config.price_per_unit
          /\ config'.treasury_account_id = config.treasury_account_id
      BY <1>3, <2>1 DEF ReleaseConfig, ConfigState
    <2>4. QED
      BY <1>3, <2>1, <2>2, <2>3 DEF MoneyInv, RevenueExact
  <1>4. ASSUME NEW c \in Commitments, NEW rate \in RateLimits,
               NEW claim \in Deployments, NEW now \in Instants,
               NEW payer \in Payers, Extend(c, rate, claim, now, payer)
        PROVE  MoneyInv'
    BY <1>4, SaleKeepsMoneyInv DEF Extend, ExtendConfig
  <1>5. ASSUME UNCHANGED <<config, balance, sold>> PROVE MoneyInv'
    BY <1>5 DEF MoneyInv, RevenueExact
  <1>6. QED
    BY <1>1, <1>2, <1>3, <1>4, <1>5
       DEF Next, InitializeMerkleTree, Slash, Erase, Tick, Reveal, vars

-----------------------------------------------------------------------------
(* The inductive invariant and what follows from it.                       *)

\* The inductive invariant.
Inv == TypeOK /\ TreeInv /\ CountersInv /\ TimeInv /\ MoneyInv

\* Before the first transaction every shard is empty and the invariant holds.
LEMMA InitInv == Init => Inv
  <1> SUFFICES ASSUME Init PROVE Inv
    OBVIOUS
  <1>1. TypeOK
    BY DomainAssumption DEF Init, TypeOK
  <1>2. Members = {}
    BY DEF Init, Members
  <1>3. TreeInv
    BY <1>2 DEF Init, TreeInv, OnlyConfiguredTree, LeavesMatchMembers
  <1>4. CountersInv
    BY <1>2 DEF Init, CountersInv, RatesValid, CountersMatchMembers, CountersBounded,
                LiveRateWithinCap
  <1>5. TimeInv
    BY <1>2 DEF TimeInv, PaidTimeHonoured, RenewalHorizon
  <1>6. MoneyInv
    BY DomainAssumption, WidthAssumption DEF Init, MoneyInv, RevenueExact
  <1>7. QED
    BY <1>1, <1>3, <1>4, <1>5, <1>6 DEF Inv

\* The invariant is inductive.  CountersStep needs the tree's `next_index` bound
\* (room for one more), TreeStep the absence of a second leaf of a member, and
\* TypeStep the sale that TimeInv records.
LEMMA StepInv == Inv /\ [Next]_vars => Inv'
  <1> SUFFICES ASSUME Inv, [Next]_vars PROVE Inv'
    OBVIOUS
  <1>1. Recorded
    BY DEF Inv, TimeInv, PaidTimeHonoured, Recorded
  <1>2. TypeOK'
    BY <1>1, TypeStep DEF Inv
  <1>3. TreeInv'
    BY <1>2, TreeStep DEF Inv, CountersInv
  <1>4. CountersInv'
    BY <1>2, CountersStep DEF Inv
  <1>5. TimeInv'
    BY <1>2, TimeStep DEF Inv
  <1>6. MoneyInv'
    BY <1>2, MoneyStep DEF Inv
  <1>7. QED
    BY <1>2, <1>3, <1>4, <1>5, <1>6 DEF Inv

\* Inv holds in every reachable state, for every set of commitments, payers,
\* deployments, claims and instants, any tree size and any clock tolerance.
THEOREM Invariance == Spec => []Inv
  BY InitInv, StepInv, PTL DEF Spec

\* Every shard stays well-formed, `next_index` never passes the last leaf and
\* no balance goes negative.
THEOREM TypeCorrect == Spec => []TypeOK
  <1>1. Inv => TypeOK
    BY DEF Inv
  <1>2. QED
    BY <1>1, Invariance, PTL

\* RegisterConfig and ReleaseConfig keep the config's counters equal to what the
\* membership shards add up to.
THEOREM CountersCorrect == Spec => []CountersMatchMembers
  <1>1. Inv => CountersMatchMembers
    BY DEF Inv, CountersInv
  <1>2. QED
    BY <1>1, Invariance, PTL

\* can_register, asked of a counter, keeps the memberships themselves within
\* the configured maximum rate.
THEOREM CapCorrect == Spec => []LiveRateWithinCap
  <1>1. Inv => LiveRateWithinCap
    BY DEF Inv, CountersInv
  <1>2. QED
    BY <1>1, Invariance, PTL

\* The merkle program's leaves are exactly the standing memberships of the
\* registration program.
THEOREM TreeCorrect == Spec => []LeavesMatchMembers
  <1>1. Inv => LeavesMatchMembers
    BY DEF Inv, TreeInv
  <1>2. QED
    BY <1>1, Invariance, PTL

\* assert_config_ids lets no merkle program but the configured one write to the
\* registry's tree account.
THEOREM CalleeCorrect == Spec => []OnlyConfiguredTree
  <1>1. Inv => OnlyConfiguredTree
    BY DEF Inv, TreeInv
  <1>2. QED
    BY <1>1, Invariance, PTL

\* Register and Extend honour the time paid for, to the millisecond and across
\* saturation.
THEOREM TimeCorrect == Spec => []PaidTimeHonoured
  <1>1. Inv => PaidTimeHonoured
    BY DEF Inv, TimeInv
  <1>2. QED
    BY <1>1, Invariance, PTL

\* The grace-period check of Extend keeps renewals from being stacked up, on the
\* chain's clock and whatever time is claimed.
THEOREM HorizonCorrect == Spec => []RenewalHorizon
  <1>1. Inv => RenewalHorizon
    BY DEF Inv, TimeInv
  <1>2. QED
    BY <1>1, Invariance, PTL

\* Register and Extend move exactly price times rate to the configured treasury,
\* whatever price and payee their transactions claim.
THEOREM RevenueCorrect == Spec => []RevenueExact
  <1>1. Inv => RevenueExact
    BY DEF Inv, MoneyInv
  <1>2. QED
    BY <1>1, Invariance, PTL

\* What permits a removal of c's membership.
Justified(c) == (\E s \in revealed : hash_single[s] = c) \/ clock >= PaidUntil(c)

\* A step that empties a membership shard is a Slash under a revealed secret or
\* an Erase whose claimed time, and hence the clock, is past the time bought.
LEMMA RemovalStep ==
  ASSUME Inv, Next, NEW c \in Members, membership'[c] = Empty
  PROVE  Justified(c)
  <1>0. /\ c \in Commitments /\ membership[c] # Empty
        /\ membership[c] \in MembershipState
        /\ clock \in Nat
        /\ saturating_add(membership[c].grace_period_start_timestamp_ms,
                          secs_to_millis(membership[c].grace_period_duration_sec))
             = PaidUntil(c)
        /\ TypeOK
    BY DomainAssumption DEF Members, Inv, TypeOK, TimeInv, PaidTimeHonoured
  <1>1. ASSUME NEW e \in Commitments, NEW rate \in RateLimits,
               NEW claim \in Deployments, NEW now \in Instants,
               NEW payer \in Payers, Register(e, rate, claim, now, payer)
        PROVE  Justified(c)
    <2>1. e # c /\ membership'[c] = membership[c]
      BY <1>0, <1>1 DEF Register, InitMembership, TypeOK
    <2>2. QED
      BY <1>0, <2>1
  <1>2. ASSUME NEW s \in Secrets, NEW e \in Commitments, NEW rate \in RateLimits,
               NEW p \in MerklePrograms, NEW i \in Indices, Slash(s, e, rate, p, i)
        PROVE  Justified(c)
    <2>1. e = c
      BY <1>0, <1>2 DEF Slash, SlashMembership, SlashMembershipChecks, TypeOK
    <2>2. QED
      BY <1>2, <2>1 DEF Slash, SlashPlan, Justified
  <1>3. ASSUME NEW e \in Commitments, NEW rate \in RateLimits,
               NEW claim \in Deployments, NEW now \in Instants,
               NEW payer \in Payers, Extend(e, rate, claim, now, payer)
        PROVE  Justified(c)
    <2>1. TypeOK'
      BY StepInv DEF Inv
    <2>2. Members' = Members
      BY <1>0, <1>3, <2>1, RenewedMember DEF Extend
    <2>3. QED
      BY <2>2 DEF Members
  <1>4. ASSUME NEW e \in Commitments, NEW rate \in RateLimits,
               NEW p \in MerklePrograms, NEW i \in Indices, NEW now \in Instants,
               Erase(e, rate, p, i, now)
        PROVE  Justified(c)
    <2>1. e = c
      BY <1>0, <1>4 DEF Erase, EraseMembership, EraseMembershipChecks, TypeOK
    <2>2. now >= PaidUntil(c) /\ now <= clock /\ now \in Nat
      BY <1>0, <1>4, <2>1, DomainAssumption
         DEF Erase, EraseMembership, EraseMembershipChecks, is_expired, ClockIs, assert_clock_is
    <2>3. PaidUntil(c) \in Nat
      BY <1>0, SaturatingAddNat, SecsNat DEF MembershipState
    <2>4. QED
      BY <1>0, <2>2, <2>3 DEF Justified
  <1>5. QED
    BY <1>0, <1>1, <1>2, <1>3, <1>4
       DEF Next, Initialize, InitializeMerkleTree, Tick, Reveal

\* Slash and Erase remove nobody before the secret is out or the time paid for
\* is over on the chain's clock, whatever the transaction claims.
THEOREM RemovalCorrect == Spec => RemovalJustified
  <1>1. Inv /\ [Next]_vars =>
          [\A c \in Members : membership'[c] = Empty =>
              \/ \E s \in revealed : hash_single[s] = c
              \/ clock >= PaidUntil(c)]_vars
    BY RemovalStep DEF Justified
  <1>2. QED
    BY <1>1, Invariance, PTL DEF Spec, RemovalJustified

\* What a step may do to p's tree.
SlotRule(p) ==
    tree[p] # Empty =>
        /\ tree'[p] # Empty
        /\ tree'[p].next_index >= tree[p].next_index
        /\ \A i \in Indices : tree'[p].leaves[i] # tree[p].leaves[i] =>
              \/ tree'[p].leaves[i] = ZERO
              \/ i = tree[p].next_index /\ tree'[p].next_index > i

\* A tree shard changes only by an insert at `next_index` or by zeroing a leaf.
LEMMA SlotStep ==
  ASSUME Inv, Next, NEW q \in MerklePrograms
  PROVE  SlotRule(q)
  <1> SUFFICES ASSUME tree[q] # Empty
               PROVE  SlotRule(q)
    BY DEF SlotRule
  <1>1. TypeOK /\ TypeOK'
    BY StepInv DEF Inv
  <1>2. tree[q] \in Tree /\ tree[q].next_index \in Nat
    BY <1>1 DEF TypeOK, Tree
  <1>3. ASSUME tree'[q] = tree[q] PROVE SlotRule(q)
    BY <1>2, <1>3 DEF SlotRule
  <1>4. ASSUME NEW p \in MerklePrograms, InitializeMerkleTree(p) PROVE SlotRule(q)
    <2>1. p # q /\ tree'[q] = tree[q]
      BY <1>1, <1>4 DEF InitializeMerkleTree, initialize_tree, TypeOK
    <2>2. QED
      BY <2>1, <1>3
  <1>5. ASSUME NEW p \in MerklePrograms, NEW leaf \in Leaves, insert_leaf(p, leaf)
        PROVE  SlotRule(q)
    <2> DEFINE n == tree[p].next_index
    <2>1. tree' = [tree EXCEPT ![p] =
                [next_index |-> n + 1, leaves |-> [tree[p].leaves EXCEPT ![n] = leaf]]]
      BY <1>5 DEF insert_leaf, insert_leaf_checks
    <2>2. CASE p # q
      BY <1>1, <1>3, <2>1, <2>2 DEF TypeOK
    <2>3. CASE p = q
      <3>1. tree'[q] = [next_index |-> n + 1, leaves |-> [tree[q].leaves EXCEPT ![n] = leaf]]
        BY <1>1, <2>1, <2>3 DEF TypeOK
      <3>2. /\ tree'[q].next_index = n + 1
            /\ \A i \in Indices : i # n => tree'[q].leaves[i] = tree[q].leaves[i]
        BY <1>2, <3>1 DEF Tree
      <3>3. tree'[q] # Empty
        <4>1. n \in Nat /\ n < TREE_LEAVES
          BY <1>2, <1>5, <2>3 DEF insert_leaf, insert_leaf_checks
        <4>2. n \in Indices /\ n + 1 \in 0 .. TREE_LEAVES
          BY <4>1, BoundsAssumption DEF Indices
        <4>3. [tree[q].leaves EXCEPT ![n] = leaf] \in [Indices -> Leaves]
          BY <1>2, <4>2 DEF Tree
        <4>4. tree'[q] \in Tree
          BY <3>1, <4>2, <4>3 DEF Tree
        <4>5. QED
          BY <4>4, EmptyAssumption
      <3>4. QED
        BY <1>2, <2>3, <3>2, <3>3 DEF SlotRule
    <2>4. QED
      BY <2>2, <2>3
  <1>6. ASSUME NEW p \in MerklePrograms, NEW k \in Indices, NEW leaf,
               remove_leaf(p, k, leaf)
        PROVE  SlotRule(q)
    <2>1. tree' = [tree EXCEPT ![p] =
                [next_index |-> tree[p].next_index,
                 leaves |-> [tree[p].leaves EXCEPT ![k] = ZERO]]]
      BY <1>6 DEF remove_leaf, remove_leaf_checks
    <2>2. CASE p # q
      BY <1>1, <1>3, <2>1, <2>2 DEF TypeOK
    <2>3. CASE p = q
      <3>1. tree'[q] = [next_index |-> tree[q].next_index,
                       leaves |-> [tree[q].leaves EXCEPT ![k] = ZERO]]
        BY <1>1, <2>1, <2>3 DEF TypeOK
      <3>2. /\ tree'[q].next_index = tree[q].next_index
            /\ \A i \in Indices : tree'[q].leaves[i] # tree[q].leaves[i]
                  => tree'[q].leaves[i] = ZERO
        BY <1>2, <3>1 DEF Tree
      <3>3. tree'[q] # Empty
        <4>1. tree'[q] \in Tree
          BY <1>2, <3>1 DEF Tree, Leaves
        <4>2. QED
          BY <4>1, EmptyAssumption
      <3>4. QED
        BY <1>2, <3>2, <3>3 DEF SlotRule
    <2>4. QED
      BY <2>2, <2>3
  <1>7. ASSUME NEW c \in Commitments, NEW rate \in RateLimits,
               NEW claim \in Deployments, NEW now \in Instants,
               NEW payer \in Payers, Register(c, rate, claim, now, payer)
        PROVE  SlotRule(q)
    <2>1. claim.merkle_program_id \in MerklePrograms
      BY DomainAssumption DEF Deployment
    <2>2. QED
      BY <1>5, <1>7, <2>1, LeafType DEF Register
  <1>8. QED
    BY <1>3, <1>4, <1>6, <1>7 DEF Next, Initialize, Slash, Extend, Erase, Tick, Reveal

\* InsertLeaf and RemoveLeaf never refill a slot and InitializeTree never resets
\* a live tree.
THEOREM SlotsCorrect == Spec => SlotsFilledOnce
  <1>1. Inv /\ [Next]_vars =>
          [\A p \in MerklePrograms : tree[p] # Empty =>
              /\ tree'[p] # Empty
              /\ tree'[p].next_index >= tree[p].next_index
              /\ \A i \in Indices : tree'[p].leaves[i] # tree[p].leaves[i] =>
                    \/ tree'[p].leaves[i] = ZERO
                    \/ i = tree[p].next_index /\ tree'[p].next_index > i]_vars
    BY SlotStep DEF SlotRule
  <1>2. QED
    BY <1>1, Invariance, PTL DEF Spec, SlotsFilledOnce

-----------------------------------------------------------------------------
(* Which transactions take effect.                                         *)

\* What a removal writes, whoever asks for it.
Released(c, rate, program, index) ==
    /\ config' = [config EXCEPT !.current_total_rate_limit = saturating_sub(@, rate),
                                !.total_registrations = saturating_sub(@, 1)]
    /\ membership' = [membership EXCEPT ![c] = Empty]
    /\ tree' = [tree EXCEPT ![program] =
          [next_index |-> tree[program].next_index,
           leaves |-> [tree[program].leaves EXCEPT ![index] = ZERO]]]
    /\ sale' = [sale EXCEPT ![c] = Empty]
    /\ UNCHANGED <<balance, clock, revealed, sold>>

\* RegisterAccepted and its like are exactly what enables an instruction: it
\* implies them, and where they hold it takes effect, because all that is left
\* of it assigns each variable a value.
LEMMA AcceptedExact ==
  ASSUME NEW secret, NEW c, NEW rate, NEW claim, NEW now, NEW payer, NEW p, NEW i
  PROVE  /\ Slash(secret, c, rate, p, i) <=>
              SlashAccepted(secret, c, rate, p, i) /\ Released(c, rate, p, i)
         /\ Erase(c, rate, p, i, now) <=>
              EraseAccepted(c, rate, p, i, now) /\ Released(c, rate, p, i)
         /\ Extend(c, rate, claim, now, payer) <=>
              /\ ExtendAccepted(c, rate, claim, now, payer)
              /\ LET m == membership[c]
                     price == calculate_payment_amount(rate, claim.price_per_unit)
                 IN  /\ membership' = [membership EXCEPT
                            ![c].grace_period_start_timestamp_ms =
                               saturating_add(
                                 saturating_add(@, secs_to_millis(m.grace_period_duration_sec)),
                                 secs_to_millis(m.active_duration_sec))]
                     /\ balance' = [balance EXCEPT
                            ![payer] = @ - price,
                            ![claim.treasury_account_id] = @ + price]
              /\ sale' = [sale EXCEPT ![c].periods = @ + 1]
              /\ sold' = sold + rate
              /\ UNCHANGED <<config, tree, clock, revealed>>
         /\ Register(c, rate, claim, now, payer) <=>
              /\ RegisterAccepted(c, rate, claim, now, payer)
              /\ LET shard == tree[claim.merkle_program_id]
                     price == calculate_payment_amount(rate, claim.price_per_unit)
                 IN  /\ config' = [config EXCEPT
                            !.total_registrations = saturating_add(@, 1),
                            !.current_total_rate_limit = saturating_add(@, rate)]
                     /\ membership' = [membership EXCEPT ![c] =
                            [rate_limit |-> rate,
                             grace_period_start_timestamp_ms |->
                                 saturating_add(now, secs_to_millis(claim.active_duration_sec)),
                             active_duration_sec |-> claim.active_duration_sec,
                             grace_period_duration_sec |-> claim.grace_period_duration_sec]]
                     /\ balance' = [balance EXCEPT
                            ![payer] = @ - price,
                            ![claim.treasury_account_id] = @ + price]
                     /\ tree' = [tree EXCEPT ![claim.merkle_program_id] =
                            [next_index |-> shard.next_index + 1,
                             leaves |-> [shard.leaves EXCEPT ![shard.next_index] =
                                            compute_registration_leaf(c, rate)]]]
              /\ sale' = [sale EXCEPT ![c] = [at |-> now, periods |-> 1]]
              /\ sold' = sold + rate
              /\ UNCHANGED <<clock, revealed>>
  <1>1. Slash(secret, c, rate, p, i) <=>
          SlashAccepted(secret, c, rate, p, i) /\ Released(c, rate, p, i)
    BY Zenon DEF Slash, ReleaseConfig, SlashMembership, remove_leaf, SlashAccepted, Released
  <1>2. Erase(c, rate, p, i, now) <=>
          EraseAccepted(c, rate, p, i, now) /\ Released(c, rate, p, i)
    BY Zenon DEF Erase, ReleaseConfig, EraseMembership, remove_leaf, EraseAccepted, Released
  <1>3. QED
    BY <1>1, <1>2, Zenon
       DEF Extend, ExtendMembership, native_payment, ExtendAccepted, Register, RegisterConfig,
           InitMembership, insert_leaf, RegisterAccepted

\* Nobody is a member before the clock has left its genesis value.
Started == Members # {} => clock > 0

\* A registration needs a running clock, and the clock only moves forward.
LEMMA StartedStep ==
  ASSUME Inv, Started, [Next]_vars
  PROVE  Started'
  <1>1. TypeOK /\ TypeOK' /\ clock \in Nat
    BY StepInv, DomainAssumption DEF Inv, TypeOK
  <1>2. clock' \in Nat /\ clock' >= clock
    BY <1>1, DomainAssumption
       DEF Next, Initialize, InitializeMerkleTree, Register, Slash, Extend, Erase, Tick, Reveal,
           vars
  <1>3. CASE clock > 0
    BY <1>1, <1>2, <1>3 DEF Started
  <1>4. CASE ~(clock > 0)
    <2>1. Members = {}
      BY <1>4 DEF Started
    <2>2. membership' = membership
      BY <1>4, <2>1
         DEF Next, Initialize, InitializeMerkleTree, Register, Slash, SlashMembership,
             SlashMembershipChecks, Extend, Erase, Tick, Reveal, vars, ClockIs, assert_clock_is,
             Members
    <2>3. QED
      BY <2>1, <2>2 DEF Started, Members
  <1>5. QED
    BY <1>3, <1>4

\* The leaf of a member stands, under the configured program and below
\* `next_index`; claims read from the chain pass every check of a removal.
LEMMA ReclaimState ==
  ASSUME Inv, Started
  PROVE  Reclaimable
  <1> SUFFICES ASSUME NEW c \in Members
               PROVE  \E p \in MerklePrograms, i \in Indices :
                        /\ is_expired(membership[c].grace_period_start_timestamp_ms,
                                      secs_to_millis(membership[c].grace_period_duration_sec),
                                      clock)
                             => EraseAccepted(c, membership[c].rate_limit, p, i, clock)
                        /\ \A s \in revealed : hash_single[s] = c
                             => SlashAccepted(s, c, membership[c].rate_limit, p, i)
    BY DEF Reclaimable
  <1> DEFINE p == config.merkle_program_id
             leaf == compute_registration_leaf(c, membership[c].rate_limit)
  <1>1. TypeOK /\ LeavesMatchMembers
    BY DEF Inv, TreeInv
  <1>2. c \in Commitments /\ membership[c] # Empty
    BY DEF Members
  <1>3. config # Empty /\ p \in MerklePrograms /\ tree[p] # Empty
    BY <1>1 DEF LeavesMatchMembers, TypeOK, ConfigState
  <1>4. PICK i \in Indices : tree[p].leaves[i] = leaf
    BY <1>1 DEF LeavesMatchMembers, MemberLeaf
  <1>5. leaf # ZERO
    <2>1. membership[c].rate_limit \in Nat
      BY <1>1, <1>2 DEF TypeOK, MembershipState
    <2>2. QED
      BY <1>2, <2>1, EmptyAssumption DEF compute_registration_leaf
  <1>6. remove_leaf_checks(p, i, leaf)
    <2>1. i < tree[p].next_index
      BY <1>1, <1>3, <1>4, <1>5 DEF LeavesMatchMembers
    <2>2. QED
      BY <1>3, <1>4, <2>1 DEF remove_leaf_checks
  <1>7. ClockIs(clock)
    <2>1. clock \in Nat /\ clock > 0
      BY <1>1, DomainAssumption DEF Started, TypeOK
    <2>2. QED
      BY <2>1, BoundsAssumption DEF ClockIs, assert_clock_is
  <1>8. assert_config_ids(p)
    BY <1>3 DEF assert_config_ids
  <1> HIDE DEF p, leaf
  <1>9. QED
    BY <1>2, <1>3, <1>6, <1>7, <1>8
       DEF EraseAccepted, SlashAccepted, EraseMembershipChecks, SlashMembershipChecks, SlashPlan,
           leaf

\* Slash and Erase can always free what a slashable or expired membership holds:
\* no order of transactions leaves config, membership and leaf in disagreement.
THEOREM ReclaimCorrect == Spec => []Reclaimable
  <1>1. Init => Started
    BY DEF Init, Started, Members
  <1>2. Inv /\ Started /\ [Next]_vars => Started'
    BY StartedStep
  <1>3. Inv /\ Started => Reclaimable
    BY ReclaimState
  <1>4. QED
    BY <1>1, <1>2, <1>3, Invariance, PTL DEF Spec

=============================================================================
