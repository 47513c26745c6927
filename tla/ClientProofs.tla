---------------------------- MODULE ClientProofs ----------------------------
(***************************************************************************)
(* Proofs about Client, for every set of jobs, reserves and registry       *)
(* constants.                                                              *)
(*                                                                         *)
(* The transaction a client sends is one of the registry's own: its claims *)
(* are a deployment's terms, because the config it read was a deployment   *)
(* and no instruction changes those terms.  So the client keeps Registry's *)
(* invariant (ClientsKeepRegistry), and what it has read can be followed   *)
(* through everybody else's steps: the config's terms stay, a live tree    *)
(* stays live, and a slot below `next_index` is never filled again.        *)
(***************************************************************************)
EXTENDS Client, RegistryProofs, WellFoundedInduction

\* The terms of a config, which no instruction changes.
SameTerms(x, y) ==
    /\ x.merkle_program_id = y.merkle_program_id
    /\ x.price_per_unit = y.price_per_unit
    /\ x.treasury_account_id = y.treasury_account_id
    /\ x.active_duration_sec = y.active_duration_sec
    /\ x.grace_period_duration_sec = y.grace_period_duration_sec

\* The config holds a deployment's terms.
ConfigOrigin == config # Empty => \E d \in Deployments : SameTerms(config, d)

\* Every membership was bought at a rate limit some instruction carries.
RateOrigin == \A c \in Members : membership[c].rate_limit \in RateLimits

\* Where a call can be before it ends.
At(op, position) ==
    \/ /\ op = "register"
       /\ position \in {"config", "clock", "tree", "afford", "send", "poll", "block", "reread"}
    \/ op = "extend" /\ position \in {"config", "membership", "clock", "afford", "send"}
    \/ op = "erase" /\ position \in {"config", "membership", "leaf", "clock", "send"}
    \/ op = "slash" /\ position \in {"config", "membership", "leaf", "send"}
    \/ op = "check" /\ position \in {"shard", "now"}

Waiting == {"poll", "block", "reread"}
Ended == {"done", "panicked", "leafless"}

FateStates == {"unsent", "pooled", "effective", "refused", "left_out"}

\* The shape of what the client keeps.
ClientType ==
    /\ view \in [config : ConfigState \cup {None}, membership : MembershipState \cup {None},
                 now : Nat \cup {None}, index : Indices \cup {None},
                 next_index : Nat \cup {None}]
    /\ fate \in [state : FateStates, index : Indices \cup {None}]

\* A transaction is sent, and a result returned, only by a call that has
\* passed its reads.
CallInv ==
    /\ pc # "off" => job \in Jobs
    /\ pc = "off" \/ At(job.op, pc) \/ pc \in Ended
    /\ pc \notin Waiting \cup Ended => fate.state = "unsent" /\ result.is = "nothing"
    /\ pc \in Waiting => fate.state # "unsent"

\* The reads that a call has behind it at each of its positions.
ReadInv ==
    /\ pc \in {"membership", "leaf", "clock", "tree", "afford", "send"} =>
          /\ config # Empty
          /\ SameTerms(view.config, config)
          /\ job.op # "extend" => config.merkle_program_id = job.merkle
    /\ pc = "leaf" \/ (pc \in {"clock", "afford", "send"} /\ job.op # "register") =>
          view.membership.rate_limit \in RateLimits
    /\ pc \in {"clock", "send"} /\ job.op \in {"erase", "slash"} =>
          view.index \in Indices /\ tree[job.merkle] # Empty
    /\ pc \in {"tree", "afford"} \/ (pc = "send" /\ job.op # "slash") => view.now \in Instants

\* What was sent is what was read, and what was read has not been undone.
TxInv ==
    fate.state # "unsent" =>
        /\ pc # "off"
        /\ tx.op = job.op /\ tx.op # "check"
        /\ tx.id_commitment = job.id_commitment /\ tx.identity_secret = job.identity_secret
        /\ tx.payer = job.payer /\ tx.tree_main = job.merkle
        /\ config # Empty /\ SameTerms(tx.claim, config)
        /\ tx.rate_limit \in RateLimits
        /\ tx.op = "register" => tx.rate_limit = job.rate_limit
        /\ tx.op # "slash" => tx.now_ms \in Instants
        /\ tx.op \in {"erase", "slash"} => tx.leaf_index \in Indices
        /\ tx.op # "extend" => /\ tx.claim.merkle_program_id = tx.tree_main
                               /\ tree[tx.tree_main] # Empty

\* Where register_identity has read the tree.
TreeRead == pc \in {"afford", "send"} \cup Waiting \/ fate.state # "unsent"

\* The part of the tree that register_identity has read: past the leaf it
\* found, if any, none of the indices it saw filled holds its leaf.
SeenInv ==
    TreeRead /\ job.op = "register" =>
        /\ tree[job.merkle] # Empty
        /\ view.next_index \in Nat /\ view.next_index <= tree[job.merkle].next_index
        /\ view.index # None => view.index < view.next_index
        /\ \A i \in Indices : i < view.next_index /\ (view.index = None \/ i > view.index)
              => tree[job.merkle].leaves[i] # registration_leaf

\* The index the transaction was given, and what the call returned.
FateInv ==
    /\ fate.index # None =>
          /\ fate.state = "effective" /\ tx.op = "register"
          /\ fate.index >= view.next_index
          /\ fate.index < tree[tx.tree_main].next_index
    /\ result.is = "some" => result.index >= view.next_index
    /\ pc = "reread" \/ result.is = "absent" => fate.state \in {"effective", "refused"}
    /\ result.is \in {"some", "absent"} => pc = "done" /\ fate.state # "unsent"
    /\ AbsentMeansGone

CInv ==
    /\ Inv /\ ConfigOrigin /\ RateOrigin
    /\ ClientType /\ CallInv /\ ReadInv /\ TxInv /\ SeenInv /\ FateInv

-----------------------------------------------------------------------------
(* What a step of the registry leaves standing.                            *)

\* No instruction changes a config's terms, or removes the config.
LEMMA TermsStay ==
  ASSUME TypeOK, [Next]_vars, config # Empty
  PROVE  config' # Empty /\ SameTerms(config', config)
  <1>1. config \in ConfigState
    BY DEF TypeOK
  <1>2. ASSUME NEW rate \in RateLimits, NEW claim \in Deployments, RegisterConfig(rate, claim)
        PROVE  config' # Empty /\ SameTerms(config', config)
    <2>1. config' \in ConfigState
      BY <1>2, RegisterConfigType
    <2>2. SameTerms(config', config)
      BY <1>1, <1>2 DEF RegisterConfig, RegisterConfigChecks, SameTerms, ConfigState
    <2>3. QED
      BY <2>1, <2>2, EmptyAssumption
  <1>3. ASSUME NEW rate \in RateLimits, NEW p, ReleaseConfig(rate, p)
        PROVE  config' # Empty /\ SameTerms(config', config)
    <2>1. config' \in ConfigState
      BY <1>3, ReleaseConfigType
    <2>2. SameTerms(config', config)
      BY <1>1, <1>3 DEF ReleaseConfig, SameTerms, ConfigState
    <2>3. QED
      BY <2>1, <2>2, EmptyAssumption
  <1>4. config' = config => config' # Empty /\ SameTerms(config', config)
    BY DEF SameTerms
  <1>5. QED
    BY <1>2, <1>3, <1>4
       DEF Next, Initialize, InitConfig, InitializeMerkleTree, Register, Slash, Extend, Erase,
           Tick, Reveal, vars

\* The config's terms are those it was deployed with.
LEMMA ConfigOriginStep ==
  ASSUME TypeOK, ConfigOrigin, [Next]_vars
  PROVE  ConfigOrigin'
  <1>1. CASE config # Empty
    <2>1. PICK d \in Deployments : SameTerms(config, d)
      BY <1>1 DEF ConfigOrigin
    <2>2. SameTerms(config', config)
      BY <1>1, TermsStay
    <2>3. SameTerms(config', d)
      BY <2>1, <2>2 DEF SameTerms
    <2>4. QED
      BY <2>3 DEF ConfigOrigin, SameTerms
  <1>2. CASE config = Empty
    <2>1. ASSUME NEW d \in Deployments, Initialize(d) PROVE SameTerms(config', d)
      BY <2>1 DEF Initialize, InitConfig, SameTerms
    <2>2. config' = config \/ \E d \in Deployments : Initialize(d)
      BY <1>2
         DEF Next, InitializeMerkleTree, Register, RegisterConfig, RegisterConfigChecks, Slash,
             ReleaseConfig,
                  Extend, Erase, Tick, Reveal, vars, assert_config_ids
    <2>3. QED
      BY <1>2, <2>1, <2>2 DEF ConfigOrigin, SameTerms
  <1>3. QED
    BY <1>1, <1>2

\* A rate limit enters a membership only with a registration.
LEMMA RateOriginStep ==
  ASSUME TypeOK, TypeOK', RateOrigin, [Next]_vars
  PROVE  RateOrigin'
  <1>1. ASSUME NEW c \in Commitments, NEW rate \in RateLimits, NEW claim, NEW now,
               InitMembership(c, rate, claim, now)
        PROVE  RateOrigin'
    <2>1. \A d \in Commitments : d # c => membership'[d] = membership[d]
      BY <1>1 DEF InitMembership, TypeOK
    <2>2. membership'[c].rate_limit = rate
      BY <1>1, NewMember
    <2>3. QED
      BY <2>1, <2>2 DEF RateOrigin, Members
  <1>2. ASSUME NEW c \in Commitments, membership' = [membership EXCEPT ![c] = Empty]
        PROVE  RateOrigin'
    BY <1>2, GoneMember DEF RateOrigin
  <1>3. ASSUME NEW c \in Commitments, NEW rate, NEW now, ExtendMembership(c, rate, now)
        PROVE  RateOrigin'
    BY <1>3, RenewedMember DEF RateOrigin
  <1>4. ASSUME membership' = membership PROVE RateOrigin'
    BY <1>4 DEF RateOrigin, Members
  <1>5. QED
    BY <1>1, <1>2, <1>3, <1>4
       DEF Next, Initialize, InitializeMerkleTree, Register, Slash, SlashMembership,
           SlashMembershipChecks, Extend,
           Erase, EraseMembership, EraseMembershipChecks, Tick, Reveal, vars

\* A step of the registry, or none, under SlotStep.
LEMMA SlotsKept ==
  ASSUME Inv, [Next]_vars, NEW p \in MerklePrograms, tree[p] # Empty
  PROVE  /\ tree'[p] # Empty
         /\ tree'[p].next_index >= tree[p].next_index
         /\ \A i \in Indices : tree'[p].leaves[i] # tree[p].leaves[i] =>
               \/ tree'[p].leaves[i] = ZERO
               \/ i = tree[p].next_index /\ tree'[p].next_index > i
  <1>1. CASE Next
    BY <1>1, SlotStep DEF SlotRule
  <1>2. CASE UNCHANGED vars
    <2>1. tree[p].next_index \in Nat
      BY DEF Inv, TypeOK, Tree
    <2>2. QED
      BY <1>2, <2>1 DEF vars
  <1>3. QED
    BY <1>1, <1>2

\* What everybody else may do to the registry between two steps of a client.
LEMMA RegistryStep ==
  ASSUME Inv, ConfigOrigin, RateOrigin, [Next]_vars
  PROVE  /\ Inv' /\ ConfigOrigin' /\ RateOrigin'
         /\ config # Empty => config' # Empty /\ SameTerms(config', config)
  <1>1. Inv'
    BY StepInv
  <1>2. TypeOK /\ TypeOK'
    BY <1>1 DEF Inv
  <1>3. QED
    BY <1>1, <1>2, ConfigOriginStep, RateOriginStep, TermsStay

-----------------------------------------------------------------------------
(* The client's own operators.                                             *)

\* The successor of each position of a call.
LEMMA ProceedCases ==
  ASSUME Proceed, At(job.op, pc)
  PROVE  \/ pc = "config" /\ job.op = "register" /\ pc' = "clock"
         \/ pc = "config" /\ job.op \in {"extend", "erase", "slash"} /\ pc' = "membership"
         \/ pc = "membership" /\ job.op = "extend" /\ pc' = "clock"
         \/ pc = "membership" /\ job.op \in {"erase", "slash"} /\ pc' = "leaf"
         \/ pc = "leaf" /\ job.op = "erase" /\ pc' = "clock"
         \/ pc = "leaf" /\ job.op = "slash" /\ pc' = "send"
         \/ pc = "clock" /\ job.op = "register" /\ pc' = "tree"
         \/ pc = "clock" /\ job.op = "extend" /\ pc' = "afford"
         \/ pc = "clock" /\ job.op = "erase" /\ pc' = "send"
         \/ pc = "tree" /\ job.op = "register" /\ pc' = "afford"
         \/ pc = "afford" /\ job.op \in {"register", "extend"} /\ pc' = "send"
         \/ pc = "send" /\ job.op = "register" /\ pc' = "poll"
         \/ pc = "send" /\ job.op \in {"extend", "erase", "slash"} /\ pc' = "done"
         \/ pc = "shard" /\ job.op = "check" /\ pc' = "now"
         \/ pc = "now" /\ job.op = "check" /\ pc' = "done"
  <1>1. CASE job.op = "register"
    <2>1. Steps(job.op) = register_identity
      BY <1>1 DEF Steps
    <2>2. PICK k \in 1 .. 5 : register_identity[k] = pc /\ pc' = register_identity[k + 1]
      BY <2>1 DEF Proceed, register_identity
    <2>3. k = 1 \/ k = 2 \/ k = 3 \/ k = 4 \/ k = 5
      OBVIOUS
    <2>4. QED
      BY <1>1, <2>2, <2>3 DEF register_identity
  <1>2. CASE job.op = "extend"
    <2>1. Steps(job.op) = extend_membership
      BY <1>2 DEF Steps
    <2>2. PICK k \in 1 .. 5 : extend_membership[k] = pc /\ pc' = extend_membership[k + 1]
      BY <2>1 DEF Proceed, extend_membership
    <2>3. k = 1 \/ k = 2 \/ k = 3 \/ k = 4 \/ k = 5
      OBVIOUS
    <2>4. QED
      BY <1>2, <2>2, <2>3 DEF extend_membership
  <1>3. CASE job.op = "erase"
    <2>1. Steps(job.op) = erase_membership
      BY <1>3 DEF Steps
    <2>2. PICK k \in 1 .. 5 : erase_membership[k] = pc /\ pc' = erase_membership[k + 1]
      BY <2>1 DEF Proceed, erase_membership
    <2>3. k = 1 \/ k = 2 \/ k = 3 \/ k = 4 \/ k = 5
      OBVIOUS
    <2>4. QED
      BY <1>3, <2>2, <2>3 DEF erase_membership
  <1>4. CASE job.op = "slash"
    <2>1. Steps(job.op) = slash_membership
      BY <1>4 DEF Steps
    <2>2. PICK k \in 1 .. 4 : slash_membership[k] = pc /\ pc' = slash_membership[k + 1]
      BY <2>1 DEF Proceed, slash_membership
    <2>3. k = 1 \/ k = 2 \/ k = 3 \/ k = 4
      OBVIOUS
    <2>4. QED
      BY <1>4, <2>2, <2>3 DEF slash_membership
  <1>5. CASE job.op = "check"
    <2>1. Steps(job.op) = check_membership
      BY <1>5 DEF Steps
    <2>2. PICK k \in 1 .. 2 : check_membership[k] = pc /\ pc' = check_membership[k + 1]
      BY <2>1 DEF Proceed, check_membership
    <2>3. k = 1 \/ k = 2
      OBVIOUS
    <2>4. QED
      BY <1>5, <2>2, <2>3 DEF check_membership
  <1>6. QED
    BY <1>1, <1>2, <1>3, <1>4, <1>5 DEF At

\* A call begins at the first of its reads.
LEMMA FirstStep ==
  ASSUME NEW op \in Ops
  PROVE  Head(Steps(op)) = IF op = "check" THEN "shard" ELSE "config"
  BY DEF Ops, Steps, register_identity, extend_membership, erase_membership, slash_membership,
         check_membership

\* Of any indices, one is the newest.
LEMMA NewestIndex ==
  ASSUME NEW S, S \subseteq Indices, S # {}
  PROVE  \E i \in S : \A j \in S : j <= i
  <1> DEFINE Below == {ss \in Nat \X Nat : ss[1] < ss[2]}
             T == {TREE_LEAVES - i : i \in S}
  <1>1. IsWellFoundedOn(Below, Nat)
    BY NatLessThanWellFounded DEF OpToRel
  <1>2. T \subseteq Nat /\ T # {}
    <2>1. ASSUME NEW i \in S PROVE TREE_LEAVES - i \in Nat
      <3>1. i \in 0 .. (TREE_LEAVES - 1) /\ TREE_LEAVES \in Nat
        BY BoundsAssumption DEF Indices
      <3>2. QED
        BY <3>1
    <2>2. PICK i \in S : TRUE
      OBVIOUS
    <2>3. TREE_LEAVES - i \in T
      OBVIOUS
    <2>4. QED
      BY <2>1, <2>3
  <1> HIDE DEF Below, T
  <1>3. PICK x \in T : \A y \in T : ~(<<y, x>> \in Below)
    BY <1>1, <1>2, WFMin
  <1>4. ASSUME NEW y \in T PROVE x <= y
    <2>1. x \in Nat /\ y \in Nat
      BY <1>2
    <2>2. ~(y < x)
      BY <1>3, <2>1 DEF Below
    <2>3. QED
      BY <2>1, <2>2
  <1>5. PICK i \in S : x = TREE_LEAVES - i
    BY DEF T
  <1>6. ASSUME NEW j \in S PROVE j <= i
    <2>1. x <= TREE_LEAVES - j
      BY <1>4 DEF T
    <2>2. i \in Int /\ j \in Int /\ TREE_LEAVES \in Int
      BY BoundsAssumption DEF Indices
    <2>3. QED
      BY <1>5, <2>1, <2>2
  <1>7. QED
    BY <1>6

\* find_leaf_index returns the newest index below `next_index` that holds the
\* leaf, or nothing when there is none.
LEMMA FindLeafIndex ==
  ASSUME TypeOK, NEW leaf, job.merkle \in MerklePrograms, tree[job.merkle] # Empty
  PROVE  /\ find_leaf_index(leaf) \in Indices \cup {None}
         /\ find_leaf_index(leaf) # None =>
               /\ find_leaf_index(leaf) < tree[job.merkle].next_index
               /\ tree[job.merkle].leaves[find_leaf_index(leaf)] = leaf
         /\ \A i \in Indices :
               /\ i < tree[job.merkle].next_index
               /\ find_leaf_index(leaf) = None \/ i > find_leaf_index(leaf)
               => tree[job.merkle].leaves[i] # leaf
  <1> DEFINE at == {i \in Indices : /\ tree[job.merkle] # Empty
                                    /\ i < tree[job.merkle].next_index
                                    /\ tree[job.merkle].leaves[i] = leaf}
             newest == CHOOSE i \in at : \A j \in at : j <= i
  <1>1. find_leaf_index(leaf) = IF at = {} THEN None ELSE newest
    BY DEF find_leaf_index
  <1>2. None \notin Indices
    BY NoneAssumption, BoundsAssumption DEF Indices
  <1>3. CASE at = {}
    BY <1>1, <1>3
  <1>4. CASE at # {}
    <2>1. newest \in at /\ \A j \in at : j <= newest
      <3>1. at \subseteq Indices
        OBVIOUS
      <3> HIDE DEF at
      <3>2. \E i \in at : \A j \in at : j <= i
        BY <1>4, <3>1, NewestIndex
      <3>3. QED
        BY <3>2
    <2>2. find_leaf_index(leaf) = newest
      BY <1>1, <1>4
    <2> HIDE DEF newest
    <2>3. newest \in Indices /\ newest # None
      BY <1>2, <2>1
    <2>4. ASSUME NEW i \in Indices, i < tree[job.merkle].next_index, i > newest
          PROVE  tree[job.merkle].leaves[i] # leaf
      <3>1. i \in Int /\ newest \in Int /\ ~(i <= newest)
        BY <2>3, <2>4, BoundsAssumption DEF Indices
      <3>2. i \notin at
        BY <2>1, <3>1
      <3>3. QED
        BY <2>4, <3>2
    <2>5. QED
      BY <2>1, <2>2, <2>3, <2>4
  <1>5. QED
    BY <1>3, <1>4

\* A job's arguments.
LEMMA JobFields ==
  ASSUME NEW j \in Jobs
  PROVE  /\ j.op \in Ops /\ j.id_commitment \in Commitments /\ j.identity_secret \in Secrets
         /\ j.payer \in Payers /\ j.merkle \in MerklePrograms
         /\ j.rate_limit \in RateLimits /\ validate_rate_limit(j.rate_limit)
         /\ hash_single[j.identity_secret] = j.id_commitment
  BY JobAssumption DEF JobRecord

-----------------------------------------------------------------------------
(* The transaction a client sends is one of the registry's.                *)

\* Register uses no more of a claim than the config's terms.
LEMMA RegisterByTerms ==
  ASSUME NEW c, NEW rate, NEW x, NEW y, NEW now, NEW payer, SameTerms(x, y),
         Register(c, rate, x, now, payer)
  PROVE  Register(c, rate, y, now, payer)
  BY DEF SameTerms, Register, RegisterConfig, RegisterConfigChecks, claims_price_and_payee,
         InitMembership

\* Nor does Extend.
LEMMA ExtendByTerms ==
  ASSUME NEW c, NEW rate, NEW x, NEW y, NEW now, NEW payer, SameTerms(x, y),
         Extend(c, rate, x, now, payer)
  PROVE  Extend(c, rate, y, now, payer)
  BY DEF SameTerms, Extend, ExtendConfig, claims_price_and_payee

\* Whatever the client sent is a step that Registry has among its own.
LEMMA ExecuteIsNext ==
  ASSUME CInv, fate.state = "pooled", Execute(tx)
  PROVE  Next
  <1>1. /\ job \in Jobs
        /\ tx.id_commitment = job.id_commitment /\ tx.identity_secret = job.identity_secret
        /\ tx.payer = job.payer
        /\ config # Empty /\ SameTerms(tx.claim, config)
        /\ tx.rate_limit \in RateLimits
        /\ tx.op # "slash" => tx.now_ms \in Instants
        /\ tx.op \in {"erase", "slash"} => tx.leaf_index \in Indices
    BY DEF CInv, TxInv, CallInv
  <1>2. PICK d \in Deployments : SameTerms(config, d)
    BY <1>1 DEF CInv, ConfigOrigin
  <1>3. SameTerms(tx.claim, d)
    BY <1>1, <1>2 DEF SameTerms
  <1>4. /\ tx.id_commitment \in Commitments /\ tx.identity_secret \in Secrets
        /\ tx.payer \in Payers
    BY <1>1, JobFields
  <1>5. tx.claim.merkle_program_id \in MerklePrograms
    BY <1>3, DomainAssumption DEF SameTerms, Deployment
  <1>6. CASE tx.op = "register" /\ Register(tx.id_commitment, tx.rate_limit, tx.claim,
                                            tx.now_ms, tx.payer)
    <2>1. Register(tx.id_commitment, tx.rate_limit, d, tx.now_ms, tx.payer)
      BY <1>3, <1>6, RegisterByTerms
    <2>2. QED
      BY <1>1, <1>4, <1>6, <2>1 DEF Next
  <1>7. CASE tx.op = "extend" /\ Extend(tx.id_commitment, tx.rate_limit, tx.claim,
                                        tx.now_ms, tx.payer)
    <2>1. Extend(tx.id_commitment, tx.rate_limit, d, tx.now_ms, tx.payer)
      BY <1>3, <1>7, ExtendByTerms
    <2>2. QED
      BY <1>1, <1>4, <1>7, <2>1 DEF Next
  <1>8. CASE tx.op = "erase" /\ Erase(tx.id_commitment, tx.rate_limit,
                                      tx.claim.merkle_program_id, tx.leaf_index, tx.now_ms)
    BY <1>1, <1>4, <1>5, <1>8 DEF Next
  <1>9. CASE tx.op = "slash" /\ Slash(tx.identity_secret, tx.id_commitment, tx.rate_limit,
                                      tx.claim.merkle_program_id, tx.leaf_index)
    BY <1>1, <1>4, <1>5, <1>9 DEF Next
  <1>10. QED
    BY <1>6, <1>7, <1>8, <1>9 DEF Execute

-----------------------------------------------------------------------------
(* The chain moves under the client: others' transactions, and its own.    *)

\* The leaf of a registration is not the empty one.
LEMMA LeafNotZero ==
  ASSUME job \in Jobs
  PROVE  registration_leaf # ZERO
  <1>1. job.id_commitment \in Commitments /\ job.rate_limit \in Nat
    BY JobFields, DomainAssumption
  <1>2. registration_leaf \in Commitments \X Nat
    BY <1>1 DEF registration_leaf, compute_registration_leaf
  <1>3. QED
    BY <1>2, EmptyAssumption

\* What was read of the config stays true, and a tree that was live stays so.
LEMMA ReadsStay ==
  ASSUME CInv, [Next]_vars, UNCHANGED <<pc, job, view>>
  PROVE  ReadInv'
  <1>1. pc # "off" => job.merkle \in MerklePrograms
    BY JobFields DEF CInv, CallInv
  <1>2. config # Empty => config' # Empty /\ SameTerms(config', config)
    BY RegistryStep DEF CInv
  <1>3. pc # "off" /\ tree[job.merkle] # Empty => tree'[job.merkle] # Empty
    BY <1>1, SlotsKept DEF CInv
  <1>4. ReadInv
    BY DEF CInv
  <1>5. QED
    BY <1>2, <1>3, <1>4 DEF ReadInv, SameTerms

\* The transaction's claims stay true of the config and of the tree.
LEMMA ClaimsStay ==
  ASSUME CInv, [Next]_vars, UNCHANGED <<pc, job, tx>>,
         fate'.state # "unsent" => fate.state # "unsent"
  PROVE  TxInv'
  <1> SUFFICES ASSUME fate.state # "unsent" PROVE TxInv'
    BY DEF TxInv
  <1>1. TxInv /\ pc # "off"
    BY DEF CInv, TxInv
  <1>2. tx.tree_main \in MerklePrograms
    BY <1>1, JobFields DEF CInv, CallInv, TxInv
  <1>3. config' # Empty /\ SameTerms(config', config)
    BY <1>1, RegistryStep DEF CInv, TxInv
  <1>4. tree[tx.tree_main] # Empty => tree'[tx.tree_main] # Empty
    BY <1>2, SlotsKept DEF CInv
  <1>5. QED
    BY <1>1, <1>3, <1>4 DEF TxInv, SameTerms

\* A slot below `next_index` that does not hold the registration's leaf never
\* will.
LEMMA OldSlotsStay ==
  ASSUME Inv, [Next]_vars, job \in Jobs, NEW p \in MerklePrograms, tree[p] # Empty,
         NEW i \in Indices, i < tree[p].next_index, tree[p].leaves[i] # registration_leaf
  PROVE  tree'[p].leaves[i] # registration_leaf
  <1>1. tree[p].next_index \in Nat /\ i \in Nat
    BY BoundsAssumption DEF Inv, TypeOK, Tree, Indices
  <1>2. i # tree[p].next_index
    BY <1>1
  <1>3. tree'[p].leaves[i] = tree[p].leaves[i] \/ tree'[p].leaves[i] = ZERO
    BY <1>2, SlotsKept
  <1>4. QED
    BY <1>3, LeafNotZero

\* So what register_identity has seen of the tree stays true of it.
LEMMA SeenStays ==
  ASSUME CInv, [Next]_vars, UNCHANGED <<pc, job, view>>,
         fate'.state # "unsent" => fate.state # "unsent"
  PROVE  SeenInv'
  <1> SUFFICES ASSUME TreeRead', job.op = "register" PROVE SeenInv'
    BY DEF SeenInv
  <1>1. TreeRead /\ pc # "off" /\ job \in Jobs
    BY DEF TreeRead, CInv, TxInv, CallInv, Waiting
  <1> DEFINE q == job.merkle
             n == view.next_index
  <1>2. q \in MerklePrograms
    BY <1>1, JobFields
  <1>3. /\ tree[q] # Empty
        /\ n \in Nat /\ n <= tree[q].next_index
        /\ view.index # None => view.index < n
        /\ \A i \in Indices : i < n /\ (view.index = None \/ i > view.index)
              => tree[q].leaves[i] # registration_leaf
    BY <1>1 DEF CInv, SeenInv
  <1>4. tree'[q] # Empty /\ tree'[q].next_index >= tree[q].next_index
    BY <1>2, <1>3, SlotsKept DEF CInv
  <1>5. tree[q].next_index \in Nat /\ tree'[q].next_index \in Nat
    BY <1>2, <1>3, <1>4, RegistryStep DEF CInv, Inv, TypeOK, Tree
  <1>6. n <= tree'[q].next_index
    BY <1>3, <1>4, <1>5
  <1>7. ASSUME NEW i \in Indices, i < n, view.index = None \/ i > view.index
        PROVE  tree'[q].leaves[i] # registration_leaf
    <2>1. tree[q].leaves[i] # registration_leaf
      BY <1>3, <1>7
    <2>2. i \in Nat
      BY BoundsAssumption DEF Indices
    <2>3. i < tree[q].next_index
      BY <1>3, <1>5, <1>7, <2>2
    <2>4. QED
      BY <1>1, <1>2, <1>3, <2>1, <2>3, OldSlotsStay DEF CInv
  <1>8. registration_leaf' = registration_leaf
    BY DEF registration_leaf
  <1>9. QED
    BY <1>3, <1>4, <1>6, <1>7, <1>8 DEF SeenInv

\* The index a transaction was given stays behind `next_index`, and once its
\* leaf is gone it stays gone.
LEMMA GivenIndexStays ==
  ASSUME CInv, [Next]_vars, fate.index # None, UNCHANGED <<job, tx>>
  PROVE  /\ fate.index < tree'[tx.tree_main].next_index
         /\ tree[tx.tree_main].leaves[fate.index] # registration_leaf =>
               tree'[tx.tree_main].leaves[fate.index] # registration_leaf
  <1> DEFINE q == tx.tree_main
  <1>1. /\ fate.state = "effective" /\ tx.op = "register"
        /\ fate.index \in Indices /\ fate.index < tree[q].next_index
    BY DEF CInv, FateInv, ClientType
  <1>2. pc # "off" /\ job \in Jobs /\ q = job.merkle /\ tree[q] # Empty
    BY <1>1 DEF CInv, TxInv, CallInv
  <1>3. q \in MerklePrograms
    BY <1>2, JobFields
  <1>4. tree'[q] # Empty /\ tree'[q].next_index >= tree[q].next_index
    BY <1>2, <1>3, SlotsKept DEF CInv
  <1>5. tree[q].next_index \in Nat /\ tree'[q].next_index \in Nat /\ fate.index \in Nat
    BY <1>1, <1>2, <1>3, <1>4, RegistryStep, BoundsAssumption
       DEF CInv, Inv, TypeOK, Tree, Indices
  <1>6. QED
    BY <1>1, <1>2, <1>3, <1>4, <1>5, OldSlotsStay DEF CInv

\* Anybody else's step.
LEMMA EnvironmentStep ==
  ASSUME CInv, [Next]_vars, UNCHANGED <<pc, job, view, tx, fate, result>>
  PROVE  CInv'
  <1>1. Inv' /\ ConfigOrigin' /\ RateOrigin'
    BY RegistryStep DEF CInv
  <1>2. ReadInv' /\ TxInv' /\ SeenInv'
    BY ReadsStay, ClaimsStay, SeenStays
  <1>3. ClientType' /\ CallInv'
    BY DEF CInv, ClientType, CallInv, At
  <1>4. FateInv'
    <2>1. registration_leaf' = registration_leaf
      BY DEF registration_leaf
    <2>2. FateInv
      BY DEF CInv
    <2>3. QED
      BY <2>1, <2>2, GivenIndexStays DEF FateInv, AbsentMeansGone
  <1>5. QED
    BY <1>1, <1>2, <1>3, <1>4 DEF CInv

\* The client's own transaction takes effect.
LEMMA RunTxStep ==
  ASSUME CInv, RunTx
  PROVE  CInv' /\ Next
  <1>1. /\ fate.state = "pooled" /\ Execute(tx)
        /\ fate' = [state |-> "effective",
                    index |-> IF tx.op = "register" THEN tree[tx.tree_main].next_index ELSE None]
        /\ UNCHANGED <<pc, job, view, tx, result>>
    BY DEF RunTx
  <1>2. Next
    BY <1>1, ExecuteIsNext
  <1>3. Inv' /\ ConfigOrigin' /\ RateOrigin'
    BY <1>2, RegistryStep DEF CInv
  <1>4. ReadInv' /\ TxInv' /\ SeenInv'
    BY <1>1, <1>2, ReadsStay, ClaimsStay, SeenStays
  <1>5. CASE tx.op # "register"
    <2>1. ClientType' /\ CallInv'
      BY <1>1, <1>5 DEF CInv, ClientType, CallInv, At, FateStates
    <2>2. FateInv'
      BY <1>1, <1>5 DEF CInv, FateInv, AbsentMeansGone
    <2>3. QED
      BY <1>2, <1>3, <1>4, <2>1, <2>2 DEF CInv
  <1>6. CASE tx.op = "register"
    <2> DEFINE q == tx.tree_main
               n == tree[q].next_index
    <2>1. job \in Jobs /\ job.op = "register" /\ q = job.merkle /\ TreeRead
      BY <1>1, <1>6 DEF CInv, TxInv, CallInv, TreeRead
    <2>2. q \in MerklePrograms
      BY <2>1, JobFields
    <2>3. insert_leaf(q, compute_registration_leaf(tx.id_commitment, tx.rate_limit))
      BY <1>1, <1>6 DEF Execute, require_tree_main, Register
    <2>4. tree[q] # Empty /\ n \in Nat /\ n < TREE_LEAVES
      BY <2>2, <2>3 DEF insert_leaf, insert_leaf_checks, CInv, Inv, TypeOK, Tree
    <2>5. n \in Indices
      BY <2>4, BoundsAssumption DEF Indices
    <2>6. tree'[q].next_index = n + 1
      BY <2>2, <2>3 DEF insert_leaf, insert_leaf_checks, CInv, Inv, TypeOK
    <2>7. view.next_index <= n /\ view.next_index \in Nat
      BY <2>1 DEF CInv, SeenInv
    <2>8. fate'.index = n /\ fate'.state = "effective"
      BY <1>1, <1>6
    <2>9. ClientType' /\ CallInv'
      BY <1>1, <1>6, <2>5 DEF CInv, ClientType, CallInv, At, FateStates
    <2>10. result.is # "absent"
      BY <1>1 DEF CInv, FateInv
    <2>11. n >= view.next_index /\ n < tree'[q].next_index
      BY <2>4, <2>6, <2>7
    <2>12. FateInv'
      BY <1>1, <1>6, <2>8, <2>10, <2>11 DEF CInv, FateInv, AbsentMeansGone
    <2>13. QED
      BY <1>2, <1>3, <1>4, <2>9, <2>12 DEF CInv
  <1>7. QED
    BY <1>5, <1>6

-----------------------------------------------------------------------------
(* The client's own steps leave the registry alone.                        *)

\* What is left to show of such a step.
LEMMA OwnStep ==
  ASSUME CInv, UNCHANGED vars,
         ClientType', CallInv', ReadInv', TxInv', SeenInv', FateInv'
  PROVE  CInv'
  <1>1. Inv' /\ ConfigOrigin' /\ RateOrigin'
    BY RegistryStep DEF CInv
  <1>2. QED
    BY <1>1 DEF CInv

\* A call that ends in a failed assertion or is cut short.
LEMMA PanicStep ==
  ASSUME CInv, pc \in Running, Panic, UNCHANGED <<vars, job, tx, fate, result>>
  PROVE  CInv'
  <1>1. pc # "off" /\ pc # "done" /\ pc' = "panicked" /\ view' = view
    BY DEF Running, Panic
  <1>2. ClientType'
    BY <1>1 DEF CInv, ClientType
  <1>3. CallInv'
    BY <1>1 DEF CInv, CallInv, Ended, Waiting
  <1>4. ReadInv'
    BY <1>1 DEF ReadInv, Waiting
  <1>5. TxInv'
    BY <1>1 DEF CInv, TxInv, vars
  <1>6. SeenInv'
    BY <1>1 DEF CInv, SeenInv, TreeRead, registration_leaf, vars, Waiting
  <1>7. FateInv'
    BY <1>1 DEF CInv, FateInv, AbsentMeansGone, registration_leaf, vars
  <1>8. QED
    BY <1>2, <1>3, <1>4, <1>5, <1>6, <1>7, OwnStep

Reading == {"config", "membership", "shard", "now", "leaf", "clock", "tree", "afford", "send"}

\* A read before the send: nothing has been sent or returned.
LEMMA ReadStep ==
  ASSUME CInv, pc \in Reading, pc' # "off", pc' # "reread", UNCHANGED <<job, fate>>,
         result' = result \/ result'.is \notin {"some", "absent"}
  PROVE  /\ fate.state = "unsent" /\ result.is = "nothing"
         /\ At(job.op, pc) /\ job \in Jobs
         /\ TxInv' /\ FateInv'
         /\ ~TreeRead' => SeenInv'
  <1>1. pc \notin Waiting \cup Ended /\ pc # "off"
    BY DEF Reading, Waiting, Ended
  <1>2. fate.state = "unsent" /\ result.is = "nothing" /\ At(job.op, pc) /\ job \in Jobs
    BY <1>1 DEF CInv, CallInv
  <1>3. fate.index = None
    BY <1>2 DEF CInv, FateInv
  <1>4. result'.is \notin {"some", "absent"}
    BY <1>2
  <1>5. TxInv' /\ FateInv'
    BY <1>2, <1>3, <1>4 DEF TxInv, FateInv, AbsentMeansGone
  <1>6. ~TreeRead' => SeenInv'
    BY DEF SeenInv
  <1>7. QED
    BY <1>2, <1>5, <1>6

\* A call begins with nothing read and nothing sent.
LEMMA CallStep ==
  ASSUME CInv, NEW j \in Jobs, Call(j)
  PROVE  CInv'
  <1>1. /\ pc = "off" /\ pc' = Head(Steps(j.op)) /\ job' = j
        /\ UNCHANGED <<vars, view, tx, fate, result>>
    BY DEF Call
  <1>2. j.op \in Ops
    BY JobFields
  <1>3. pc' = IF j.op = "check" THEN "shard" ELSE "config"
    BY <1>1, <1>2, FirstStep
  <1>4. fate.state = "unsent" /\ result.is = "nothing"
    BY <1>1 DEF CInv, CallInv, Waiting, Ended
  <1>5. fate.index = None
    BY <1>4 DEF CInv, FateInv
  <1>6. ClientType'
    BY <1>1 DEF CInv, ClientType
  <1>7. CallInv'
    BY <1>1, <1>2, <1>3, <1>4 DEF CallInv, At, Ops, Waiting
  <1>8. ReadInv' /\ TxInv' /\ SeenInv'
    BY <1>1, <1>3, <1>4 DEF ReadInv, TxInv, SeenInv, TreeRead, Waiting
  <1>9. FateInv'
    BY <1>1, <1>3, <1>4, <1>5 DEF FateInv, AbsentMeansGone
  <1>10. QED
    BY <1>1, <1>6, <1>7, <1>8, <1>9, OwnStep

\* read_config: the terms read are the config's, and its merkle program is the
\* record's unless the call is an extend.
LEMMA ReadConfigStep ==
  ASSUME CInv, read_config
  PROVE  CInv'
  <1>1. /\ pc = "config" /\ pc \in Reading /\ pc \in Running
        /\ UNCHANGED <<vars, job, tx, fate, result>>
    BY DEF read_config, Reading, Running
  <1>2. CASE Panic
    BY <1>1, <1>2, PanicStep
  <1>3. CASE /\ config # Empty /\ check_merkle_claim /\ Proceed
             /\ view' = [view EXCEPT !.config = config]
    <2>1. At(job.op, pc)
      BY <1>1 DEF CInv, CallInv, Ended
    <2>2. \/ pc' = "clock" /\ job.op = "register"
          \/ pc' = "membership" /\ job.op \in {"extend", "erase", "slash"}
      BY <1>1, <1>3, <2>1, ProceedCases
    <2>3. TxInv' /\ FateInv' /\ fate.state = "unsent" /\ result.is = "nothing" /\ job \in Jobs
      BY <1>1, <2>2, ReadStep
    <2>4. SeenInv'
      BY <1>1, <2>2, <2>3 DEF SeenInv, TreeRead, Waiting
    <2>5. config \in ConfigState
      BY <1>3 DEF CInv, Inv, TypeOK
    <2>6. ClientType'
      BY <1>1, <1>3, <2>5 DEF CInv, ClientType
    <2>7. view'.config = config
      BY <1>3 DEF CInv, ClientType
    <2>8. CallInv'
      BY <1>1, <2>2, <2>3 DEF CallInv, At, Waiting
    <2>9. ReadInv'
      BY <1>1, <1>3, <2>2, <2>7 DEF ReadInv, SameTerms, check_merkle_claim, vars, Waiting
    <2>10. QED
      BY <1>1, <2>3, <2>4, <2>6, <2>8, <2>9, OwnStep
  <1>4. QED
    BY <1>2, <1>3 DEF read_config

\* read_membership: the rate limit read is one that was sold.
LEMMA ReadMembershipStep ==
  ASSUME CInv, read_membership
  PROVE  CInv'
  <1>1. /\ pc = "membership" /\ pc \in Reading /\ pc \in Running
        /\ UNCHANGED <<vars, job, tx, fate, result>>
    BY DEF read_membership, Reading, Running
  <1>2. CASE Panic
    BY <1>1, <1>2, PanicStep
  <1> DEFINE m == membership[job.id_commitment]
  <1>3. CASE m # Empty /\ Proceed /\ view' = [view EXCEPT !.membership = m]
    <2>1. At(job.op, pc)
      BY <1>1 DEF CInv, CallInv, Ended
    <2>2. \/ pc' = "clock" /\ job.op = "extend"
          \/ pc' = "leaf" /\ job.op \in {"erase", "slash"}
      BY <1>1, <1>3, <2>1, ProceedCases
    <2>3. TxInv' /\ FateInv' /\ fate.state = "unsent" /\ result.is = "nothing" /\ job \in Jobs
      BY <1>1, <2>2, ReadStep
    <2>4. SeenInv'
      BY <1>1, <2>2, <2>3 DEF SeenInv, TreeRead, Waiting
    <2>5. job.id_commitment \in Commitments
      BY <2>3, JobFields
    <2>6. m \in MembershipState /\ m.rate_limit \in RateLimits
      BY <1>3, <2>5 DEF CInv, Inv, TypeOK, RateOrigin, Members
    <2>7. ClientType'
      BY <1>1, <1>3, <2>6 DEF CInv, ClientType
    <2>8. view'.membership = m /\ view'.config = view.config
      BY <1>3 DEF CInv, ClientType
    <2>9. CallInv'
      BY <1>1, <2>2, <2>3 DEF CallInv, At, Waiting
    <2>10. ReadInv'
      BY <1>1, <2>2, <2>6, <2>8 DEF CInv, ReadInv, vars, Waiting
    <2>11. QED
      BY <1>1, <2>3, <2>4, <2>7, <2>9, <2>10, OwnStep
  <1>4. QED
    BY <1>2, <1>3 DEF read_membership

\* read_clock_ms: a genesis clock stops the call.
LEMMA ReadClockStep ==
  ASSUME CInv, read_clock_ms
  PROVE  CInv'
  <1>1. /\ pc = "clock" /\ pc \in Reading /\ pc \in Running
        /\ UNCHANGED <<vars, job, tx, fate, result>>
    BY DEF read_clock_ms, Reading, Running
  <1>2. CASE Panic
    BY <1>1, <1>2, PanicStep
  <1>3. CASE clock > 0 /\ Proceed /\ view' = [view EXCEPT !.now = clock]
    <2>1. At(job.op, pc)
      BY <1>1 DEF CInv, CallInv, Ended
    <2>2. \/ pc' = "tree" /\ job.op = "register"
          \/ pc' = "afford" /\ job.op = "extend"
          \/ pc' = "send" /\ job.op = "erase"
      BY <1>1, <1>3, <2>1, ProceedCases
    <2>3. TxInv' /\ FateInv' /\ fate.state = "unsent" /\ result.is = "nothing" /\ job \in Jobs
      BY <1>1, <2>2, ReadStep
    <2>4. SeenInv'
      BY <1>1, <2>2, <2>3 DEF SeenInv, TreeRead, Waiting
    <2>5. clock \in Instants /\ clock \in Nat
      BY <1>3, DomainAssumption DEF CInv, Inv, TypeOK
    <2>6. ClientType'
      BY <1>1, <1>3, <2>5 DEF CInv, ClientType
    <2>7. /\ view'.now = clock /\ view'.config = view.config
          /\ view'.membership = view.membership /\ view'.index = view.index
      BY <1>3 DEF CInv, ClientType
    <2>8. CallInv'
      BY <1>1, <2>2, <2>3 DEF CallInv, At, Waiting
    <2>9. ReadInv'
      BY <1>1, <2>2, <2>5, <2>7 DEF CInv, ReadInv, vars, Waiting
    <2>10. QED
      BY <1>1, <2>3, <2>4, <2>6, <2>8, <2>9, OwnStep
  <1>4. QED
    BY <1>2, <1>3 DEF read_clock_ms

\* locate_membership_leaf: the index found lies in a live tree.
LEMMA LocateStep ==
  ASSUME CInv, locate_membership_leaf
  PROVE  CInv'
  <1> DEFINE at == find_leaf_index(compute_registration_leaf(job.id_commitment,
                                                             view.membership.rate_limit))
  <1>1. /\ pc = "leaf" /\ pc \in Reading /\ pc \in Running
        /\ UNCHANGED <<vars, job, tx, fate, result>>
    BY DEF locate_membership_leaf, Reading, Running
  <1>2. CASE Panic
    BY <1>1, <1>2, PanicStep
  <1>3. CASE pc' = "leafless" /\ UNCHANGED view
    <2>1. TxInv' /\ FateInv' /\ fate.state = "unsent" /\ result.is = "nothing" /\ job \in Jobs
      BY <1>1, <1>3, ReadStep
    <2>2. SeenInv' /\ ReadInv'
      BY <1>1, <1>3, <2>1 DEF SeenInv, TreeRead, Waiting, ReadInv
    <2>3. ClientType' /\ CallInv'
      BY <1>1, <1>3, <2>1 DEF CInv, ClientType, CallInv, Ended, Waiting
    <2>4. QED
      BY <1>1, <2>1, <2>2, <2>3, OwnStep
  <1>4. CASE check_tree_shard /\ at # None /\ Proceed /\ view' = [view EXCEPT !.index = at]
    <2>1. At(job.op, pc)
      BY <1>1 DEF CInv, CallInv, Ended
    <2>2. \/ pc' = "clock" /\ job.op = "erase"
          \/ pc' = "send" /\ job.op = "slash"
      BY <1>1, <1>4, <2>1, ProceedCases
    <2>3. TxInv' /\ FateInv' /\ fate.state = "unsent" /\ result.is = "nothing" /\ job \in Jobs
      BY <1>1, <2>2, ReadStep
    <2>4. SeenInv'
      BY <1>1, <2>2, <2>3 DEF SeenInv, TreeRead, Waiting
    <2>5. job.merkle \in MerklePrograms /\ tree[job.merkle] # Empty
      BY <1>4, <2>3, JobFields DEF check_tree_shard
    <2>6. at \in Indices
      BY <1>4, <2>5, FindLeafIndex DEF CInv, Inv
    <2> HIDE DEF at
    <2>7. ClientType'
      BY <1>1, <1>4, <2>6 DEF CInv, ClientType
    <2>8. /\ view'.index = at /\ view'.config = view.config
          /\ view'.membership = view.membership
      BY <1>4 DEF CInv, ClientType
    <2>9. CallInv'
      BY <1>1, <2>2, <2>3 DEF CallInv, At, Waiting
    <2>10. ReadInv'
      BY <1>1, <2>2, <2>5, <2>6, <2>8 DEF CInv, ReadInv, vars, Waiting
    <2>11. QED
      BY <1>1, <2>3, <2>4, <2>7, <2>9, <2>10, OwnStep
  <1>5. QED
    BY <1>2, <1>3, <1>4 DEF locate_membership_leaf

\* register_identity's first look at the tree: past the index it found, no
\* filled slot holds its leaf.
LEMMA FindAlreadyAtStep ==
  ASSUME CInv, FindAlreadyAt
  PROVE  CInv'
  <1> DEFINE at == find_leaf_index(registration_leaf)
             n == tree[job.merkle].next_index
  <1>1. /\ pc = "tree" /\ pc \in Reading /\ pc \in Running
        /\ UNCHANGED <<vars, job, tx, fate, result>>
    BY DEF FindAlreadyAt, Reading, Running
  <1>2. CASE Panic
    BY <1>1, <1>2, PanicStep
  <1>3. CASE /\ tree[job.merkle] # Empty /\ Proceed
             /\ view' = [view EXCEPT !.index = at, !.next_index = n]
    <2>1. At(job.op, pc)
      BY <1>1 DEF CInv, CallInv, Ended
    <2>2. pc' = "afford" /\ job.op = "register"
      BY <1>1, <1>3, <2>1, ProceedCases
    <2>3. TxInv' /\ FateInv' /\ fate.state = "unsent" /\ result.is = "nothing" /\ job \in Jobs
      BY <1>1, <2>2, ReadStep
    <2>4. job.merkle \in MerklePrograms
      BY <2>3, JobFields
    <2>5. n \in Nat
      BY <1>3, <2>4 DEF CInv, Inv, TypeOK, Tree
    <2>6. /\ at \in Indices \cup {None}
          /\ at # None => at < n
          /\ \A i \in Indices : i < n /\ (at = None \/ i > at)
                => tree[job.merkle].leaves[i] # registration_leaf
      BY <1>3, <2>4, FindLeafIndex DEF CInv, Inv
    <2> HIDE DEF at, n
    <2>7. ClientType'
      BY <1>1, <1>3, <2>5, <2>6 DEF CInv, ClientType
    <2>8. view'.index = at /\ view'.next_index = n /\ view'.config = view.config
          /\ view'.now = view.now
      BY <1>3 DEF CInv, ClientType
    <2>9. CallInv'
      BY <1>1, <2>2, <2>3 DEF CallInv, At, Waiting
    <2>10. ReadInv'
      BY <1>1, <2>2, <2>8 DEF CInv, ReadInv, vars, Waiting
    <2>11. registration_leaf' = registration_leaf /\ tree' = tree /\ n <= n
      BY <1>1, <2>5 DEF registration_leaf, vars
    <2>12. n = tree[job.merkle].next_index
      BY DEF n
    <2>13. SeenInv'
      BY <1>1, <1>3, <2>5, <2>6, <2>8, <2>11, <2>12 DEF SeenInv
    <2>14. QED
      BY <1>1, <2>3, <2>7, <2>9, <2>10, <2>13, OwnStep
  <1>4. QED
    BY <1>2, <1>3 DEF FindAlreadyAt, check_tree_shard

\* assert_can_afford only looks.
LEMMA AffordStep ==
  ASSUME CInv, assert_can_afford
  PROVE  CInv'
  <1>1. /\ pc = "afford" /\ pc \in Reading /\ pc \in Running
        /\ UNCHANGED <<vars, job, tx, fate, result>>
    BY DEF assert_can_afford, Reading, Running
  <1>2. CASE Panic
    BY <1>1, <1>2, PanicStep
  <1>3. CASE Proceed /\ UNCHANGED view
    <2>1. At(job.op, pc)
      BY <1>1 DEF CInv, CallInv, Ended
    <2>2. pc' = "send" /\ job.op \in {"register", "extend"}
      BY <1>1, <1>3, <2>1, ProceedCases
    <2>3. TxInv' /\ FateInv' /\ fate.state = "unsent" /\ result.is = "nothing" /\ job \in Jobs
      BY <1>1, <2>2, ReadStep
    <2>4. SeenInv'
      BY <1>1, <1>3 DEF CInv, SeenInv, TreeRead, registration_leaf, vars
    <2>5. ClientType' /\ CallInv'
      BY <1>1, <1>3, <2>2, <2>3 DEF CInv, ClientType, CallInv, At, Waiting
    <2>6. ReadInv'
      BY <1>1, <1>3, <2>2 DEF CInv, ReadInv, vars, Waiting
    <2>7. QED
      BY <1>1, <2>3, <2>4, <2>5, <2>6, OwnStep
  <1>4. QED
    BY <1>2, <1>3 DEF assert_can_afford

\* check-membership sends nothing, and reports no index.
LEMMA CheckStep ==
  ASSUME CInv, get_account_shard \/ clock_timestamp_ms
  PROVE  CInv'
  <1>1. /\ pc \in {"shard", "now"} /\ pc \in Reading
        /\ UNCHANGED <<vars, job, tx, fate>>
    BY DEF get_account_shard, clock_timestamp_ms, Reading
  <1>2. At(job.op, pc) /\ job \in Jobs /\ fate.state = "unsent" /\ result.is = "nothing"
    BY <1>1 DEF CInv, CallInv, Ended, Waiting
  <1>3. job.op = "check"
    BY <1>1, <1>2 DEF At
  <1>4. ASSUME pc' = "done", result'.is \notin {"some", "absent"}, ClientType' PROVE CInv'
    <2>1. TxInv' /\ FateInv'
      BY <1>1, <1>4, ReadStep
    <2>2. SeenInv' /\ ReadInv'
      BY <1>1, <1>2, <1>4 DEF SeenInv, TreeRead, Waiting, ReadInv
    <2>3. CallInv'
      BY <1>1, <1>2, <1>4 DEF CallInv, Ended, Waiting
    <2>4. QED
      BY <1>1, <1>4, <2>1, <2>2, <2>3, OwnStep
  <1>5. CASE get_account_shard
    <2> DEFINE m == membership[job.id_commitment]
    <2>1. CASE Return("unregistered", None) /\ UNCHANGED view
      <3>1. ClientType'
        BY <1>1, <2>1 DEF CInv, ClientType
      <3>2. QED
        BY <1>4, <2>1, <3>1 DEF Return
    <2>2. CASE /\ m # Empty /\ Proceed /\ UNCHANGED result
               /\ view' = [view EXCEPT !.membership = m]
      <3>1. pc = "shard"
        BY <1>5 DEF get_account_shard
      <3>2. pc' = "now"
        BY <1>2, <2>2, <3>1, ProceedCases
      <3>3. TxInv' /\ FateInv'
        BY <1>1, <2>2, <3>2, ReadStep
      <3>4. SeenInv' /\ ReadInv'
        BY <1>1, <1>2, <3>2 DEF SeenInv, TreeRead, Waiting, ReadInv
      <3>5. CallInv'
        BY <1>1, <1>2, <1>3, <2>2, <3>2 DEF CallInv, At, Waiting
      <3>6. m \in MembershipState
        BY <1>2, <2>2, JobFields DEF CInv, Inv, TypeOK, Waiting
      <3>7. ClientType'
        BY <1>1, <2>2, <3>6 DEF CInv, ClientType
      <3>8. QED
        BY <1>1, <3>3, <3>4, <3>5, <3>7, OwnStep
    <2>3. QED
      BY <1>5, <2>1, <2>2 DEF get_account_shard
  <1>6. CASE clock_timestamp_ms
    <2>1. /\ view' = [view EXCEPT !.now = clock] /\ pc' = "done"
          /\ result' = [is |-> lifecycle(view.membership, clock), index |-> None]
      BY <1>6 DEF clock_timestamp_ms, Return
    <2>2. clock \in Nat
      BY DomainAssumption DEF CInv, Inv, TypeOK
    <2>3. ClientType'
      BY <1>1, <2>1, <2>2 DEF CInv, ClientType
    <2>4. result'.is \notin {"some", "absent"}
      <3>1. lifecycle(view.membership, clock) \in {"expired", "grace_period", "active"}
        BY DEF lifecycle
      <3>2. QED
        BY <2>1, <3>1
    <2>5. QED
      BY <1>4, <2>1, <2>3, <2>4
  <1>7. QED
    BY <1>5, <1>6

\* send_metered_tx: every claim of the transaction was read, and holds.
LEMMA SendStep ==
  ASSUME CInv, send_metered_tx
  PROVE  CInv'
  <1>1. /\ pc = "send" /\ Proceed /\ UNCHANGED <<vars, job, view, result>>
        /\ fate' = [fate EXCEPT !.state = "pooled"]
    BY DEF send_metered_tx
  <1>2. At(job.op, pc) /\ job \in Jobs /\ fate.state = "unsent" /\ result.is = "nothing"
    BY <1>1 DEF CInv, CallInv, Ended, Waiting
  <1>3. \/ pc' = "poll" /\ job.op = "register"
        \/ pc' = "done" /\ job.op \in {"extend", "erase", "slash"}
    BY <1>1, <1>2, ProceedCases
  <1>4. /\ fate'.state = "pooled" /\ fate'.index = None
        /\ ClientType'
    <2>1. fate.index = None
      BY <1>2 DEF CInv, FateInv
    <2>2. QED
      BY <1>1, <2>1 DEF CInv, ClientType, FateStates
  <1>5. /\ tx'.op = job.op /\ tx'.id_commitment = job.id_commitment
        /\ tx'.identity_secret = job.identity_secret
        /\ tx'.payer = job.payer /\ tx'.claim = view.config /\ tx'.tree_main = job.merkle
        /\ tx'.rate_limit = ClaimedRate
        /\ tx'.now_ms = view.now /\ tx'.leaf_index = view.index
    BY DEF send_metered_tx
  <1>6. /\ config # Empty /\ SameTerms(view.config, config)
        /\ job.op # "extend" => config.merkle_program_id = job.merkle
    BY <1>1 DEF CInv, ReadInv
  <1>7. /\ job.op # "register" => view.membership.rate_limit \in RateLimits
        /\ job.op \in {"erase", "slash"} =>
              view.index \in Indices /\ tree[job.merkle] # Empty
        /\ job.op # "slash" => view.now \in Instants
    BY <1>1 DEF CInv, ReadInv
  <1>8. job.op = "register" => tree[job.merkle] # Empty
    BY <1>1 DEF CInv, SeenInv, TreeRead
  <1>9. /\ ClaimedRate \in RateLimits
        /\ job.op = "register" => ClaimedRate = job.rate_limit
    BY <1>2, <1>7, JobFields DEF ClaimedRate
  <1>10. job.op # "extend" =>
            view.config.merkle_program_id = job.merkle /\ tree[job.merkle] # Empty
    BY <1>3, <1>6, <1>7, <1>8 DEF SameTerms
  <1>11. UNCHANGED <<config, tree>> /\ pc' # "off"
    BY <1>1, <1>3 DEF vars
  <1>12. TxInv'
    <2>1. /\ tx'.op = job'.op /\ tx'.op # "check"
          /\ tx'.id_commitment = job'.id_commitment
          /\ tx'.identity_secret = job'.identity_secret
          /\ tx'.payer = job'.payer /\ tx'.tree_main = job'.merkle
      BY <1>1, <1>3, <1>5
    <2>2. config' # Empty /\ SameTerms(tx'.claim, config')
      BY <1>5, <1>6, <1>11
    <2>3. /\ tx'.rate_limit \in RateLimits
          /\ tx'.op = "register" => tx'.rate_limit = job'.rate_limit
      BY <1>1, <1>5, <1>9
    <2>4. /\ tx'.op # "slash" => tx'.now_ms \in Instants
          /\ tx'.op \in {"erase", "slash"} => tx'.leaf_index \in Indices
      BY <1>5, <1>7
    <2>5. tx'.op # "extend" => /\ tx'.claim.merkle_program_id = tx'.tree_main
                               /\ tree'[tx'.tree_main] # Empty
      BY <1>5, <1>10, <1>11
    <2>6. QED
      BY <1>11, <2>1, <2>2, <2>3, <2>4, <2>5 DEF TxInv
  <1>13. SeenInv'
    BY <1>1 DEF CInv, SeenInv, TreeRead, registration_leaf, vars
  <1>14. ReadInv'
    BY <1>3 DEF ReadInv
  <1>15. CallInv'
    BY <1>1, <1>2, <1>3 DEF CallInv, At, Waiting, Ended
  <1>16. FateInv'
    BY <1>1, <1>2, <1>3, <1>4 DEF FateInv, AbsentMeansGone
  <1>17. QED
    BY <1>1, <1>4, <1>12, <1>13, <1>14, <1>15, <1>16, OwnStep

\* A transaction that is refused or left out had no effect and gets no index.
LEMMA RefuseStep ==
  ASSUME CInv, NEW how \in {"refused", "left_out"}, RefuseTx(how)
  PROVE  CInv'
  <1>1. /\ fate.state = "pooled" /\ fate' = [fate EXCEPT !.state = how]
        /\ UNCHANGED <<vars, pc, job, view, tx, result>>
    BY DEF RefuseTx
  <1>2. fate.index = None /\ result.is # "absent" /\ pc # "reread"
    BY <1>1 DEF CInv, FateInv
  <1>3. fate'.state = how /\ fate'.index = None /\ ClientType'
    BY <1>1, <1>2 DEF CInv, ClientType, FateStates
  <1>4. how # "unsent"
    OBVIOUS
  <1>5. CallInv' /\ ReadInv'
    BY <1>1 DEF CInv, CallInv, ReadInv, At, vars
  <1>6. TxInv'
    BY <1>1 DEF CInv, TxInv, vars
  <1>7. SeenInv'
    BY <1>1 DEF CInv, SeenInv, TreeRead, registration_leaf, vars
  <1>8. FateInv'
    BY <1>1, <1>2, <1>3, <1>4 DEF CInv, FateInv, AbsentMeansGone
  <1>9. QED
    BY <1>1, <1>3, <1>5, <1>6, <1>7, <1>8, OwnStep

\* What the wait takes for its own leaf lies past everything it had seen
\* filled; finding nothing means the given index does not hold the leaf.
LEMMA LandedIsNew ==
  ASSUME CInv, job \in Jobs, job.op = "register", TreeRead
  PROVE  /\ landed # None => landed \in Indices /\ landed >= view.next_index
         /\ landed = None /\ fate.index # None =>
               tree[tx.tree_main].leaves[fate.index] # registration_leaf
  <1> DEFINE q == job.merkle
             at == find_leaf_index(registration_leaf)
  <1>1. q \in MerklePrograms /\ tree[q] # Empty
    BY JobFields DEF CInv, SeenInv
  <1>2. /\ at \in Indices \cup {None}
        /\ at # None => at < tree[q].next_index /\ tree[q].leaves[at] = registration_leaf
        /\ \A i \in Indices : i < tree[q].next_index /\ (at = None \/ i > at)
              => tree[q].leaves[i] # registration_leaf
    BY <1>1, FindLeafIndex DEF CInv, Inv
  <1>3. landed = IF at # None /\ (view.index = None \/ at > view.index) THEN at ELSE None
    BY DEF landed
  <1> HIDE DEF at
  <1>4. /\ view.next_index \in Nat
        /\ view.index # None => view.index < view.next_index
        /\ \A i \in Indices : i < view.next_index /\ (view.index = None \/ i > view.index)
              => tree[q].leaves[i] # registration_leaf
    BY DEF CInv, SeenInv
  <1>5. Indices \subseteq Nat /\ view.index \in Indices \cup {None}
    BY BoundsAssumption DEF Indices, CInv, ClientType
  <1>6. ASSUME landed # None PROVE landed \in Indices /\ landed >= view.next_index
    <2>1. landed = at /\ at # None /\ (view.index = None \/ at > view.index)
      BY <1>3, <1>6
    <2>2. at \in Indices /\ at \in Nat
      BY <1>2, <1>5, <2>1
    <2>3. ~(at < view.next_index)
      BY <1>2, <1>4, <2>1, <2>2
    <2>4. QED
      BY <1>4, <2>1, <2>2, <2>3
  <1>7. ASSUME landed = None, fate.index # None
        PROVE  tree[tx.tree_main].leaves[fate.index] # registration_leaf
    <2>1. /\ fate.state = "effective" /\ fate.index >= view.next_index
          /\ fate.index < tree[tx.tree_main].next_index
          /\ fate.index \in Indices
      BY <1>7 DEF CInv, FateInv, ClientType
    <2>2. tx.tree_main = q
      BY <2>1 DEF CInv, TxInv
    <2>3. CASE at = None
      BY <1>2, <2>1, <2>2, <2>3
    <2>4. CASE at # None
      <3>1. view.index # None /\ ~(at > view.index) /\ at \in Nat /\ view.index \in Nat
        BY <1>2, <1>3, <1>5, <1>7, <2>4
      <3>2. fate.index > at
        <4>1. fate.index \in Nat /\ view.index < view.next_index
          BY <1>4, <1>5, <2>1, <3>1
        <4>2. QED
          BY <1>4, <2>1, <3>1, <4>1
      <3>3. QED
        BY <1>2, <2>1, <2>2, <3>2
    <2>5. QED
      BY <2>3, <2>4
  <1>8. QED
    BY <1>6, <1>7

\* The steps of register_identity's wait.
LEMMA WaitStep ==
  ASSUME CInv, Poll \/ get_transaction \/ Reread
  PROVE  CInv'
  <1>1. pc \in Waiting /\ UNCHANGED <<vars, job, view, tx, fate>>
    BY DEF Poll, get_transaction, Reread, Waiting
  <1>2. pc # "off" /\ job \in Jobs /\ job.op = "register" /\ TreeRead /\ pc # "done"
    BY <1>1 DEF CInv, CallInv, At, Waiting, Ended, TreeRead
  <1>3. result.is \notin {"some", "absent"}
    BY <1>2 DEF CInv, FateInv
  <1>4. /\ \/ pc' \in Waiting
           \/ pc' = "done"
        /\ \/ UNCHANGED result
           \/ pc' = "done" /\ result'.is \in {"some", "absent", "timeout"}
    BY DEF Poll, get_transaction, Reread, Return, Waiting
  <1>5. ClientType'
    BY <1>1 DEF CInv, ClientType
  <1>6. CallInv'
    BY <1>1, <1>2, <1>4 DEF CInv, CallInv, At, Waiting, Ended
  <1>7. ReadInv'
    BY <1>4 DEF ReadInv, Waiting
  <1>8. TxInv'
    BY <1>1, <1>4 DEF CInv, TxInv, vars, Waiting
  <1>9. SeenInv'
    BY <1>1, <1>2 DEF CInv, SeenInv, TreeRead, registration_leaf, vars, Waiting
  <1>10. FateInv'
    <2>1. result'.is = "some" => result'.index >= view.next_index
      BY <1>2, <1>3, LandedIsNew DEF Poll, get_transaction, Reread, Return
    <2>2. pc' = "reread" \/ result'.is = "absent" => fate.state \in {"effective", "refused"}
      BY <1>3 DEF CInv, FateInv, Poll, get_transaction, Reread, Return
    <2>3. result'.is = "absent" => landed = None
      BY <1>3 DEF Poll, get_transaction, Reread, Return
    <2>4. fate.state # "unsent"
      BY <1>1 DEF CInv, CallInv
    <2>5. QED
      BY <1>1, <1>2, <1>3, <1>4, <2>1, <2>2, <2>3, <2>4, LandedIsNew
         DEF CInv, FateInv, AbsentMeansGone, registration_leaf, vars
  <1>11. QED
    BY <1>1, <1>5, <1>6, <1>7, <1>8, <1>9, <1>10, OwnStep

-----------------------------------------------------------------------------
(* The inductive invariant and what follows from it.                       *)

\* Before the call nothing is read, sent or returned.
LEMMA ClientInitInv == ClientInit => CInv
  <1> SUFFICES ASSUME ClientInit PROVE CInv
    OBVIOUS
  <1>1. Init /\ Inv
    BY InitInv DEF ClientInit
  <1>2. ConfigOrigin /\ RateOrigin
    BY <1>1 DEF Init, ConfigOrigin, RateOrigin, Members
  <1>3. ClientType
    BY DEF ClientInit, ClientType, FateStates
  <1>4. CallInv /\ ReadInv /\ TxInv
    BY DEF ClientInit, CallInv, ReadInv, TxInv, Waiting
  <1>5. SeenInv /\ FateInv
    BY DEF ClientInit, SeenInv, TreeRead, Waiting, FateInv, AbsentMeansGone
  <1>6. QED
    BY <1>1, <1>2, <1>3, <1>4, <1>5 DEF CInv

\* Every step of the client or of anybody else keeps the invariant, and is a
\* step of the registry or leaves it alone.
LEMMA ClientStepInv == CInv /\ [ClientNext]_all => CInv' /\ [Next]_vars
  <1> SUFFICES ASSUME CInv, [ClientNext]_all PROVE CInv' /\ [Next]_vars
    OBVIOUS
  <1>1. ASSUME NEW j \in Jobs, Call(j) PROVE CInv' /\ UNCHANGED vars
    BY <1>1, CallStep DEF Call
  <1>2. CASE read_config
    BY <1>2, ReadConfigStep DEF read_config
  <1>3. CASE read_membership
    BY <1>3, ReadMembershipStep DEF read_membership
  <1>4. CASE read_clock_ms
    BY <1>4, ReadClockStep DEF read_clock_ms
  <1>5. CASE locate_membership_leaf
    BY <1>5, LocateStep DEF locate_membership_leaf
  <1>6. CASE FindAlreadyAt
    BY <1>6, FindAlreadyAtStep DEF FindAlreadyAt
  <1>7. CASE assert_can_afford
    BY <1>7, AffordStep DEF assert_can_afford
  <1>8. CASE get_account_shard
    BY <1>8, CheckStep DEF get_account_shard
  <1>9. CASE clock_timestamp_ms
    BY <1>9, CheckStep DEF clock_timestamp_ms
  <1>10. CASE send_metered_tx
    BY <1>10, SendStep DEF send_metered_tx
  <1>11. CASE RunTx
    BY <1>11, RunTxStep
  <1>12. ASSUME NEW how \in {"refused", "left_out"}, RefuseTx(how)
         PROVE  CInv' /\ UNCHANGED vars
    BY <1>12, RefuseStep DEF RefuseTx
  <1>13. CASE Poll
    BY <1>13, WaitStep DEF Poll
  <1>14. CASE get_transaction
    BY <1>14, WaitStep DEF get_transaction
  <1>15. CASE Reread
    BY <1>15, WaitStep DEF Reread
  <1>16. CASE Abort
    BY <1>16, PanicStep DEF Abort
  <1>17. CASE Environment
    BY <1>17, EnvironmentStep DEF Environment
  <1>18. CASE UNCHANGED all
    BY <1>18, EnvironmentStep DEF all, client
  <1>19. QED
    BY <1>1, <1>2, <1>3, <1>4, <1>5, <1>6, <1>7, <1>8, <1>9, <1>10, <1>11, <1>12, <1>13,
       <1>14, <1>15, <1>16, <1>17, <1>18 DEF ClientNext

\* CInv holds in every state that a call of the client library reaches,
\* whatever others do meanwhile.
THEOREM ClientInvariance == ClientSpec => []CInv
  BY ClientInitInv, ClientStepInv, PTL DEF ClientSpec

\* A client adds no behaviour to the registry: what it sends from its reads is
\* a transaction the registry already allows for, so every theorem about
\* Registry's Spec holds with clients at work.
THEOREM ClientsKeepRegistry == ClientSpec => Spec
  <1>1. ClientInit => Init
    BY DEF ClientInit
  <1>2. QED
    BY <1>1, ClientInvariance, ClientStepInv, PTL DEF ClientSpec, Spec

\* No transaction that the client library sends can trip a check of the guests
\* that panics, however long it waits and whatever others do meanwhile.
THEOREM AssertsCorrect == ClientSpec => []HonestTxPassesAsserts
  <1>1. CInv => HonestTxPassesAsserts
    <2> SUFFICES ASSUME CInv, fate.state = "pooled" PROVE Asserts(tx)
      BY DEF HonestTxPassesAsserts
    <2>1. TxInv /\ job \in Jobs /\ pc # "off"
      BY DEF CInv, TxInv, CallInv
    <2>2. config # Empty /\ SameTerms(tx.claim, config)
      BY <2>1 DEF TxInv
    <2>3. tx.op # "extend" =>
             /\ require_tree_main(tx)
             /\ config.merkle_program_id = tx.claim.merkle_program_id
             /\ tree[tx.tree_main] # Empty
      BY <2>1, <2>2 DEF TxInv, SameTerms, require_tree_main
    <2>4. /\ tx.op = "register" => validate_rate_limit(tx.rate_limit)
          /\ hash_single[tx.identity_secret] = tx.id_commitment
      BY <2>1, JobFields DEF TxInv
    <2>5. QED
      BY <2>2, <2>3, <2>4 DEF Asserts
  <1>2. QED
    BY <1>1, ClientInvariance, PTL

\* register_identity never returns an index that was filled when it first read
\* the tree.
THEOREM NewIndexCorrect == ClientSpec => []ReturnedIndexIsNew
  <1>1. CInv => ReturnedIndexIsNew
    BY DEF CInv, FateInv, ReturnedIndexIsNew
  <1>2. QED
    BY <1>1, ClientInvariance, PTL

\* When register_identity returns None after its transaction was seen in a
\* block, no leaf of that transaction stands, then or ever after.
THEOREM AbsentCorrect == ClientSpec => []AbsentMeansGone
  <1>1. CInv => AbsentMeansGone
    BY DEF CInv, FateInv
  <1>2. QED
    BY <1>1, ClientInvariance, PTL

-----------------------------------------------------------------------------
(* While nobody else touches the chain, what was read is what the programs *)
(* will find.                                                              *)

\* The leaf that erase and slash look for.
OwnLeaf == compute_registration_leaf(job.id_commitment, view.membership.rate_limit)

\* What a call's reads still say of the chain, at each of its positions.
FreshReads ==
    /\ pc # "off" /\ job.op = "slash" => job.identity_secret \in revealed
    /\ pc = "leaf" \/ (pc \in {"clock", "afford", "send"} /\ job.op # "register") =>
          /\ membership[job.id_commitment] # Empty
          /\ view.membership = membership[job.id_commitment]
    /\ pc \in {"clock", "send"} /\ job.op \in {"erase", "slash"} =>
          remove_leaf_checks(job.merkle, view.index, OwnLeaf)
    /\ pc \in {"tree", "afford"} \/ (pc = "send" /\ job.op # "slash") =>
          view.now = clock /\ clock > 0
    /\ pc = "send" /\ job.op \in {"register", "extend"} =>
          calculate_payment_amount(ClaimedRate, view.config.price_per_unit)
              <= balance[job.payer]

\* And what its transaction claims of it.
FreshTx ==
    fate.state = "pooled" =>
        /\ tx.op = "slash" => tx.identity_secret \in revealed
        /\ tx.op # "register" => SlashMembershipChecks(tx.id_commitment, tx.rate_limit)
        /\ tx.op \in {"erase", "slash"} =>
              remove_leaf_checks(tx.tree_main, tx.leaf_index,
                                 compute_registration_leaf(tx.id_commitment, tx.rate_limit))
        /\ tx.op # "slash" => tx.now_ms = clock /\ clock > 0
        /\ tx.op \in {"register", "extend"} =>
              calculate_payment_amount(tx.rate_limit, tx.claim.price_per_unit)
                  <= balance[tx.payer]

QuietInv == quiet => FreshReads /\ FreshTx

\* Before it asks for the clock, check-membership holds a membership.
ShardRead == pc = "now" => view.membership \in MembershipState

\* A step that leaves chain and transaction alone, and ends the reading or
\* has it ended already.
LEMMA QuietKept ==
  ASSUME QuietInv, UNCHANGED <<vars, job, tx, quiet>>, pc # "off",
         pc' \in Waiting \cup Ended, fate'.state = "pooled" => fate.state = "pooled"
  PROVE  QuietInv'
  <1> SUFFICES ASSUME quiet' PROVE FreshReads' /\ FreshTx'
    BY DEF QuietInv
  <1>1. FreshReads /\ FreshTx
    BY DEF QuietInv
  <1>2. FreshReads'
    BY <1>1 DEF FreshReads, Waiting, Ended, vars
  <1>3. FreshTx'
    BY <1>1 DEF FreshTx, SlashMembershipChecks, remove_leaf_checks, vars
  <1>4. QED
    BY <1>2, <1>3

\* A read before the send: there is no transaction to speak of.
LEMMA ReadingUnsent ==
  ASSUME CInv, pc \in Reading
  PROVE  fate.state = "unsent" /\ At(job.op, pc) /\ job \in Jobs /\ pc # "off"
  BY DEF CInv, CallInv, Reading, Waiting, Ended

\* The price is among what assert_can_afford compares with the balance.
LEMMA AffordCoversPrice ==
  ASSUME NEW price \in Nat, price <= U128_MAX, NEW reserve \in Nat, NEW funds \in Nat,
         funds >= IF price + reserve > U128_MAX THEN U128_MAX ELSE price + reserve
  PROVE  price <= funds
  BY BoundsAssumption

\* The reads of a call, one by one.
LEMMA QuietReadStep ==
  ASSUME CInv, QuietInv, quiet,
         \/ read_config \/ read_membership \/ read_clock_ms \/ locate_membership_leaf
         \/ FindAlreadyAt \/ assert_can_afford \/ get_account_shard \/ clock_timestamp_ms
  PROVE  FreshReads' /\ FreshTx'
  <1>1. pc \in Reading /\ UNCHANGED <<vars, job, tx, fate, quiet>>
    BY DEF read_config, read_membership, read_clock_ms, locate_membership_leaf, FindAlreadyAt,
           assert_can_afford, get_account_shard, clock_timestamp_ms, Reading
  <1>2. fate.state = "unsent" /\ At(job.op, pc) /\ job \in Jobs /\ pc # "off"
    BY <1>1, ReadingUnsent
  <1>3. FreshTx'
    BY <1>1, <1>2 DEF FreshTx
  <1> SUFFICES FreshReads'
    BY <1>3
  <1>4. FreshReads
    BY DEF QuietInv
  <1>5. job.op = "slash" => job'.identity_secret \in revealed'
    BY <1>1, <1>2, <1>4 DEF FreshReads, vars
  <1>6. UNCHANGED <<config, membership, tree, balance, clock, revealed>>
    BY <1>1 DEF vars
  <1>7. CASE pc' \in Ended
    BY <1>1, <1>5, <1>7 DEF FreshReads, Ended
  <1>8. CASE pc = "config" /\ Proceed
    <2>1. (pc' = "clock" /\ job.op = "register") \/ pc' = "membership"
      BY <1>2, <1>8, ProceedCases
    <2>2. QED
      BY <1>1, <1>5, <2>1 DEF FreshReads
  <1>9. CASE read_membership /\ Proceed /\ ~Panic
    <2>1. pc = "membership" /\ membership[job.id_commitment] # Empty
          /\ view' = [view EXCEPT !.membership = membership[job.id_commitment]]
      BY <1>9 DEF read_membership
    <2>2. (pc' = "clock" /\ job.op = "extend") \/ pc' = "leaf"
      BY <1>2, <1>9, <2>1, ProceedCases
    <2>3. view'.membership = membership[job.id_commitment]
      BY <2>1 DEF CInv, ClientType
    <2>4. QED
      BY <1>1, <1>5, <1>6, <2>1, <2>2, <2>3 DEF FreshReads
  <1>10. CASE read_clock_ms /\ Proceed /\ ~Panic
    <2>1. pc = "clock" /\ clock > 0 /\ view' = [view EXCEPT !.now = clock]
      BY <1>10 DEF read_clock_ms
    <2>2. \/ pc' = "tree" /\ job.op = "register"
          \/ pc' = "afford" /\ job.op = "extend"
          \/ pc' = "send" /\ job.op = "erase"
      BY <1>2, <1>10, <2>1, ProceedCases
    <2>3. /\ view'.now = clock /\ view'.membership = view.membership
          /\ view'.index = view.index
      BY <2>1 DEF CInv, ClientType
    <2>4. job.op = "erase" => remove_leaf_checks(job.merkle, view.index, OwnLeaf)'
      BY <1>1, <1>4, <1>6, <2>1, <2>3 DEF FreshReads, remove_leaf_checks, OwnLeaf
    <2>5. QED
      BY <1>1, <1>4, <1>5, <1>6, <2>1, <2>2, <2>3, <2>4 DEF FreshReads
  <1>11. CASE locate_membership_leaf /\ Proceed /\ ~Panic
    <2>1. /\ pc = "leaf" /\ tree[job.merkle] # Empty
          /\ pc' = "leafless" \/ (/\ find_leaf_index(OwnLeaf) # None
                                  /\ view' = [view EXCEPT !.index = find_leaf_index(OwnLeaf)])
      BY <1>11 DEF locate_membership_leaf, check_tree_shard, OwnLeaf
    <2>2. \/ pc' = "clock" /\ job.op = "erase"
          \/ pc' = "send" /\ job.op = "slash"
      BY <1>2, <1>11, <2>1, ProceedCases
    <2>3. /\ view'.index = find_leaf_index(OwnLeaf) /\ view'.membership = view.membership
          /\ find_leaf_index(OwnLeaf) # None
      BY <2>1, <2>2 DEF CInv, ClientType
    <2>4. job.merkle \in MerklePrograms
      BY <1>2, JobFields
    <2>5. /\ find_leaf_index(OwnLeaf) < tree[job.merkle].next_index
          /\ tree[job.merkle].leaves[find_leaf_index(OwnLeaf)] = OwnLeaf
      BY <2>1, <2>3, <2>4, FindLeafIndex DEF CInv, Inv
    <2>6. OwnLeaf' = OwnLeaf
      BY <1>1, <2>3 DEF OwnLeaf
    <2>7. remove_leaf_checks(job.merkle, view.index, OwnLeaf)'
      BY <1>1, <1>6, <2>1, <2>3, <2>5, <2>6 DEF remove_leaf_checks
    <2>8. QED
      BY <1>1, <1>4, <1>5, <1>6, <2>1, <2>2, <2>3, <2>7 DEF FreshReads
  <1>12. CASE FindAlreadyAt /\ Proceed /\ ~Panic
    <2>1. pc = "tree" /\ view'.now = view.now
      BY <1>12 DEF FindAlreadyAt, CInv, ClientType
    <2>2. pc' = "afford" /\ job.op = "register"
      BY <1>2, <1>12, <2>1, ProceedCases
    <2>3. QED
      BY <1>1, <1>4, <1>5, <1>6, <2>1, <2>2 DEF FreshReads
  <1>13. CASE assert_can_afford /\ Proceed /\ ~Panic
    <2> DEFINE price == calculate_payment_amount(ClaimedRate, view.config.price_per_unit)
    <2>1. pc = "afford" /\ view' = view
      BY <1>13 DEF assert_can_afford
    <2>2. PICK reserve \in Reserves :
             balance[job.payer] >=
                IF price + reserve > U128_MAX THEN U128_MAX ELSE price + reserve
      BY <1>13 DEF assert_can_afford
    <2>3. pc' = "send" /\ job.op \in {"register", "extend"}
      BY <1>2, <1>13, <2>1, ProceedCases
    <2>4. ClaimedRate \in Nat /\ view.config.price_per_unit \in Nat
      <3>1. ClaimedRate \in RateLimits
        BY <1>2, <2>1, <2>3, JobFields DEF CInv, ReadInv, ClaimedRate
      <3>2. config # Empty /\ SameTerms(view.config, config)
        BY <2>1 DEF CInv, ReadInv
      <3>3. config.price_per_unit \in Nat
        BY <3>2 DEF CInv, Inv, TypeOK, ConfigState
      <3>4. QED
        BY <3>1, <3>2, <3>3, DomainAssumption DEF SameTerms
    <2>5. price \in Nat /\ price <= U128_MAX
      BY <2>4, PaymentNat, BoundsAssumption DEF calculate_payment_amount
    <2>6. balance[job.payer] \in Nat /\ reserve \in Nat
      BY <1>2, JobFields, JobAssumption DEF CInv, Inv, TypeOK
    <2> HIDE DEF price
    <2>7. price <= balance[job.payer]
      BY <2>2, <2>5, <2>6, AffordCoversPrice
    <2>8. price' = price
      BY <1>1, <2>1 DEF price, ClaimedRate
    <2>9. QED
      BY <1>1, <1>4, <1>5, <1>6, <2>1, <2>3, <2>7, <2>8 DEF FreshReads, price
  <1>14. CASE get_account_shard /\ Proceed
    <2>1. pc' = "now" \/ pc' \in Ended
      BY <1>2, <1>14, ProceedCases DEF get_account_shard
    <2>2. QED
      BY <1>1, <1>5, <1>7, <2>1 DEF FreshReads
  <1>15. QED
    BY <1>7, <1>8, <1>9, <1>10, <1>11, <1>12, <1>13, <1>14
       DEF read_config, read_membership, read_clock_ms, locate_membership_leaf, FindAlreadyAt,
           assert_can_afford, get_account_shard, clock_timestamp_ms, Panic, Return, Ended

\* What is sent is what was read.
LEMMA QuietSendStep ==
  ASSUME CInv, QuietInv, quiet, send_metered_tx
  PROVE  FreshReads' /\ FreshTx'
  <1>1. /\ pc = "send" /\ pc \in Reading /\ Proceed /\ UNCHANGED <<vars, job, view>>
    BY DEF send_metered_tx, Reading
  <1>2. fate.state = "unsent" /\ At(job.op, pc) /\ job \in Jobs
    BY <1>1, ReadingUnsent
  <1>3. pc' \in {"poll", "done"} /\ job.op \in {"register", "extend", "erase", "slash"}
    BY <1>1, <1>2, ProceedCases
  <1>4. FreshReads /\ UNCHANGED <<membership, tree, balance, clock, revealed>>
    BY <1>1 DEF QuietInv, vars
  <1>5. FreshReads'
    BY <1>1, <1>3, <1>4 DEF FreshReads
  <1>6. /\ tx'.op = job.op /\ tx'.id_commitment = job.id_commitment
        /\ tx'.identity_secret = job.identity_secret
        /\ tx'.payer = job.payer /\ tx'.claim = view.config /\ tx'.tree_main = job.merkle
        /\ tx'.rate_limit = ClaimedRate
        /\ tx'.now_ms = view.now /\ tx'.leaf_index = view.index
    BY DEF send_metered_tx
  <1>7. tx'.op = "slash" => tx'.identity_secret \in revealed'
    BY <1>1, <1>4, <1>6 DEF FreshReads
  <1>8. tx'.op # "register" => SlashMembershipChecks(tx.id_commitment, tx.rate_limit)'
    BY <1>1, <1>4, <1>6 DEF FreshReads, SlashMembershipChecks, ClaimedRate
  <1>9. tx'.op \in {"erase", "slash"} =>
          remove_leaf_checks(tx.tree_main, tx.leaf_index,
                             compute_registration_leaf(tx.id_commitment, tx.rate_limit))'
    BY <1>1, <1>4, <1>6 DEF FreshReads, remove_leaf_checks, ClaimedRate, OwnLeaf
  <1>10. tx'.op # "slash" => tx'.now_ms = clock' /\ clock' > 0
    BY <1>1, <1>4, <1>6 DEF FreshReads
  <1>11. tx'.op \in {"register", "extend"} =>
           calculate_payment_amount(tx'.rate_limit, tx'.claim.price_per_unit)
               <= balance'[tx'.payer]
    BY <1>1, <1>4, <1>6 DEF FreshReads
  <1>12. FreshTx'
    BY <1>7, <1>8, <1>9, <1>10, <1>11 DEF FreshTx
  <1>13. QED
    BY <1>5, <1>12

\* Others' steps end the quiet; the client's own keep what was read fresh until
\* its transaction has run.
LEMMA QuietStep ==
  ASSUME CInv, QuietInv, [ClientNext]_all
  PROVE  QuietInv'
  <1>1. ASSUME NEW j \in Jobs, Call(j) PROVE QuietInv'
    <2>1. /\ pc = "off" /\ pc' = Head(Steps(j.op)) /\ job' = j
          /\ j.op = "slash" => j.identity_secret \in revealed
          /\ UNCHANGED <<vars, fate>>
      BY <1>1 DEF Call
    <2>2. pc' = IF j.op = "check" THEN "shard" ELSE "config"
      BY <2>1, FirstStep, JobFields
    <2>3. fate.state = "unsent"
      BY <2>1 DEF CInv, CallInv, Waiting, Ended
    <2>4. QED
      BY <2>1, <2>2, <2>3 DEF QuietInv, FreshReads, FreshTx, vars
  <1>2. CASE \/ read_config \/ read_membership \/ read_clock_ms \/ locate_membership_leaf
             \/ FindAlreadyAt \/ assert_can_afford \/ get_account_shard \/ clock_timestamp_ms
    <2>1. quiet' = quiet
      BY <1>2
         DEF read_config, read_membership, read_clock_ms, locate_membership_leaf, FindAlreadyAt,
             assert_can_afford, get_account_shard, clock_timestamp_ms
    <2>2. QED
      BY <1>2, <2>1, QuietReadStep DEF QuietInv
  <1>3. CASE send_metered_tx
    <2>1. quiet' = quiet
      BY <1>3 DEF send_metered_tx
    <2>2. QED
      BY <1>3, <2>1, QuietSendStep DEF QuietInv
  <1>4. CASE RunTx
    <2>1. /\ fate.state = "pooled" /\ fate'.state = "effective" /\ Execute(tx)
          /\ UNCHANGED <<pc, job, quiet>>
      BY <1>4 DEF RunTx
    <2>2. pc \in Waiting \cup Ended
      BY <2>1 DEF CInv, CallInv
    <2>3. revealed' = revealed
      BY <2>1 DEF Execute, Register, Extend, Erase, Slash
    <2>4. QED
      BY <2>1, <2>2, <2>3 DEF QuietInv, FreshReads, FreshTx, Waiting, Ended
  <1>5. ASSUME NEW how \in {"refused", "left_out"}, RefuseTx(how) PROVE QuietInv'
    <2>1. /\ fate.state = "pooled" /\ fate' = [fate EXCEPT !.state = how]
          /\ UNCHANGED <<vars, pc, job, tx, quiet>>
      BY <1>5 DEF RefuseTx
    <2>2. pc \in Waiting \cup Ended /\ pc # "off"
      BY <2>1 DEF CInv, CallInv, TxInv
    <2>3. QED
      BY <2>1, <2>2, QuietKept
  <1>6. CASE Poll \/ get_transaction \/ Reread
    <2>1. /\ pc \in Waiting /\ pc' \in Waiting \cup Ended
          /\ UNCHANGED <<vars, job, tx, fate, quiet>>
      BY <1>6 DEF Poll, get_transaction, Reread, Return, Waiting, Ended
    <2>2. QED
      BY <2>1, QuietKept DEF Waiting
  <1>7. CASE Abort
    <2>1. pc # "off" /\ pc' \in Ended /\ UNCHANGED <<vars, job, tx, fate, quiet>>
      BY <1>7 DEF Abort, Panic, Running, Ended
    <2>2. QED
      BY <2>1, QuietKept
  <1>8. CASE Environment
    <2>1. quiet' => pc = "off" /\ pc' = "off" /\ fate' = fate
      BY <1>8 DEF Environment
    <2>2. pc = "off" => fate.state = "unsent"
      BY DEF CInv, TxInv
    <2>3. QED
      BY <2>1, <2>2 DEF QuietInv, FreshReads, FreshTx
  <1>9. CASE UNCHANGED all
    BY <1>9 DEF all, client, vars, QuietInv, FreshReads, FreshTx, OwnLeaf, ClaimedRate,
                remove_leaf_checks, SlashMembershipChecks
  <1>10. QED
    BY <1>1, <1>2, <1>3, <1>4, <1>5, <1>6, <1>7, <1>8, <1>9 DEF ClientNext

\* A client that was alone with the chain from its first read on sends a
\* transaction that passes every check of every program, if the chain allows
\* what it asks for at all: the client leaves nothing unread and claims nothing
\* else than what it read.
THEOREM QuietCorrect == ClientSpec => []QuietTxSucceeds
  <1>1. ClientInit => QuietInv
    BY DEF ClientInit, QuietInv, FreshReads, FreshTx
  <1>2. CInv /\ QuietInv /\ [ClientNext]_all => QuietInv'
    BY QuietStep
  <1>3. CInv /\ QuietInv => QuietTxSucceeds
    <2> SUFFICES ASSUME CInv, QuietInv, fate.state = "pooled", quiet, Due(tx)
                 PROVE  Accepted(tx)
      BY DEF QuietTxSucceeds
    <2>1. TxInv /\ job \in Jobs /\ FreshTx /\ TypeOK
      BY DEF CInv, TxInv, CallInv, QuietInv, Inv
    <2>2. /\ config # Empty /\ SameTerms(tx.claim, config)
          /\ tx.op # "extend" => /\ require_tree_main(tx)
                                 /\ tx.claim.merkle_program_id = tx.tree_main
                                 /\ tree[tx.tree_main] # Empty
      BY <2>1 DEF TxInv, require_tree_main
    <2>3. /\ tx.op = "register" => validate_rate_limit(tx.rate_limit)
          /\ hash_single[tx.identity_secret] = tx.id_commitment
      BY <2>1, JobFields DEF TxInv
    <2>4. tx.op \in {"register", "extend", "erase", "slash"}
      BY <2>1, JobFields DEF TxInv, Ops
    <2>5. /\ assert_config_ids(tx.claim.merkle_program_id)
          /\ claims_price_and_payee(tx.claim)
      BY <2>2 DEF SameTerms, assert_config_ids, claims_price_and_payee
    <2>6. tx.op # "slash" => tx.now_ms = clock /\ ClockIs(tx.now_ms)
      <3>1. clock \in Nat
        BY <2>1, DomainAssumption DEF TypeOK
      <3>2. QED
        BY <2>1, <3>1, BoundsAssumption DEF FreshTx, ClockIs, assert_clock_is
    <2>7. CASE tx.op = "register"
      <3>1. /\ membership[tx.id_commitment] = Empty /\ can_register(tx.rate_limit)
            /\ tree[tx.tree_main].next_index < TREE_LEAVES
        BY <2>7 DEF Due
      <3>2. RegisterConfigChecks(tx.rate_limit, tx.claim)
        BY <2>2, <2>5, <3>1 DEF RegisterConfigChecks, SameTerms
      <3>3. insert_leaf_checks(tx.claim.merkle_program_id)
        BY <2>2, <2>7, <3>1 DEF insert_leaf_checks
      <3>4. RegisterAccepted(tx.id_commitment, tx.rate_limit, tx.claim, tx.now_ms, tx.payer)
        BY <2>1, <2>3, <2>6, <2>7, <3>1, <3>2, <3>3 DEF RegisterAccepted, FreshTx
      <3>5. QED
        BY <2>2, <2>7, <3>4 DEF Accepted
    <2>8. tx.op # "register" => SlashMembershipChecks(tx.id_commitment, tx.rate_limit)
      BY <2>1 DEF FreshTx
    <2>9. CASE tx.op = "extend"
      <3>1. ExtendMembershipChecks(tx.id_commitment, tx.rate_limit, tx.now_ms)
        BY <2>6, <2>8, <2>9 DEF Due, SlashMembershipChecks, ExtendMembershipChecks
      <3>2. ExtendAccepted(tx.id_commitment, tx.rate_limit, tx.claim, tx.now_ms, tx.payer)
        BY <2>1, <2>2, <2>5, <2>6, <2>9, <3>1 DEF ExtendAccepted, ExtendConfig, FreshTx
      <3>3. QED
        BY <2>9, <3>2 DEF Accepted
    <2>10. tx.op \in {"erase", "slash"} =>
             remove_leaf_checks(tx.claim.merkle_program_id, tx.leaf_index,
                                compute_registration_leaf(tx.id_commitment, tx.rate_limit))
      BY <2>1, <2>2 DEF FreshTx
    <2>11. CASE tx.op = "erase"
      <3>1. EraseMembershipChecks(tx.id_commitment, tx.rate_limit, tx.now_ms)
        BY <2>6, <2>8, <2>11 DEF Due, SlashMembershipChecks, EraseMembershipChecks
      <3>2. EraseAccepted(tx.id_commitment, tx.rate_limit, tx.claim.merkle_program_id,
                          tx.leaf_index, tx.now_ms)
        BY <2>5, <2>6, <2>10, <2>11, <3>1 DEF EraseAccepted
      <3>3. QED
        BY <2>2, <2>11, <3>2 DEF Accepted
    <2>12. CASE tx.op = "slash"
      <3>1. SlashAccepted(tx.identity_secret, tx.id_commitment, tx.rate_limit,
                          tx.claim.merkle_program_id, tx.leaf_index)
        BY <2>1, <2>3, <2>5, <2>8, <2>10, <2>12 DEF SlashAccepted, SlashPlan, FreshTx
      <3>2. QED
        BY <2>2, <2>12, <3>1 DEF Accepted
    <2>13. QED
      BY <2>4, <2>7, <2>9, <2>11, <2>12
  <1>4. QED
    BY <1>1, <1>2, <1>3, ClientInvariance, PTL DEF ClientSpec

\* Only get_account_shard leads to the read of the clock.
LEMMA ShardReadStep ==
  ASSUME CInv, CInv', ShardRead, [ClientNext]_all
  PROVE  ShardRead'
  <1> SUFFICES ASSUME pc' = "now" PROVE view'.membership \in MembershipState
    BY DEF ShardRead
  <1>1. CASE pc = "now" /\ view' = view
    BY <1>1 DEF ShardRead
  <1>2. CASE get_account_shard
    <2>1. /\ view' = [view EXCEPT !.membership = membership[job.id_commitment]]
          /\ membership[job.id_commitment] # Empty /\ pc = "shard"
      BY <1>2 DEF get_account_shard, Return
    <2>2. job.id_commitment \in Commitments
      BY <2>1, JobFields DEF CInv, CallInv
    <2>3. QED
      BY <2>1, <2>2 DEF CInv, ClientType, Inv, TypeOK
  <1>3. CASE read_config \/ read_membership \/ read_clock_ms \/ locate_membership_leaf
             \/ FindAlreadyAt \/ assert_can_afford \/ send_metered_tx
    <2>1. pc \in Reading \ {"shard", "now"} /\ Proceed
      BY <1>3
         DEF read_config, read_membership, read_clock_ms, locate_membership_leaf, FindAlreadyAt,
             assert_can_afford, send_metered_tx, Reading, Panic
    <2>2. At(job.op, pc)
      BY <2>1, ReadingUnsent
    <2>3. QED
      BY <2>1, <2>2, ProceedCases
  <1>4. ASSUME NEW j \in Jobs, Call(j) PROVE FALSE
    <2>1. pc' = IF j.op = "check" THEN "shard" ELSE "config"
      BY <1>4, FirstStep, JobFields DEF Call
    <2>2. QED
      BY <2>1
  <1>5. QED
    BY <1>1, <1>2, <1>3, <1>4
       DEF ClientNext, clock_timestamp_ms, Return, RunTx, RefuseTx, Poll, get_transaction,
           Reread, Abort, Panic, Environment, all, client

\* check-membership's own copy of the lifecycle rule agrees with the programs':
\* what it reports as expired they would erase at that moment, what it reports
\* as being in its grace period they would extend, and what it reports as
\* active neither.
THEOREM ReportCorrect == ClientSpec => ReportMatchesPrograms
  <1>1. ClientInit => ShardRead
    BY DEF ClientInit, ShardRead
  <1>2. CInv /\ CInv' /\ ShardRead /\ [ClientNext]_all => ShardRead'
    BY ShardReadStep
  <1>3. CInv /\ ShardRead /\ [ClientNext]_all =>
          [LET m == view.membership
               c == job.id_commitment
           IN  pc = "now" /\ pc' = "done" /\ membership[c] = m =>
                 /\ (result'.is = "expired") <=> EraseMembershipChecks(c, m.rate_limit, clock)
                 /\ (result'.is = "grace_period")
                      <=> ExtendMembershipChecks(c, m.rate_limit, clock)]_all
    <2> DEFINE m == view.membership
               c == job.id_commitment
               start == m.grace_period_start_timestamp_ms
               grace_ms == secs_to_millis(m.grace_period_duration_sec)
    <2> SUFFICES ASSUME CInv, ShardRead, ClientNext, pc = "now", pc' = "done",
                        membership[c] = m
                 PROVE  /\ (result'.is = "expired")
                             <=> EraseMembershipChecks(c, m.rate_limit, clock)
                        /\ (result'.is = "grace_period")
                             <=> ExtendMembershipChecks(c, m.rate_limit, clock)
      OBVIOUS
    <2>1. clock_timestamp_ms
      <3>1. ASSUME NEW j \in Jobs, Call(j) PROVE FALSE
        BY <3>1 DEF Call
      <3>2. ~RunTx /\ \A how \in {"refused", "left_out"} : ~RefuseTx(how)
        BY DEF RunTx, RefuseTx
      <3>3. QED
        BY <3>1, <3>2
           DEF ClientNext, read_config, read_membership, read_clock_ms, locate_membership_leaf,
               FindAlreadyAt, assert_can_afford, get_account_shard, send_metered_tx, Poll,
               get_transaction, Reread, Abort, Panic, Environment
    <2>2. result'.is = lifecycle(m, clock)
      BY <2>1 DEF clock_timestamp_ms, Return
    <2>3. m \in MembershipState /\ m # Empty /\ clock \in Nat
      BY EmptyAssumption, DomainAssumption DEF ShardRead, CInv, Inv, TypeOK
    <2>4. start \in Nat /\ grace_ms \in Nat /\ saturating_add(start, grace_ms) \in Nat
      BY <2>3, SecsNat, SaturatingAddNat DEF MembershipState
    <2>5. ~(is_expired(start, grace_ms, clock) /\ is_in_grace_period(start, grace_ms, clock))
      BY <2>3, <2>4 DEF is_expired, is_in_grace_period
    <2>6. /\ (lifecycle(m, clock) = "expired") <=> is_expired(start, grace_ms, clock)
          /\ (lifecycle(m, clock) = "grace_period")
               <=> is_in_grace_period(start, grace_ms, clock)
      BY <2>5 DEF lifecycle
    <2>7. QED
      BY <2>2, <2>3, <2>6 DEF EraseMembershipChecks, ExtendMembershipChecks
  <1>4. QED
    BY <1>1, <1>2, <1>3, ClientInvariance, PTL DEF ClientSpec, ReportMatchesPrograms

=============================================================================
