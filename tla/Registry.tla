------------------------------ MODULE Registry ------------------------------
(***************************************************************************)
(* The on-chain registry of one tree: the registration program's config    *)
(* and membership shards, the merkle program's tree shard, the native      *)
(* balances a registration moves, and the CLOCK_50 account it reads.       *)
(*                                                                         *)
(* LEZ runs a transaction as plan -> effects in order -> chained calls in  *)
(* order, and a failure anywhere reverts all of it.  One action per        *)
(* instruction therefore stands for the whole transaction: the plan's      *)
(* asserts, every effect (each owns one shard, hence one variable) and     *)
(* every chained call.  A refused transaction changes no shard and is a    *)
(* stuttering step.                                                        *)
(*                                                                         *)
(* Transactions are public and unsigned but for the payer, and everything  *)
(* they claim about the chain was read earlier.  The actions quantify over *)
(* every claim, so delayed, stale, replayed and plainly false transactions *)
(* are all among the steps.                                                *)
(***************************************************************************)
EXTENDS RlnLayouts, FiniteSets

CONSTANTS
    Commitments,       \* id_commitments: non-zero field elements
    Secrets,           \* identity secrets
    hash_single,       \* [Secrets -> Commitments]: the Poseidon commitment
    Payers,            \* accounts that sign and pay
    Treasuries,        \* accounts a config may name as its treasury
    MerklePrograms,    \* deployments of the merkle program
    Deployments,       \* what Initialize writes, and what a client claims of it
    RateLimits,        \* rate limits an instruction may carry, valid or not
    Instants,          \* timestamps in ms: of the clock, and of claims
    InitialBalance,    \* native balance of each payer before the first step
    TREE_LEAVES,
    Empty,             \* a shard that holds no data
    ZERO               \* the empty leaf

Deployment == [merkle_program_id : MerklePrograms,
               price_per_unit : Nat,
               treasury_account_id : Treasuries,
               max_total_rate_limit : Nat,
               active_duration_sec : Nat,
               grace_period_duration_sec : Nat]

ConfigState == [merkle_program_id : MerklePrograms,
                price_per_unit : Nat,
                treasury_account_id : Treasuries,
                total_registrations : Nat,
                max_total_rate_limit : Nat,
                current_total_rate_limit : Nat,
                active_duration_sec : Nat,
                grace_period_duration_sec : Nat]

\* The record also carries its id_commitment; the membership PDA is derived
\* from it, so the function's argument stands for that field.
MembershipState == [rate_limit : Nat,
                    grace_period_start_timestamp_ms : Nat,
                    active_duration_sec : Nat,
                    grace_period_duration_sec : Nat]

Leaves == (Commitments \X Nat) \cup {ZERO}
Indices == 0 .. (TREE_LEAVES - 1)
Tree == [next_index : 0 .. TREE_LEAVES, leaves : [Indices -> Leaves]]

\* What a standing membership has cost its payers: the claimed time of the
\* registration, and the periods (active + grace) bought since.
Sale == [at : Nat, periods : Nat \ {0}]

ASSUME DomainAssumption ==
    /\ IsFiniteSet(Commitments)
    /\ hash_single \in [Secrets -> Commitments]
    /\ Payers \cap Treasuries = {}
    /\ InitialBalance \in [Payers -> Nat]
    /\ Deployments \subseteq Deployment
    /\ RateLimits \subseteq Nat
    /\ Instants \subseteq Nat

ASSUME BoundsAssumption ==
    /\ MIN_RATE_LIMIT \in Nat
    /\ MAX_RATE_LIMIT \in Nat
    /\ TREE_LEAVES \in Nat \ {0}
    /\ CLOCK_CLAIM_TOLERANCE_MS \in Nat
    /\ U64_MAX \in Nat
    /\ U128_MAX \in Nat

\* Lifetime registrations are bounded by the tree (512 leaves of at most 600
\* units), so the u64 counters have room for every one of them; and no account
\* can hold more native units than a u128 counts.
ASSUME WidthAssumption ==
    /\ TREE_LEAVES * MAX_RATE_LIMIT <= U64_MAX
    /\ TREE_LEAVES <= U64_MAX
    /\ \A p \in Payers : InitialBalance[p] < U128_MAX
    /\ \A t \in Instants : t <= U64_MAX

ASSUME EmptyAssumption ==
    /\ Empty \notin ConfigState
    /\ Empty \notin MembershipState
    /\ Empty \notin Tree
    /\ Empty \notin Sale
    /\ ZERO \notin (Commitments \X Nat)

VARIABLES
    config,      \* the config shard
    membership,  \* id_commitment -> its membership shard
    tree,        \* merkle program -> its shard of the `main` PDA
    balance,     \* native balances
    clock,       \* CLOCK_50's timestamp; 0 is the genesis value
    revealed,    \* secrets anyone can use: leaked by double signalling, or self-slashed
    sale,        \* history: when the standing membership was bought, and for how many periods
    sold         \* history: units of rate limit paid for, over all sales

vars == <<config, membership, tree, balance, clock, revealed, sale, sold>>

Members == {c \in Commitments : membership[c] # Empty}

-----------------------------------------------------------------------------
(***************************************************************************)
(* Effects of the registration program: each one checks its claims against *)
(* one shard and may rewrite that shard.  What it checks is an operator of *)
(* its own, so that properties can ask whether it would refuse.            *)
(***************************************************************************)

InitConfig(d) ==
    /\ config = Empty
    /\ config' = [merkle_program_id |-> d.merkle_program_id,
                  price_per_unit |-> d.price_per_unit,
                  treasury_account_id |-> d.treasury_account_id,
                  total_registrations |-> 0,
                  max_total_rate_limit |-> d.max_total_rate_limit,
                  current_total_rate_limit |-> 0,
                  active_duration_sec |-> d.active_duration_sec,
                  grace_period_duration_sec |-> d.grace_period_duration_sec]

\* Mutation: the callee is whatever program the caller names.
assert_config_exists(program) == config # Empty

\* The callee of a chained merkle call is the program stored at Initialize.
assert_config_ids(program) ==
    config # Empty /\ config.merkle_program_id = program

\* Mutation: one unit of head room is enough.
can_register_if_any_left(rate) ==
    config.current_total_rate_limit < config.max_total_rate_limit

can_register(rate) ==
    saturating_add(config.current_total_rate_limit, rate)
        <= config.max_total_rate_limit

\* Mutation: the treasury is not checked against the config.
claims_without_treasury(claim) ==
    config.price_per_unit = claim.price_per_unit

claims_price_and_payee(claim) ==
    /\ config.price_per_unit = claim.price_per_unit
    /\ config.treasury_account_id = claim.treasury_account_id

RegisterConfigChecks(rate, claim) ==
    /\ assert_config_ids(claim.merkle_program_id)
    /\ claims_price_and_payee(claim)
    /\ config.active_duration_sec = claim.active_duration_sec
    /\ config.grace_period_duration_sec = claim.grace_period_duration_sec
    /\ can_register(rate)

RegisterConfig(rate, claim) ==
    /\ RegisterConfigChecks(rate, claim)
    /\ config' = [config EXCEPT
                    !.total_registrations = saturating_add(@, 1),
                    !.current_total_rate_limit = saturating_add(@, rate)]

\* Mutation: a second registration overwrites the first.
InitMembership_overwrite(c, rate, claim, now) ==
    membership' = [membership EXCEPT ![c] =
        [rate_limit |-> rate,
         grace_period_start_timestamp_ms |->
             saturating_add(now, secs_to_millis(claim.active_duration_sec)),
         active_duration_sec |-> claim.active_duration_sec,
         grace_period_duration_sec |-> claim.grace_period_duration_sec]]

InitMembership(c, rate, claim, now) ==
    /\ membership[c] = Empty
    /\ membership' = [membership EXCEPT ![c] =
         [rate_limit |-> rate,
          grace_period_start_timestamp_ms |->
              saturating_add(now, secs_to_millis(claim.active_duration_sec)),
          active_duration_sec |-> claim.active_duration_sec,
          grace_period_duration_sec |-> claim.grace_period_duration_sec]]

ClockIs(now) == assert_clock_is(clock, now)

\* Mutation: the member is not uncounted.
ReleaseConfig_rate_only(rate, program) ==
    /\ assert_config_ids(program)
    /\ config' = [config EXCEPT
                    !.current_total_rate_limit = saturating_sub(@, rate)]

ReleaseConfig(rate, program) ==
    /\ assert_config_ids(program)
    /\ config' = [config EXCEPT
                    !.current_total_rate_limit = saturating_sub(@, rate),
                    !.total_registrations = saturating_sub(@, 1)]

SlashMembershipChecks(c, rate) ==
    membership[c] # Empty /\ membership[c].rate_limit = rate

SlashMembership(c, rate) ==
    /\ SlashMembershipChecks(c, rate)
    /\ membership' = [membership EXCEPT ![c] = Empty]

ExtendConfig(claim) ==
    /\ config # Empty
    /\ claims_price_and_payee(claim)

\* Mutation: the new period is counted from the claimed time.
ExtendMembership_from_now(c, rate, now) ==
    /\ membership[c] # Empty
    /\ membership[c].rate_limit = rate
    /\ is_in_grace_period(membership[c].grace_period_start_timestamp_ms,
                          secs_to_millis(membership[c].grace_period_duration_sec),
                          now)
    /\ membership' = [membership EXCEPT ![c].grace_period_start_timestamp_ms =
         saturating_add(now, secs_to_millis(membership[c].active_duration_sec))]

ExtendMembershipChecks(c, rate, now) ==
    /\ membership[c] # Empty
    /\ membership[c].rate_limit = rate
    /\ is_in_grace_period(membership[c].grace_period_start_timestamp_ms,
                          secs_to_millis(membership[c].grace_period_duration_sec),
                          now)

ExtendMembership(c, rate, now) ==
    /\ ExtendMembershipChecks(c, rate, now)
    /\ membership' = [membership EXCEPT ![c].grace_period_start_timestamp_ms =
         saturating_add(
           saturating_add(@, secs_to_millis(membership[c].grace_period_duration_sec)),
           secs_to_millis(membership[c].active_duration_sec))]

EraseMembershipChecks(c, rate, now) ==
    /\ membership[c] # Empty
    /\ membership[c].rate_limit = rate
    /\ is_expired(membership[c].grace_period_start_timestamp_ms,
                  secs_to_millis(membership[c].grace_period_duration_sec),
                  now)

EraseMembership(c, rate, now) ==
    /\ EraseMembershipChecks(c, rate, now)
    /\ membership' = [membership EXCEPT ![c] = Empty]

-----------------------------------------------------------------------------
(***************************************************************************)
(* Chained calls: the merkle program, one leaf vector per deployment, and  *)
(* the native token program.                                               *)
(***************************************************************************)
EmptyTree == [next_index |-> 0, leaves |-> [i \in Indices |-> ZERO]]

\* Mutation: Initialize resets a live tree.
initialize_tree_again(program) == tree' = [tree EXCEPT ![program] = EmptyTree]

initialize_tree(program) ==
    /\ tree[program] = Empty
    /\ tree' = [tree EXCEPT ![program] = EmptyTree]

\* Mutation: the bound is one too large.
insert_leaf_past_end(program, leaf) ==
    LET next == tree[program].next_index
    IN  /\ tree[program] # Empty
        /\ next <= TREE_LEAVES
        /\ tree' = [tree EXCEPT ![program] =
              [next_index |-> next + 1,
               leaves |-> [tree[program].leaves EXCEPT ![next] = leaf]]]

insert_leaf_checks(program) ==
    tree[program] # Empty /\ tree[program].next_index < TREE_LEAVES

insert_leaf(program, leaf) ==
    LET next == tree[program].next_index
    IN  /\ insert_leaf_checks(program)
        /\ tree' = [tree EXCEPT ![program] =
              [next_index |-> next + 1,
               leaves |-> [tree[program].leaves EXCEPT ![next] = leaf]]]

\* Mutation: removing the newest leaf hands its index back.
remove_leaf_and_reuse(program, index, leaf) ==
    LET next == tree[program].next_index
    IN  /\ tree[program] # Empty
        /\ index < next
        /\ tree[program].leaves[index] = leaf
        /\ tree' = [tree EXCEPT ![program] =
              [next_index |-> IF index = next - 1 THEN index ELSE next,
               leaves |-> [tree[program].leaves EXCEPT ![index] = ZERO]]]

\* The index is a hint, checked by content; `next_index` never goes back.
remove_leaf_checks(program, index, leaf) ==
    /\ tree[program] # Empty
    /\ index < tree[program].next_index
    /\ tree[program].leaves[index] = leaf

remove_leaf(program, index, leaf) ==
    /\ remove_leaf_checks(program, index, leaf)
    /\ tree' = [tree EXCEPT ![program] =
          [next_index |-> tree[program].next_index,
           leaves |-> [tree[program].leaves EXCEPT ![index] = ZERO]]]

\* The native program refuses an insufficient balance.
native_payment(payer, treasury, amount) ==
    /\ amount <= balance[payer]
    /\ balance' = [balance EXCEPT ![payer] = @ - amount,
                                  ![treasury] = @ + amount]

-----------------------------------------------------------------------------
(***************************************************************************)
(* Instructions.                                                           *)
(***************************************************************************)
Init ==
    /\ config = Empty
    /\ membership = [c \in Commitments |-> Empty]
    /\ tree = [p \in MerklePrograms |-> Empty]
    /\ balance = [a \in Payers \cup Treasuries |->
                    IF a \in Payers THEN InitialBalance[a] ELSE 0]
    /\ clock = 0
    /\ revealed = {}
    /\ sale = [c \in Commitments |-> Empty]
    /\ sold = 0

Initialize(d) ==
    /\ d.max_total_rate_limit > 0
    /\ d.active_duration_sec > 0
    /\ InitConfig(d)
    /\ UNCHANGED <<membership, tree, balance, clock, revealed, sale, sold>>

InitializeMerkleTree(program) ==
    /\ assert_config_ids(program)
    /\ initialize_tree(program)
    /\ UNCHANGED <<config, membership, balance, clock, revealed, sale, sold>>

Register(c, rate, claim, now, payer) ==
    /\ validate_rate_limit(rate)
    /\ RegisterConfig(rate, claim)
    /\ ClockIs(now)
    /\ InitMembership(c, rate, claim, now)
    /\ native_payment(payer, claim.treasury_account_id,
                      calculate_payment_amount(rate, claim.price_per_unit))
    /\ insert_leaf(claim.merkle_program_id, compute_registration_leaf(c, rate))
    /\ sale' = [sale EXCEPT ![c] = [at |-> now, periods |-> 1]]
    /\ sold' = sold + rate
    /\ UNCHANGED <<clock, revealed>>

SlashPlan(secret, c) == secret \in revealed /\ hash_single[secret] = c

Slash(secret, c, rate, program, index) ==
    /\ SlashPlan(secret, c)
    /\ ReleaseConfig(rate, program)
    /\ SlashMembership(c, rate)
    /\ remove_leaf(program, index, compute_registration_leaf(c, rate))
    /\ sale' = [sale EXCEPT ![c] = Empty]
    /\ UNCHANGED <<balance, clock, revealed, sold>>

Extend(c, rate, claim, now, payer) ==
    /\ ExtendConfig(claim)
    /\ ClockIs(now)
    /\ ExtendMembership(c, rate, now)
    /\ native_payment(payer, claim.treasury_account_id,
                      calculate_payment_amount(rate, claim.price_per_unit))
    /\ sale' = [sale EXCEPT ![c].periods = @ + 1]
    /\ sold' = sold + rate
    /\ UNCHANGED <<config, tree, clock, revealed>>

Erase(c, rate, program, index, now) ==
    /\ ReleaseConfig(rate, program)
    /\ ClockIs(now)
    /\ EraseMembership(c, rate, now)
    /\ remove_leaf(program, index, compute_registration_leaf(c, rate))
    /\ sale' = [sale EXCEPT ![c] = Empty]
    /\ UNCHANGED <<balance, clock, revealed, sold>>

\* The clock program refreshes CLOCK_50 (every 50 blocks): time moves forward
\* in steps of any size.
Tick(t) ==
    /\ t > clock
    /\ clock' = t
    /\ UNCHANGED <<config, membership, tree, balance, revealed, sale, sold>>

\* Off chain: a member exceeds its rate and its secret can be recovered from
\* two shares, or the member publishes it.
Reveal(secret) ==
    /\ secret \notin revealed
    /\ revealed' = revealed \cup {secret}
    /\ UNCHANGED <<config, membership, tree, balance, clock, sale, sold>>

Next ==
    \/ \E d \in Deployments : Initialize(d)
    \/ \E p \in MerklePrograms : InitializeMerkleTree(p)
    \/ \E c \in Commitments, rate \in RateLimits, claim \in Deployments,
          now \in Instants, payer \in Payers : Register(c, rate, claim, now, payer)
    \/ \E s \in Secrets, c \in Commitments, rate \in RateLimits,
          p \in MerklePrograms, i \in Indices : Slash(s, c, rate, p, i)
    \/ \E c \in Commitments, rate \in RateLimits, claim \in Deployments,
          now \in Instants, payer \in Payers : Extend(c, rate, claim, now, payer)
    \/ \E c \in Commitments, rate \in RateLimits, p \in MerklePrograms,
          i \in Indices, now \in Instants : Erase(c, rate, p, i, now)
    \/ \E t \in Instants : Tick(t)
    \/ \E s \in Secrets : Reveal(s)

Spec == Init /\ [][Next]_vars

-----------------------------------------------------------------------------
(***************************************************************************)
(* Properties.                                                             *)
(***************************************************************************)

\* Every shard holds nothing or a well-formed record, `next_index` never
\* passes the last leaf, and no balance is negative.
TypeOK ==
    /\ config \in ConfigState \cup {Empty}
    /\ membership \in [Commitments -> MembershipState \cup {Empty}]
    /\ tree \in [MerklePrograms -> Tree \cup {Empty}]
    /\ balance \in [Payers \cup Treasuries -> Nat]
    /\ clock \in Instants \cup {0}
    /\ revealed \subseteq Secrets
    /\ sale \in [Commitments -> Sale \cup {Empty}]
    /\ sold \in Nat

\* One element for each unit of rate limit a standing membership holds; its
\* cardinality is the sum of the members' rate limits.
RateUnits == {u \in Commitments \X (1 .. MAX_RATE_LIMIT) :
                u[1] \in Members /\ u[2] <= membership[u[1]].rate_limit}

\* The config's counters are what the membership shards add up to, after any
\* order of registrations, slashes and erasures under any claims: no unit of
\* capacity leaks, none is freed twice, and saturation never hides one.
CountersMatchMembers ==
    IF config = Empty
    THEN Members = {}
    ELSE /\ config.total_registrations = Cardinality(Members)
         /\ config.current_total_rate_limit = Cardinality(RateUnits)

\* The members' rate limits together never exceed the configured maximum.
LiveRateWithinCap ==
    config # Empty => Cardinality(RateUnits) <= config.max_total_rate_limit

MemberLeaf(c) == compute_registration_leaf(c, membership[c].rate_limit)

\* The tree holds exactly the members: each standing membership has one leaf,
\* under its own rate limit and below `next_index`, and every non-empty leaf
\* is a standing member's.  The two shards belong to two programs that never
\* read each other.
LeavesMatchMembers ==
    /\ \A c \in Members :
          /\ config # Empty
          /\ tree[config.merkle_program_id] # Empty
          /\ \E i \in Indices :
                tree[config.merkle_program_id].leaves[i] = MemberLeaf(c)
    /\ \A p \in MerklePrograms : tree[p] # Empty =>
          /\ \A i \in Indices : tree[p].leaves[i] # ZERO =>
                /\ i < tree[p].next_index
                /\ \E c \in Members : tree[p].leaves[i] = MemberLeaf(c)
          /\ \A i, j \in Indices :
                tree[p].leaves[i] = tree[p].leaves[j] /\ tree[p].leaves[i] # ZERO
                    => i = j

\* The authority over the `main` PDA is only ever granted to the merkle
\* program the config names: no other program's shard of it holds data.
OnlyConfiguredTree ==
    \A p \in MerklePrograms :
        tree[p] # Empty => config # Empty /\ config.merkle_program_id = p

\* The instant that lies d after t, or the last one a u64 can name.
InstantAfter(t, d) == IF t + d > U64_MAX THEN U64_MAX ELSE t + d

\* The end of the time bought for c's membership: its claimed registration
\* time plus one active and one grace period for each payment.
PaidUntil(c) ==
    InstantAfter(sale[c].at,
        sale[c].periods * (secs_to_millis(membership[c].active_duration_sec)
                            + secs_to_millis(membership[c].grace_period_duration_sec)))

\* A membership expires exactly at the end of the time bought for it, however
\* late in the grace period (or, by a stale claim, after it) each renewal ran.
PaidTimeHonoured ==
    \A c \in Members :
        /\ sale[c] # Empty
        /\ saturating_add(membership[c].grace_period_start_timestamp_ms,
                          secs_to_millis(membership[c].grace_period_duration_sec))
             = PaidUntil(c)

\* Every unit ever sold reached the configured treasury at the full price, and
\* no other treasury received anything.
RevenueExact ==
    \A t \in Treasuries :
        balance[t] = IF config # Empty /\ t = config.treasury_account_id
                     THEN config.price_per_unit * sold
                     ELSE 0

\* Renewals cannot be stacked up: a grace period never starts later than one
\* renewal from now, so an abandoned membership pins its rate limit for one
\* period and no longer.
RenewalHorizon ==
    \A c \in Members :
        membership[c].grace_period_start_timestamp_ms
            <= saturating_add(clock,
                  secs_to_millis(membership[c].active_duration_sec)
                    + secs_to_millis(membership[c].grace_period_duration_sec))

\* What each transaction must pass from its plan to its last chained call, to
\* take effect: the conjunction of the checks that its action makes.
RegisterAccepted(c, rate, claim, now, payer) ==
    /\ validate_rate_limit(rate)
    /\ RegisterConfigChecks(rate, claim)
    /\ ClockIs(now)
    /\ membership[c] = Empty
    /\ calculate_payment_amount(rate, claim.price_per_unit) <= balance[payer]
    /\ insert_leaf_checks(claim.merkle_program_id)

SlashAccepted(secret, c, rate, program, index) ==
    /\ SlashPlan(secret, c)
    /\ assert_config_ids(program)
    /\ SlashMembershipChecks(c, rate)
    /\ remove_leaf_checks(program, index, compute_registration_leaf(c, rate))

ExtendAccepted(c, rate, claim, now, payer) ==
    /\ ExtendConfig(claim)
    /\ ClockIs(now)
    /\ ExtendMembershipChecks(c, rate, now)
    /\ calculate_payment_amount(rate, claim.price_per_unit) <= balance[payer]

EraseAccepted(c, rate, program, index, now) ==
    /\ assert_config_ids(program)
    /\ ClockIs(now)
    /\ EraseMembershipChecks(c, rate, now)
    /\ remove_leaf_checks(program, index, compute_registration_leaf(c, rate))

\* Capacity is never stuck: in every reachable state there are claims with
\* which anybody can erase a membership that has expired on the clock, and
\* slash a member whose secret is out.  Both transactions revert unless the
\* config, the membership, the clock and the leaf agree with one set of claims.
Reclaimable ==
    \A c \in Members :
        LET m == membership[c]
        IN  \E p \in MerklePrograms, i \in Indices :
              /\ is_expired(m.grace_period_start_timestamp_ms,
                            secs_to_millis(m.grace_period_duration_sec), clock)
                   => EraseAccepted(c, m.rate_limit, p, i, clock)
              /\ \A s \in revealed : hash_single[s] = c
                   => SlashAccepted(s, c, m.rate_limit, p, i)

\* A member is removed only once its secret is out or the time bought for it
\* is over on the chain's own clock, whatever time the remover claims.
RemovalJustified ==
    [][\A c \in Members :
          membership'[c] = Empty =>
              \/ \E s \in revealed : hash_single[s] = c
              \/ clock >= PaidUntil(c)]_vars

\* A leaf index serves one registration: a slot is filled only when it is
\* `next_index`, which then moves past it for good, and afterwards only
\* zeroed.  Nothing resets a live tree.
SlotsFilledOnce ==
    [][\A p \in MerklePrograms : tree[p] # Empty =>
          /\ tree'[p] # Empty
          /\ tree'[p].next_index >= tree[p].next_index
          /\ \A i \in Indices : tree'[p].leaves[i] # tree[p].leaves[i] =>
                \/ tree'[p].leaves[i] = ZERO
                \/ i = tree[p].next_index /\ tree'[p].next_index > i]_vars

=============================================================================
