------------------------------- MODULE TxExec -------------------------------
(***************************************************************************)
(* How LEZ runs the transactions of several registries: account by         *)
(* account, effect by effect, call by call.                                *)
(*                                                                         *)
(* A shard is selected by an account and the program that owns it.  The    *)
(* registration program's accounts are PDAs, derived from the program and  *)
(* a seed made of a label, the tree id and the commitment; the tree lives  *)
(* in the merkle program's shard of the `main` PDA, which the registration *)
(* program grants by attaching the seed to its chained calls.  A           *)
(* transaction is planned from its instruction and account list alone; its *)
(* effects are then applied in order to a working copy of the shards, its  *)
(* chained calls planned and applied in turn, and the copy is kept only    *)
(* when all of them accept.                                                *)
(*                                                                         *)
(* Registry describes one registry with atomic instructions.  Here several *)
(* of them, of several programs and tree ids, share merkle programs,       *)
(* payers, treasuries and the clock, and each implements Registry.         *)
(***************************************************************************)
EXTENDS RlnLayouts, Sequences, FiniteSets

CONSTANTS
    Commitments, Secrets, hash_single, Payers, Treasuries, MerklePrograms,
    Deployments, RateLimits, Instants, InitialBalance, TREE_LEAVES,
    Empty, ZERO,               \* as in Registry
    RegistrationPrograms,      \* deployments of the registration program
    TreeIds,
    Registries,                \* <<program, tree id>>: the registries in use
    Home,                      \* the one of them that is compared with Registry
    Foreign,                   \* a program that is neither
    CLOCK_50, ClockProgram,    \* the clock account, the program that owns it
    NATIVE_TOKEN_PROGRAM_ID,
    Refused,                   \* what a failed check yields instead of a shard
    None                       \* no transaction, or no argument

ASSUME RegistriesAssumption ==
    /\ Registries \subseteq RegistrationPrograms \X TreeIds
    /\ Home \in Registries
    /\ Foreign \notin RegistrationPrograms \cup MerklePrograms

\* The data of the shards, as in Registry, each with the field it names itself
\* by.
ConfigState(t) == [tree_id : {t},
                   merkle_program_id : MerklePrograms,
                   price_per_unit : Nat,
                   treasury_account_id : Treasuries,
                   total_registrations : Nat,
                   max_total_rate_limit : Nat,
                   current_total_rate_limit : Nat,
                   active_duration_sec : Nat,
                   grace_period_duration_sec : Nat]

MembershipState(c) == [id_commitment : {c},
                       rate_limit : Nat,
                       grace_period_start_timestamp_ms : Nat,
                       active_duration_sec : Nat,
                       grace_period_duration_sec : Nat]

Indices == 0 .. (TREE_LEAVES - 1)

Tree == [next_index : 0 .. TREE_LEAVES,
         leaves : [Indices -> (Commitments \X Nat) \cup {ZERO}]]

\* What history keeps of a transaction.
Transaction == [op : {"Initialize", "InitializeMerkleTree", "Register", "Slash", "Extend",
                      "Erase", "Foreign"},
                program : RegistrationPrograms \cup {Foreign},
                tree_id : TreeIds,
                id_commitment : Commitments \cup {None},
                rate_limit : Nat,
                now_ms : Nat,
                payer : Payers \cup {None},
                treasury : Treasuries \cup {None},
                amount : Nat]

ASSUME ChainAssumption ==
    /\ Payers \cap Treasuries = {}
    /\ InitialBalance \in [Payers -> Nat]
    /\ Deployments \subseteq [merkle_program_id : MerklePrograms, price_per_unit : Nat,
                             treasury_account_id : Treasuries, max_total_rate_limit : Nat,
                             active_duration_sec : Nat, grace_period_duration_sec : Nat]
    /\ RateLimits \subseteq Nat
    /\ Instants \subseteq Nat
    /\ TREE_LEAVES \in Nat /\ U64_MAX \in Nat /\ U128_MAX \in Nat

\* The clock, the native token and the two programs of a registry are
\* different programs, and nothing is none of the values it stands in for.
ASSUME NamesAssumption ==
    /\ ClockProgram \notin RegistrationPrograms \cup MerklePrograms
    /\ NATIVE_TOKEN_PROGRAM_ID \notin
         RegistrationPrograms \cup MerklePrograms \cup {ClockProgram}
    /\ \A t \in TreeIds : Empty \notin ConfigState(t)
    /\ \A c \in Commitments : Empty \notin MembershipState(c)
    /\ Empty \notin Tree
    /\ None \notin Commitments
    /\ None \notin Transaction

VARIABLES
    shards,    \* selector -> the data of that shard
    tx,        \* the transaction that runs, or None
    work,      \* the working copy of the shards
    todo,      \* effects to apply and calls to run, in order
    revealed,  \* secrets that are out
    ledger     \* history: per registry, what was sold and who paid

vars == <<shards, tx, work, todo, revealed, ledger>>

-----------------------------------------------------------------------------
(***************************************************************************)
(* Accounts.  SHA-256 is taken to be injective: a hash is a record of what *)
(* it hashes.                                                              *)
(***************************************************************************)
label_seed(label) == [label |-> label]

combine_seeds(seeds) == IF Len(seeds) = 1 THEN seeds[1] ELSE [sha256 |-> seeds]

config_seed(t) == combine_seeds(<<label_seed("config"), t>>)

main_seed(t) == combine_seeds(<<label_seed("main"), t>>)

\* Mutation: a commitment has one membership in all trees of a program.
membership_seed_any_tree(t, c) == combine_seeds(<<label_seed("membership"), c>>)

membership_seed(t, c) == combine_seeds(<<label_seed("membership"), t, c>>)

for_public_pda(program, seed) == [program |-> program, seed |-> seed]

Seeds == {config_seed(t) : t \in TreeIds} \cup {main_seed(t) : t \in TreeIds}
           \cup {membership_seed(t, c) : t \in TreeIds, c \in Commitments}

Programs == RegistrationPrograms \cup MerklePrograms

\* Every shard of a PDA that an account list can name.
PdaShards == {<<for_public_pda(r, s), p>> :
                r \in RegistrationPrograms, s \in Seeds, p \in Programs}

clock_shard == <<CLOCK_50, ClockProgram>>

native_balance(a) == <<a, NATIVE_TOKEN_PROGRAM_ID>>

Selectors == PdaShards \cup {clock_shard}
               \cup {native_balance(a) : a \in Payers \cup Treasuries}

\* The shard of this program's PDA of that seed.
require_own_pda(self, meta, seed) ==
    meta = <<for_public_pda(self, seed), self>>

\* The merkle program's shard of this program's `main` PDA.
require_tree_main(self, meta, t, merkle) ==
    meta = <<for_public_pda(self, main_seed(t)), merkle>>

Own(self, seed) == {s \in PdaShards : require_own_pda(self, s, seed)}

TreeMain(self, t, merkle) == {s \in PdaShards : require_tree_main(self, s, t, merkle)}

-----------------------------------------------------------------------------
(***************************************************************************)
(* Effects of the registration program: the new data of the shard, or a    *)
(* refusal.                                                                *)
(***************************************************************************)
InitConfig(e, pre) == IF pre = Empty THEN e.state ELSE Refused

assert_config_ids(e, pre) ==
    /\ pre # Empty
    /\ pre.tree_id = e.tree_id
    /\ pre.merkle_program_id = e.merkle_program_id

\* Mutation: the tree id is checked, the callee is not.
InitTreeGuard_any_callee(e, pre) ==
    IF pre # Empty /\ pre.tree_id = e.tree_id THEN pre ELSE Refused

InitTreeGuard(e, pre) == IF assert_config_ids(e, pre) THEN pre ELSE Refused

\* Mutation: any treasury will do.
claims_price(e, pre) == pre.price_per_unit = e.claim.price_per_unit

claims_price_and_payee(e, pre) ==
    /\ pre.price_per_unit = e.claim.price_per_unit
    /\ pre.treasury_account_id = e.claim.treasury_account_id

can_register(pre, rate) ==
    saturating_add(pre.current_total_rate_limit, rate) <= pre.max_total_rate_limit

RegisterConfig(e, pre) ==
    IF /\ assert_config_ids(e, pre)
       /\ claims_price_and_payee(e, pre)
       /\ pre.active_duration_sec = e.claim.active_duration_sec
       /\ pre.grace_period_duration_sec = e.claim.grace_period_duration_sec
       /\ can_register(pre, e.rate_limit)
    THEN [pre EXCEPT !.total_registrations = saturating_add(@, 1),
                     !.current_total_rate_limit = saturating_add(@, e.rate_limit)]
    ELSE Refused

InitMembership(e, pre) == IF pre = Empty THEN e.state ELSE Refused

ClockIs(e, pre) == IF assert_clock_is(pre, e.now_ms) THEN pre ELSE Refused

ReleaseConfig(e, pre) ==
    IF assert_config_ids(e, pre)
    THEN [pre EXCEPT !.current_total_rate_limit = saturating_sub(@, e.rate_limit),
                     !.total_registrations = saturating_sub(@, 1)]
    ELSE Refused

SlashMembership(e, pre) ==
    IF /\ pre # Empty
       /\ pre.id_commitment = e.id_commitment
       /\ pre.rate_limit = e.rate_limit
    THEN Empty
    ELSE Refused

ExtendConfig(e, pre) ==
    IF pre # Empty /\ pre.tree_id = e.tree_id /\ claims_price_and_payee(e, pre)
    THEN pre
    ELSE Refused

ExtendMembership(e, pre) ==
    IF /\ pre # Empty
       /\ pre.rate_limit = e.rate_limit
       /\ is_in_grace_period(pre.grace_period_start_timestamp_ms,
                             secs_to_millis(pre.grace_period_duration_sec), e.now_ms)
    THEN [pre EXCEPT !.grace_period_start_timestamp_ms =
            saturating_add(
              saturating_add(@, secs_to_millis(pre.grace_period_duration_sec)),
              secs_to_millis(pre.active_duration_sec))]
    ELSE Refused

EraseMembership(e, pre) ==
    IF /\ pre # Empty
       /\ pre.rate_limit = e.rate_limit
       /\ is_expired(pre.grace_period_start_timestamp_ms,
                     secs_to_millis(pre.grace_period_duration_sec), e.now_ms)
    THEN Empty
    ELSE Refused

-----------------------------------------------------------------------------
(***************************************************************************)
(* Effects of the merkle program, on the leaf vector that MerkleTree is    *)
(* shown to implement.                                                     *)
(***************************************************************************)
initialize_tree(pre) ==
    IF pre = Empty
    THEN [next_index |-> 0, leaves |-> [i \in Indices |-> ZERO]]
    ELSE Refused

insert_leaf(pre, leaf) ==
    IF pre # Empty /\ pre.next_index < TREE_LEAVES
    THEN [next_index |-> pre.next_index + 1,
          leaves |-> [pre.leaves EXCEPT ![pre.next_index] = leaf]]
    ELSE Refused

remove_leaf(pre, index, leaf) ==
    IF pre # Empty /\ index < pre.next_index /\ pre.leaves[index] = leaf
    THEN [pre EXCEPT !.leaves[index] = ZERO]
    ELSE Refused

set_leaf(pre, index, leaf) ==
    IF pre # Empty /\ index < pre.next_index /\ pre.leaves[index] = ZERO
    THEN [pre EXCEPT !.leaves[index] = leaf]
    ELSE Refused

\* Both programs' apply.
apply(e, pre) ==
    CASE e.op = "InitConfig" -> InitConfig(e, pre)
      [] e.op = "InitTreeGuard" -> InitTreeGuard(e, pre)
      [] e.op = "RegisterConfig" -> RegisterConfig(e, pre)
      [] e.op = "InitMembership" -> InitMembership(e, pre)
      [] e.op = "ClockIs" -> ClockIs(e, pre)
      [] e.op = "ReleaseConfig" -> ReleaseConfig(e, pre)
      [] e.op = "SlashMembership" -> SlashMembership(e, pre)
      [] e.op = "ExtendConfig" -> ExtendConfig(e, pre)
      [] e.op = "ExtendMembership" -> ExtendMembership(e, pre)
      [] e.op = "EraseMembership" -> EraseMembership(e, pre)
      [] e.op = "Initialize" -> initialize_tree(pre)
      [] e.op = "Insert" -> insert_leaf(pre, e.leaf)
      [] e.op = "Remove" -> remove_leaf(pre, e.index, e.leaf)
      [] e.op = "Set" -> set_leaf(pre, e.index, e.leaf)

-----------------------------------------------------------------------------
(***************************************************************************)
(* What a plan puts in the queue.                                          *)
(***************************************************************************)
Effect(meta, e) == [kind |-> "effect", selector |-> meta, effect |-> e]

Inspect(meta, e) == Effect(meta, e)

\* A call of the merkle program on `tree_main`, with the seed that authorizes it.
merkle_call(self, merkle, tree_main, t, ix) ==
    [kind |-> "call", program |-> merkle, caller |-> self,
     selector |-> <<tree_main[1], merkle>>, pda_seeds |-> {main_seed(t)}, ix |-> ix]

native_payment(payer, treasury, amount) ==
    [kind |-> "transfer", from |-> payer, to |-> treasury, amount |-> amount]

\* The order in which a plan is carried out.
Plan(effects, calls) == effects \o calls

Tx(op, self, t) ==
    [op |-> op, program |-> self, tree_id |-> t, id_commitment |-> None,
     rate_limit |-> 0, now_ms |-> 0, payer |-> None, treasury |-> None, amount |-> 0]

MemberTx(op, self, t, c, rate, now) ==
    [Tx(op, self, t) EXCEPT !.id_commitment = c, !.rate_limit = rate, !.now_ms = now]

Pays(t, payer, claim) ==
    [t EXCEPT !.payer = payer, !.treasury = claim.treasury_account_id,
              !.amount = calculate_payment_amount(t.rate_limit, claim.price_per_unit)]

Begin(t, plan) ==
    /\ tx = None
    /\ tx' = t
    /\ todo' = plan
    /\ UNCHANGED <<shards, work, revealed, ledger>>

-----------------------------------------------------------------------------
(***************************************************************************)
(* The registration program's plans.  A plan that refuses its instruction  *)
(* or account list ends the transaction before anything is applied and is  *)
(* a stuttering step.                                                      *)
(***************************************************************************)
InitializePlan(t, d, config) ==
    Plan(<<Effect(config,
             [op |-> "InitConfig",
              state |-> [tree_id |-> t,
                         merkle_program_id |-> d.merkle_program_id,
                         price_per_unit |-> d.price_per_unit,
                         treasury_account_id |-> d.treasury_account_id,
                         total_registrations |-> 0,
                         max_total_rate_limit |-> d.max_total_rate_limit,
                         current_total_rate_limit |-> 0,
                         active_duration_sec |-> d.active_duration_sec,
                         grace_period_duration_sec |-> d.grace_period_duration_sec]])>>,
         <<>>)

Initialize(self, t, d) ==
    /\ d.max_total_rate_limit > 0
    /\ d.active_duration_sec > 0
    /\ \E config \in Own(self, config_seed(t)) :
         Begin(Tx("Initialize", self, t), InitializePlan(t, d, config))

InitializeMerkleTreePlan(self, t, merkle, config, main) ==
    Plan(<<Effect(config, [op |-> "InitTreeGuard", tree_id |-> t,
                           merkle_program_id |-> merkle])>>,
         <<merkle_call(self, merkle, main, t, [op |-> "Initialize"])>>)

InitializeMerkleTree(self, t, merkle) ==
    \E config \in Own(self, config_seed(t)), main \in TreeMain(self, t, merkle) :
        Begin(Tx("InitializeMerkleTree", self, t),
              InitializeMerkleTreePlan(self, t, merkle, config, main))

\* What a registration or a renewal is sold for.
RegisterTx(self, t, c, rate, claim, now, payer) ==
    Pays(MemberTx("Register", self, t, c, rate, now), payer, claim)

ExtendTx(self, t, c, rate, claim, now, payer) ==
    Pays(MemberTx("Extend", self, t, c, rate, now), payer, claim)

RegisterPlan(self, t, c, rate, claim, now, payer, config, main, member) ==
    Plan(<<Effect(config,
             [op |-> "RegisterConfig", tree_id |-> t, rate_limit |-> rate,
              merkle_program_id |-> claim.merkle_program_id, claim |-> claim]),
           Inspect(clock_shard, [op |-> "ClockIs", now_ms |-> now]),
           Effect(member,
             [op |-> "InitMembership",
              state |-> [id_commitment |-> c, rate_limit |-> rate,
                         grace_period_start_timestamp_ms |->
                             saturating_add(now, secs_to_millis(claim.active_duration_sec)),
                         active_duration_sec |-> claim.active_duration_sec,
                         grace_period_duration_sec |-> claim.grace_period_duration_sec]])>>,
         <<native_payment(payer, claim.treasury_account_id,
                          calculate_payment_amount(rate, claim.price_per_unit)),
           merkle_call(self, claim.merkle_program_id, main, t,
             [op |-> "Insert", leaf |-> compute_registration_leaf(c, rate)])>>)

Register(self, t, c, rate, claim, now, payer) ==
    /\ validate_rate_limit(rate)
    /\ \E config \in Own(self, config_seed(t)),
          main \in TreeMain(self, t, claim.merkle_program_id),
          member \in Own(self, membership_seed(t, c)) :
         Begin(RegisterTx(self, t, c, rate, claim, now, payer),
               RegisterPlan(self, t, c, rate, claim, now, payer, config, main, member))

SlashPlan(self, t, c, rate, merkle, index, config, main, member) ==
    Plan(<<Effect(config, [op |-> "ReleaseConfig", tree_id |-> t,
                           merkle_program_id |-> merkle, rate_limit |-> rate]),
           Effect(member, [op |-> "SlashMembership", id_commitment |-> c,
                           rate_limit |-> rate])>>,
         <<merkle_call(self, merkle, main, t,
             [op |-> "Remove", index |-> index,
              leaf |-> compute_registration_leaf(c, rate)])>>)

Slash(self, t, secret, c, rate, merkle, index) ==
    /\ secret \in revealed
    /\ hash_single[secret] = c
    /\ \E config \in Own(self, config_seed(t)), main \in TreeMain(self, t, merkle),
          member \in Own(self, membership_seed(t, c)) :
         Begin(MemberTx("Slash", self, t, c, rate, 0),
               SlashPlan(self, t, c, rate, merkle, index, config, main, member))

ExtendPlan(t, rate, claim, now, payer, config, member) ==
    Plan(<<Effect(config, [op |-> "ExtendConfig", tree_id |-> t, claim |-> claim]),
           Inspect(clock_shard, [op |-> "ClockIs", now_ms |-> now]),
           Effect(member, [op |-> "ExtendMembership", now_ms |-> now,
                           rate_limit |-> rate])>>,
         <<native_payment(payer, claim.treasury_account_id,
                          calculate_payment_amount(rate, claim.price_per_unit))>>)

Extend(self, t, c, rate, claim, now, payer) ==
    \E config \in Own(self, config_seed(t)), member \in Own(self, membership_seed(t, c)) :
        Begin(ExtendTx(self, t, c, rate, claim, now, payer),
              ExtendPlan(t, rate, claim, now, payer, config, member))

ErasePlan(self, t, c, rate, merkle, index, now, config, main, member) ==
    Plan(<<Effect(config, [op |-> "ReleaseConfig", tree_id |-> t,
                           merkle_program_id |-> merkle, rate_limit |-> rate]),
           Inspect(clock_shard, [op |-> "ClockIs", now_ms |-> now]),
           Effect(member, [op |-> "EraseMembership", now_ms |-> now,
                           rate_limit |-> rate])>>,
         <<merkle_call(self, merkle, main, t,
             [op |-> "Remove", index |-> index,
              leaf |-> compute_registration_leaf(c, rate)])>>)

Erase(self, t, c, rate, merkle, index, now) ==
    \E config \in Own(self, config_seed(t)), main \in TreeMain(self, t, merkle),
       member \in Own(self, membership_seed(t, c)) :
        Begin(MemberTx("Erase", self, t, c, rate, now),
              ErasePlan(self, t, c, rate, merkle, index, now, config, main, member))

\* Somebody else's program calls the merkle program on a registry's tree, with
\* the same seed, which derives another PDA from that program.
ForeignCall(merkle, registry, ix) ==
    LET main == <<for_public_pda(registry[1], main_seed(registry[2])), merkle>>
    IN  Begin(Tx("Foreign", Foreign, registry[2]),
              <<merkle_call(Foreign, merkle, main, registry[2], ix)>>)

-----------------------------------------------------------------------------
(***************************************************************************)
(* The executor.                                                           *)
(***************************************************************************)

\* The callee sees an account as authorized when the caller's seeds derive it.
authorized(call) ==
    call.selector[1] \in {for_public_pda(call.caller, s) : s \in call.pda_seeds}

\* Mutation: anyone may drive the tree.
merkle_plan_unauthorized(call) == call.selector[2] = call.program

\* The merkle program's plan accepts the call.
merkle_plan(call) == authorized(call) /\ call.selector[2] = call.program

\* The head of the queue passes its checks.
Accepted(item) ==
    CASE item.kind = "effect" -> apply(item.effect, work[item.selector]) # Refused
      [] item.kind = "call" -> merkle_plan(item)
      [] item.kind = "transfer" -> item.amount <= work[native_balance(item.from)]

Running == tx # None /\ todo # <<>>

ApplyEffect ==
    /\ Running
    /\ Head(todo).kind = "effect"
    /\ Accepted(Head(todo))
    /\ work' = [work EXCEPT ![Head(todo).selector] = apply(Head(todo).effect, @)]
    /\ todo' = Tail(todo)
    /\ UNCHANGED <<shards, tx, revealed, ledger>>

\* The callee is planned; its effects come before whatever its caller had left.
ChainedCall ==
    /\ Running
    /\ Head(todo).kind = "call"
    /\ Accepted(Head(todo))
    /\ todo' = Plan(<<Effect(Head(todo).selector, Head(todo).ix)>>, <<>>) \o Tail(todo)
    /\ UNCHANGED <<shards, tx, work, revealed, ledger>>

NativeTransfer ==
    /\ Running
    /\ Head(todo).kind = "transfer"
    /\ Accepted(Head(todo))
    /\ work' = [work EXCEPT ![native_balance(Head(todo).from)] = @ - Head(todo).amount,
                            ![native_balance(Head(todo).to)] = @ + Head(todo).amount]
    /\ todo' = Tail(todo)
    /\ UNCHANGED <<shards, tx, revealed, ledger>>

\* Any refusal undoes the whole transaction.
Revert ==
    /\ Running
    /\ ~Accepted(Head(todo))
    /\ work' = shards
    /\ tx' = None
    /\ todo' = <<>>
    /\ UNCHANGED <<shards, revealed, ledger>>

Sale(old) ==
    CASE tx.op = "Register" -> [at |-> tx.now_ms, periods |-> 1]
      [] tx.op = "Extend" -> [old EXCEPT !.periods = @ + 1]
      [] OTHER -> Empty

Recorded(l) ==
    [sale |-> IF tx.id_commitment = None THEN l.sale
              ELSE [l.sale EXCEPT ![tx.id_commitment] = Sale(@)],
     sold |-> IF tx.op \in {"Register", "Extend"} THEN l.sold + tx.rate_limit ELSE l.sold,
     paid |-> [a \in Payers \cup Treasuries |->
                 l.paid[a] + IF a \in {tx.payer, tx.treasury} THEN tx.amount ELSE 0]]

Commit ==
    /\ tx # None
    /\ todo = <<>>
    /\ shards' = work
    /\ ledger' = [g \in Registries |-> IF g = <<tx.program, tx.tree_id>>
                                       THEN Recorded(ledger[g]) ELSE ledger[g]]
    /\ tx' = None
    /\ UNCHANGED <<work, todo, revealed>>

Tick(t) ==
    /\ tx = None
    /\ t > shards[clock_shard]
    /\ shards' = [shards EXCEPT ![clock_shard] = t]
    /\ work' = shards'
    /\ UNCHANGED <<tx, todo, revealed, ledger>>

Reveal(secret) ==
    /\ tx = None
    /\ secret \notin revealed
    /\ revealed' = revealed \cup {secret}
    /\ UNCHANGED <<shards, tx, work, todo, ledger>>

Init ==
    /\ shards = [s \in Selectors |->
                   CASE s = clock_shard -> 0
                     [] s \in {native_balance(a) : a \in Payers} -> InitialBalance[s[1]]
                     [] s \in {native_balance(a) : a \in Treasuries} -> 0
                     [] OTHER -> Empty]
    /\ tx = None
    /\ work = shards
    /\ todo = <<>>
    /\ revealed = {}
    /\ ledger = [g \in Registries |-> [sale |-> [c \in Commitments |-> Empty],
                                       sold |-> 0,
                                       paid |-> [a \in Payers \cup Treasuries |-> 0]]]

MerkleInstructions ==
    {[op |-> "Initialize"]}
      \cup {[op |-> "Insert", leaf |-> compute_registration_leaf(c, r)] :
              c \in Commitments, r \in RateLimits}
      \cup {[op |-> o, index |-> i, leaf |-> compute_registration_leaf(c, r)] :
              o \in {"Remove", "Set"}, i \in Indices, c \in Commitments, r \in RateLimits}

Submit(self, t) ==
    \/ \E d \in Deployments : Initialize(self, t, d)
    \/ \E m \in MerklePrograms : InitializeMerkleTree(self, t, m)
    \/ \E c \in Commitments, rate \in RateLimits :
         \/ \E claim \in Deployments, now \in Instants, payer \in Payers :
              \/ Register(self, t, c, rate, claim, now, payer)
              \/ Extend(self, t, c, rate, claim, now, payer)
         \/ \E m \in MerklePrograms, i \in Indices :
              \/ \E s \in Secrets : Slash(self, t, s, c, rate, m, i)
              \/ \E now \in Instants : Erase(self, t, c, rate, m, i, now)

Next ==
    \/ \E g \in Registries : Submit(g[1], g[2])
    \/ \E m \in MerklePrograms, g \in Registries, ix \in MerkleInstructions :
         ForeignCall(m, g, ix)
    \/ ApplyEffect
    \/ ChainedCall
    \/ NativeTransfer
    \/ Revert
    \/ Commit
    \/ \E t \in Instants : Tick(t)
    \/ \E s \in Secrets : Reveal(s)

Spec == Init /\ [][Next]_vars

-----------------------------------------------------------------------------
(***************************************************************************)
(* Properties.                                                             *)
(***************************************************************************)
ConfigShard(g) == <<for_public_pda(g[1], config_seed(g[2])), g[1]>>
MemberShard(g, c) == <<for_public_pda(g[1], membership_seed(g[2], c)), g[1]>>
TreeShard(g, m) == <<for_public_pda(g[1], main_seed(g[2])), m>>

\* "The merkle program id named here is checked against the config account
\* before the merkle program is ever handed pda_seeds": a call that carries
\* the seed of a registry's `main` PDA is about to run only when the config,
\* as it stands at that point of the transaction, names its callee.
GrantOnlyConfigured ==
    \A g \in Registries :
        /\ Running
        /\ Head(todo).kind = "call"
        /\ Head(todo).caller = g[1]
        /\ main_seed(g[2]) \in Head(todo).pda_seeds
        => /\ work[ConfigShard(g)] # Empty
           /\ work[ConfigShard(g)].merkle_program_id = Head(todo).program

\* What a registry's sales, at the price its config names, have brought in for
\* a treasury, ...
Due(g, t) ==
    LET config == shards[ConfigShard(g)]
    IN  IF config # Empty /\ config.treasury_account_id = t
        THEN config.price_per_unit * ledger[g].sold ELSE 0

\* ... and all registries together, token by token.
Tokens(t) == UNION {{g} \X (1 .. Due(g, t)) : g \in Registries}

\* Every payment in every registry went to the treasury that registry's config
\* names, at its price, and is accounted for once: a treasury shared by
\* several registries holds exactly what they sold, and what reverted
\* transactions moved before they failed is back with the payers.
TreasuriesExact ==
    \A t \in Treasuries : shards[native_balance(t)] = Cardinality(Tokens(t))

\* The data a registry consists of.
View(g) == [config |-> shards[ConfigShard(g)],
            members |-> [c \in Commitments |-> shards[MemberShard(g, c)]],
            tree |-> [m \in MerklePrograms |-> shards[TreeShard(g, m)]]]

\* A registry changes only when a transaction of its own program for its own
\* tree id takes effect, whoever else uses the same commitment, merkle program
\* or tree id.
RegistriesIsolated ==
    [][\A g \in Registries : View(g)' # View(g) =>
          tx # None /\ g = <<tx.program, tx.tree_id>>]_vars

\* Each registry implements Registry: its instructions are atomic although
\* they are carried out over several shards, programs and steps.  The balances
\* are those that result from this registry's own sales.
HomeConfig ==
    LET config == shards[ConfigShard(Home)]
    IN  IF config = Empty THEN Empty
        ELSE [f \in DOMAIN config \ {"tree_id"} |-> config[f]]

HomeMembership ==
    [c \in Commitments |->
        LET m == shards[MemberShard(Home, c)]
        IN  IF m = Empty THEN Empty
            ELSE [f \in DOMAIN m \ {"id_commitment"} |-> m[f]]]

HomeBalance ==
    [a \in Payers \cup Treasuries |->
        IF a \in Payers THEN InitialBalance[a] - ledger[Home].paid[a]
        ELSE ledger[Home].paid[a]]

HomeTree == [m \in MerklePrograms |-> shards[TreeShard(Home, m)]]

HomeRegistry == INSTANCE Registry WITH
    config <- HomeConfig,
    membership <- HomeMembership,
    tree <- HomeTree,
    balance <- HomeBalance,
    clock <- shards[clock_shard],
    sale <- ledger[Home].sale,
    sold <- ledger[Home].sold

\* What Registry assumes of its constants.
ASSUME HomeAssumption ==
    /\ HomeRegistry!DomainAssumption
    /\ HomeRegistry!BoundsAssumption
    /\ HomeRegistry!WidthAssumption
    /\ HomeRegistry!EmptyAssumption

ImplementsRegistry == HomeRegistry!Spec

=============================================================================
