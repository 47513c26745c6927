# A TLA+ model of the LEZ RLN registry

The repository implements rate-limiting-nullifier (RLN) memberships on the LEZ
chain: a registration program that sells memberships, a merkle program that
keeps their leaves, and the client code that deploys both, registers members
and fetches inclusion proofs. This directory holds a TLA+ model of that code,
TLC runs that check it on small instances, and TLAPS proofs that all its safety
properties and both refinements hold for every instance.

    tlc -config MCRegistry.cfg MCRegistry      # any run: see the table below
    tlapm RegistryProofs.tla                   # any *Proofs module of the table of proofs

`PROJECT.json` lists components, runs, hazards and theorems, and maps every
definition to the source lines it models.

## Inventory

| Component | State it keeps | Operations | What is hard about it |
|---|---|---|---|
| Registration program (`methods/guest/src/program.rs`, `registration.rs`; layouts in `rln-layouts`) | config shard; one membership shard per commitment | Initialize, InitializeMerkleTree, Register, Slash, Extend, Erase | The plan phase sees no data: every value is a *claim* by an unsigned sender, checked later by an effect that sees one shard only. Three shards of two programs, and money, must stay in agreement under any order of transactions |
| Merkle program (`methods/guest/src/merkle_tree.rs`, `hash.rs`) | tree shard: header, root history of four, sparse node map | Initialize, Insert, Remove, Set | One path is rewritten per update, siblings are trusted; node offsets are not bounded per level |
| Sparse node map (`rln-layouts/src/sparse.rs`, `write_sparse_node`) | sorted entries (u16 offset, hash) | read, write | Bisection is right only while the list is sorted and offsets are unique |
| Membership proofs (`src/merkle_tree/client.rs`, `src/proof_circuit.rs`) | none (one read of the shard) | find leaf, path, pad, fold, accepted roots | A proof is made from one state of the tree and judged against another; the circuit is deeper than the tree |
| Setup (`run_setup` and helpers in `src/rln/client.rs`, `program_ids.rs`) | record file, wallet storage, loader headers, the two init transactions | deploy or reuse, record, create the treasury, initialize twice | Crashes between steps, reruns, several operators, transactions that are lost or land after their sender gave up |
| Executor and PDAs (the LEZ runtime as `cycle_harness.rs` replays it; seeds in `rln-layouts`, `registration.rs`) | working copy of the shards | plan, apply effects, run chained calls, commit or revert | Authority over the tree account is handed to another program; several registries of one program share callees, payers and treasuries |
| Membership clients (`register_identity`, `extend_membership`, `erase_membership`, `slash_membership`) | a view assembled from several reads | read, afford, send, poll | Each read is a request of its own and the chain moves in between; what may a client conclude from its polls? |
| `tools/check-membership` | two reads | report the state of a membership | The lifecycle rule is written a second time, outside the programs |
| Batch commands (`register_member`, `register_commitments`), fees and payers | wallet file, payer's balance and nonce | quote, reserve, send, wait, go on or give up | The reserve is sized from a quote that is stale when the transaction is admitted; a registration may land after its sender gave up |
| Build script, payer and dump tools, tests | – | – | Not modelled, see the end |

How they interact: clients read shards over RPC and send transactions. A
transaction of the registration program runs effects on the config, the
membership and (read-only) the clock, then calls the native token program and
the merkle program, handing the latter authority over the tree account. The
merkle program never reads the registration program's shards, nor the other
way round. Setup creates all of it.

## Modules

                                                     proofs
    RlnLayouts        saturating arithmetic of prices and periods
      ^ extended by
    Registry          one registry, atomic           RegistryProofs
      ^ extended by
    Client            one call, read by read         ClientProofs (extends RegistryProofs)

    TxExec            several registries, effect     TxExecProofs (instantiates
                      by effect; implements Registry   RegistryProofs)

    NodeOffsets       numbering of the tree's nodes  NodeOffsetsProofs
      ^ extended by
    SparseNodes       the sorted entry list          SparseNodesProofs
    MerkleTree        header, history, nodes;        TreeProofs
                      implements LeafVector
      ^ extended by
    MembershipProofs  proofs and accepted roots      TreeProofs
    LeafVector        what a tree promises: a vector of leaves

    Setup             run_setup against an           SetupProofs
                      abstract chain
    RegisterBatch     the registering loops against  RegisterBatchProofs
                      an abstract registry

`MC*.tla` and `*.cfg` instantiate them.

**Registry** (core). Variables are the shards: `config`, `membership[c]`,
`tree[p]` (the shard of the `main` account that belongs to merkle program `p`,
as a leaf vector), plus `balance`, `clock` (CLOCK_50) and `revealed` (secrets
that are out). `sale` and `sold` are history: what was paid, from which claimed
time. One action per instruction stands for the whole transaction, because LEZ
runs plan, effects and calls in order and reverts all of them on any failure;
inside an action there is one operator per effect and chained call, with the
source's name (`RegisterConfig`, `ClockIs`, `InitMembership`, `insert_leaf`,
`native_payment`, ...). Where an effect or call both checks and writes, its
checks are an operator of their own (`RegisterConfigChecks`,
`remove_leaf_checks`, ...); `RegisterAccepted` and its three siblings collect
those of a whole transaction. The actions quantify over *every* claim, so stale,
replayed, misdirected and false transactions are steps too; those the code
refuses are not enabled. `Tick` and `Reveal` are the environment.

**TxExec** drops that atomicity. `shards` maps selectors, an account and the
program that owns the shard, to data; the registration program's accounts are
PDAs built from a label, the tree id and the commitment. Each instruction is
planned from its arguments and account list alone (`Begin`), then
`ApplyEffect`, `ChainedCall` and `NativeTransfer` work off `todo` on a working
copy, and the copy becomes the state in `Commit` or is thrown away in `Revert`.
Any instruction may name any account list, and `ForeignCall` is a program that
calls the merkle program on somebody else's tree. `ImplementsRegistry` maps
`Home`'s shards to Registry's variables: every commit is one of Registry's
actions, everything else a stutter.

**LeafVector, MerkleTree, SparseNodes.** `MerkleTree` is the merkle program on
its own: `compute_root_after_update` walks from the leaf to the root,
`push_root_history` shifts the window. Hashes are pairs, so equality of roots
is equality of trees. Its node map is a function; `SparseNodes` checks that the
stored list with `lower_bound` behaves as one. Both number nodes by
`NodeOffsets`, where `one_shl[n]` is the code's `1 << n` as a recursive function
(the prover knows no exponentiation). `ImplementsLeafVector` is the refinement
that justifies Registry's view of a tree. It sees the leaves and `next_index`
only: a stale ancestor is `NodesMatchLeaves`' to find, and a removal that does
not check which leaf it removes is `LeavesMatchMembers`', in Registry, where the
member it is meant for is known.

**MembershipProofs** extends `MerkleTree`: a member locates its leaf, fetches a
proof from another read and checks that the leaf is still its own, the tree
goes on changing, a verifier folds the roots it then reads. That verifier is
external: `run_rln_proof` checks one proof against its own root, and the window
is the one `proof_circuit.rs:18-19` speaks of, over the roots that
`fetch_root_history` returns. `age` and `recent` are history.

**Setup** follows `run_setup` label by label (`pc[o]`): reuse or deploy each
program, truncate and write the record, check the config, create the treasury,
send and confirm two transactions. `Crash` may happen anywhere, `Start` reruns;
`RunTx` and `DropTx` act on the mempool independently of who sent what and
whether that process still lives. Wallets derive accounts from a seed, and a
copied wallet derives the same ones again.

**Client** extends `Registry`: one call of one of the four client functions, or
of the check-membership tool (op `check`, with its own `lifecycle`), each read a
step, with Registry's whole `Next` as the environment between any two steps. Other honest clients, and late transactions of earlier runs, are
among the environment's steps, so one client is enough.

**RegisterBatch** follows the loops of `register_member` and
`register_commitments`: make and store an identity, read the balance, read a
fee quote (or fall back to the declared maximum), take the nonce, send, poll
until confirmed, settled or out of attempts, say so, and close. The chain raises its base fee by an
eighth per full block, admits by nonce, cap and balance, charges for gas used,
and may lose a transaction or run it after the command is gone. What a
registration does to the registry is Registry's business; here an entry is
registered or it is not.

## Runs

| Run | Module / cfg | States | Checks |
|---|---|---|---|
| `registry` | MCRegistry | 80,716 | shape, counters, cap, tree against members, callee, time, money, renewal horizon, reclaimability, justified removal, slots filled once |
| `registry_edge` | MCRegistryEdge | 8,093 | time, money, reclaimability and removal where u64/u128 saturate, without grace period, with a tolerance longer than a membership, and a full tree |
| `sparse_nodes` | MCSparseNodes | 2,187 | sortedness, and reads return the last write |
| `membership_proofs` | MCMembershipProofs | 390,862 | nodes against leaves, refinement of LeafVector; padded path meets folded root; acceptance window, both ways |
| `setup` | MCSetup | 82,049 | record names deployed programs, treasury key is stored, a finished setup is a live one, setup terminates |
| `setup_crash` | MCSetupCrash | violation | a run of setup leaves an initialized tree |
| `setup_race` | MCSetupRace | violation | a confirmed transaction took effect |
| `client` | MCClient | 244,374 | which checks an honest transaction can fail, success on a quiet chain, what register's answers mean, check-membership's report against what the programs would do |
| `client_locate` | MCClientLocate | violation | a membership that was read has a leaf |
| `tx_exec` | MCTxExec | 256,484 | authority only for the configured callee, treasuries hold what was sold, registries do not touch each other, refinement of Registry |
| `register_batch` | MCRegisterBatch | 1,374,523 | an afforded transaction stays admissible, paid secrets can be had again, the loop's line about each entry is true, the command ends |
| `batch_closing` | MCRegisterBatchClosing | violation | the line after the loop is true |

Four runs show disagreements between the code and its own words:

* `setup_crash`: `is_initialized` looks at the config shard only. If a run ends
  between the two init transactions, every rerun reports "already initialized"
  and the tree never comes to exist.
* `setup_race`: the wait for Initialize is satisfied by *any* config, so an
  operator who lost the race goes on with a treasury that is not configured.
* `client_locate`: membership and tree are two reads; a slash or erase between
  them trips "the membership exists but no leaf in the tree holds it".
* `batch_closing`: `register_commitments` closes with "All {} commitments
  registered successfully." whatever became of the entries, here after a
  timeout of each of them. The lines before it are true one by one: that is
  `EntryLinesTrue` of `register_batch`, so the warnings are the only sign of an
  entry that is missing.

The repository's README differs from the code in one more place, which needs no
run of its own: it says that Extend renews "from the current clock"
(`README.md:206-207`), where the code adds grace and active period to the old
start of the grace period (`program.rs:635-638`). The README's rule is
`ExtendMembership_from_now`, the mutation that `PaidTimeHonoured` refutes: with
it, renewing early or late loses or gains time against what was paid.

### Bounds, and why they suffice

* `registry`: two commitments (two members can collide on counters, slots and
  capacity), two merkle programs and two treasuries (a right and a wrong one),
  three deployments differing in one claim, rate limits 0..3 around the legal
  1..2, cap 3 (so that 2+2 does not fit), three leaves (a slot is used up by a
  re-registration), seven instants with active 2 s, grace 1 s, tolerance 1 s
  (registration, expiry, renewal and stale claims on both sides all happen),
  and a balance of 5. Amounts are whole units; times are ms as in the code.
* `registry_edge` shrinks U64_MAX and U128_MAX until both saturate. The widths
  themselves are constants, constrained only by `WidthAssumption`.
* `membership_proofs`: depth 2 under a circuit of depth 4, history 2; the real
  tree has depth 9 and history 4. The offsets an entry can tell apart
  (`OFFSETS`) are exactly as many as the nodes, so every alias would show. Depth
  2 has a sibling pair at an inner level, and a proof can outlive the history.
  The two non-zero field elements are symmetric: nothing compares them but for
  equality.
* `setup`: two operators on copies of one wallet, two runs each, key chain of
  ten accounts; one operator's environment names the other's registration
  program. `MaxKeys` and `MaxRuns` are bounds of the model.
* `client`: one commitment, one deployment, five instants, two leaves, records
  naming the right and the wrong merkle program, reserves 0 and 1.
* `tx_exec`: one program with two trees and one commitment in both, so that
  every derivation that forgets the tree collides; two merkle programs and
  treasuries, so that the registries may share them or not; two leaves, four
  instants, tolerance 0, and money for three payments, the third of which meets
  a full tree after its effects were applied.
* `register_batch`: two entries and one payer, gas and sizes in units of
  100,000, base fee 8 (devnet's) or 800 (where rounding hides nothing of an
  eighth). `HEADROOM_BLOCKS` is 5: the factor two covers five full blocks after
  the next one, and 1.125^6 is just above it. Blocks are counted only while a
  quote is in use; falling fees are left out since they only help.

`CHECK_DEADLOCK FALSE` stands where the system may stop: the clock, the money
and the number of runs and blocks are bounded. `membership_proofs` and
`sparse_nodes` check deadlock.

### Fairness

Two properties are liveness. `SetupTerminates`: `FairSpec` assumes weak fairness of each
operator's own `Step`: a running process is scheduled, and each of its waits is
bounded by `wait_account_attempts`, so it always has a next step. Nothing is
assumed of the chain: transactions may never run. `BatchEnds`: weak fairness of
`Command`, for the same reason and with the same bound on every wait; blocks,
inclusion and other payers are not fair.

## Proofs

Every theorem holds for all values of the constants that satisfy the named
assumptions of its module: any number of commitments, registries, operators and
entries, and any depth of tree and circuit. Registry's real widths, the depth 9
tree and the history of four are instances.

| Module | Theorem | What it states of the module's specification |
|---|---|---|
| RegistryProofs | `Invariance` | `[]Inv` |
| | `TypeCorrect` | `[]TypeOK` |
| | `CountersCorrect`, `CapCorrect` | `[]CountersMatchMembers`, `[]LiveRateWithinCap` |
| | `TreeCorrect`, `CalleeCorrect` | `[]LeavesMatchMembers`, `[]OnlyConfiguredTree` |
| | `TimeCorrect`, `HorizonCorrect` | `[]PaidTimeHonoured`, `[]RenewalHorizon` |
| | `RevenueCorrect` | `[]RevenueExact` |
| | `RemovalCorrect`, `SlotsCorrect` | `RemovalJustified`, `SlotsFilledOnce` (action properties) |
| | `ReclaimCorrect` | `[]Reclaimable` |
| TxExecProofs | `Invariance` | `[]Inv` |
| | `GrantCorrect` | `[]GrantOnlyConfigured` |
| | `IsolationCorrect` | `RegistriesIsolated` (action property) |
| | `TreasuriesCorrect` | `[]TreasuriesExact` |
| | `Refinement` | `ImplementsRegistry` |
| | `EveryRegistry` | Registry's invariants, of a registry among others |
| | `EveryRegistryStep` | Registry's action properties, likewise |
| ClientProofs | `ClientInvariance` | `[]CInv` |
| | `ClientsKeepRegistry` | `ClientSpec => Spec` |
| | `AssertsCorrect` | `[]HonestTxPassesAsserts` |
| | `NewIndexCorrect`, `AbsentCorrect` | `[]ReturnedIndexIsNew`, `[]AbsentMeansGone` |
| | `QuietCorrect` | `[]QuietTxSucceeds` |
| | `ReportCorrect` | `ReportMatchesPrograms` (action property) |
| SetupProofs | `Invariance` | `[]Inv` |
| | `RecordCorrect` | `[]RecordedProgramsDeployed` |
| | `TreasuryCorrect` | `[]ConfigTreasuryStored` |
| | `FinishedCorrect` | `[]FinishedTreeIsConfigured` |
| RegisterBatchProofs | `Invariance` | `[]Inv` |
| | `SecretCorrect` | `[]PaidSecretRecoverable` |
| | `LinesCorrect` | `[]EntryLinesTrue` |
| | `AffordCorrect` | `[]AffordedTxAdmitted` |
| SparseNodesProofs | `MapInvariance` | `[]SInv` |
| | `SortedCorrect`, `ReadsCorrect` | `[]EntriesSorted`, `[]ReadsLastWrite` |
| TreeProofs | `TreeInvariance`, `TreeTypeCorrect` | `[]MInv`, `[]TypeOK` |
| | `NodesCorrect` | `[]NodesMatchLeaves` |
| | `VectorRefinement` | `ImplementsLeafVector` |
| | `ProofsKeepTree` | `ProofSpec => Spec` |
| | `ProofInvariance` | `[](MInv /\ Recent)` |
| | `WindowCorrect` | `[]ProofSurvivesWindow` |
| | `RecentCorrect` | `[]AcceptedProofIsRecent` |
| | `PaddingCorrect` | `[]PaddedPathMeetsFoldedRoot` |

The checked properties are seldom inductive. What had to be added, and why:

**Registry.** `Inv == TypeOK /\ TreeInv /\ CountersInv /\ TimeInv /\ MoneyInv`.

* `CountersInv` adds that members' rate limits are valid and that both counters
  are bounded by the used part of the tree (`CountersBounded`). A counter
  updated by `saturating_add` equals the true sum only if it cannot saturate,
  and the reason it cannot is the tree: every registration uses up a leaf, and
  `TREE_LEAVES * MAX_RATE_LIMIT` fits in a u64. The sum of rate limits is the
  cardinality of `RateUnits`, so that adding and removing a member are
  statements about finite sets (`UnitsAdded`, `UnitsFreed`).
* `MoneyInv` adds that no payer holds U128_MAX, so a saturated price is never
  affordable and every payment made is exactly price times rate.
* `TreeInv` needs uniqueness of leaves to keep a removal from touching another
  member's leaf, and that slots from `next_index` on are empty to keep an
  insert from overwriting one.
* `TimeInv` relates the stored grace start to the history of payments in
  saturating arithmetic: one period from the claimed time (`FirstPeriod`), one
  more from the old end of the grace period.

There is one step lemma per part, each by cases on the instructions;
`RemovalStep` and `SlotStep` give the action properties from `Inv`.

Which transactions the chain refuses is stated without ENABLED, which is out of
the prover's reach: `RegisterAccepted`, `SlashAccepted`, `ExtendAccepted` and
`EraseAccepted` are the checks on the way through a transaction, and
the lemma `AcceptedExact` unfolds an instruction into that predicate and
assignments that can always be made: reading the predicate as "would be
accepted" is justified by it. `Reclaimable` speaks of these predicates;
it follows from `Inv` and from `Started` (there are members only once the clock
has left its genesis value, which `ClockIs` refuses).

**TxExec.** `Inv == TypeInv /\ JobInv /\ SpentInv`. A commit is one of
Registry's actions only if the working copy is what that action would have
produced, so `JobInv` says at every point between two effects: the running
transaction is one of the jobs that a plan can make, `todo` is what is left of
its plan, every item done so far has had its effect on the copy (`Achieved`) and
nothing else of the copy differs from the state. `SpentInv` says the same of the
money. `Refinement` then maps a commit of `Home`'s job to the Registry
instruction, a tick or a revealed secret to itself, and every other step to a
stutter; the balances it maps are those that result from `Home`'s own sales, so
registries that share payers and treasuries do not disturb it. `Home` stands for
any of the registries. `EveryRegistry` and `EveryRegistryStep` carry Registry's
theorems over: `HomeProofs` instantiates `RegistryProofs` under the same
mapping, `HomeConstants` discharges its assumptions, and the `Same...` lemmas say
that the two instances name the same formulas.

`TreasuriesExact` counts tokens: a treasury's dues are a set with one element
per token that a registry has taken in for it, and its balance is the size of
that set, so a sum over any number of registries needs no recursion.
`TreasuryInv` adds that the set is finite and that nothing is sold before there
is a config. `SaleCases` splits the transactions into those that sell nothing
and move no tokens and those that sell at the config's price; that no payer can
hold U128_MAX (`PaidInFull`) rules out the saturated price.

**Client.** `CInv` is Registry's `Inv` together with what a call knows at each
position (`CallInv`, `ReadInv`, `TxInv`, `SeenInv`, `FateInv`). A value read
earlier is still good because of three facts about every step of the
environment: a config's terms never change, a live tree stays live, and a slot
below `next_index` is never filled again. `ConfigOrigin` and `RateOrigin` say
that stored terms and rates were once legal arguments, which is why a client
that copies them into a transaction trips no assertion. `ClientsKeepRegistry`
shows that the transaction a client assembles is one of Registry's steps.
`QuietInv` is what `QuietTxSucceeds` needs besides: as long as nobody else has
changed the chain, each value read so far is what the shard still holds
(`FreshReads`), and so is each value in the transaction made of them
(`FreshTx`). `ShardRead` says that check-membership has read a membership when
it reads the clock, on which `ReportMatchesPrograms` rests.

**Setup.** `Inv == TypeOK /\ RunInv /\ ChainInv /\ RecordedProgramsDeployed`.
`RunInv` is what a run knows at each label: what it has deployed, recorded,
stored and sent. `ChainInv`: treasuries of pending and of executed Initialize
transactions are stored keys, and a tree exists only under a config that names
it. Other operators, crashes and late transactions disturb none of this because
headers, trees and stored wallets only grow (`Grows`).

**RegisterBatch.** `Inv == TypeOK /\ WalletInv /\ SaidInv /\ FeeInv`.
`WalletInv`: a secret is on disk before its transaction is sent. `SaidInv`: what
was printed about each entry that the loop has passed. `FeeInv` bounds the base
fee from the quoted ceiling by the number of blocks since (`Climbed`), with the
code's rounding. The factor two covers five rises after the next block:
`HeadroomAssumption` limits `HEADROOM_BLOCKS` to 5, where the comment at
`rln/client.rs:872-873` speaks of "six more full-block steps (1.125^6 ~ 2.03)";
2.03 is already past the factor.

**SparseNodes.** `SInv`: the list is sorted, its offsets are below TREE_NODES,
and the offset of each node maps to the last hash written to it or to nothing.
`Bisection` shows that the search ends where everything to the left is below the
target and nothing to the right is; `Insertion` that a write there keeps the
list sorted; `OffsetsDiffer` that two nodes never share an offset.

**MerkleTree and MembershipProofs.** `MInv`: a live shard has its shape, a full
history and a *sound* node map, where every inner node is the hash of its two
children, stored or defaulted. An update breaks this on the way up, so the walk
has an invariant of its own (`OnWay`): of all inner nodes only the next ancestor
is stale. `Window` and `Recent` tie the history to the past: its roots are those
of the most recent leaf vectors, newest first. A root determines its leaves
(`RootCommits`) and folding is injective (`FoldInjective`), which makes an
accepted proof a statement about one of those vectors; `FetchedMeets` shows that
the steps of a fetched path are the ancestors of its leaf and that padding does
what the fold of the root does.

Recursive functions (`one_shl`, `DEFAULT_HASHES`, the walk to the root,
`lower_bound`'s search, the fold, `Subtree`) enter through a lemma that such a
function exists, by induction with sets (`Induction` in `NodeOffsetsProofs`,
from WellFoundedInduction), and from then on through their defining equation.

### Assumptions

All but two are `ASSUME`s that TLC evaluates in the runs:

* Registry: the constants have their types; payers and treasuries are different
  accounts; the tree's lifetime capacity fits in a u64; no payer starts with
  U128_MAX or more; instants are u64; the empty shard is none of the records.
* TxExec: Registry's assumptions (`HomeAssumption`); clock, native token and the two programs of a registry
  are different programs; empty values are none of what they stand in for.
* Client: a call's rate limit is a legal one and its secret belongs to its
  commitment.
* Setup, RegisterBatch: types, distinct empty values, and the factor two.
* NodeOffsets, MerkleTree, MembershipProofs: the compile-time assertion that all
  node numbers fit an entry's u16; depth and history are not zero; the circuit
  is at least as deep as the tree.

Two quantify over everything, so TLC cannot evaluate them; they are hypotheses
of the theorems instead, and true of the runs' model values. `EmptyIsNoTree`:
what holds a tree is not what holds no data (`VectorRefinement`,
`ProofInvariance`, `WindowCorrect`, `RecentCorrect`, `PaddingCorrect`).
`HashIsNotZero`: Poseidon of two elements is not the empty leaf
(`WindowCorrect`; an unused slot of the history is zero and must not be taken
for a root).

### Only model-checked

* `SetupTerminates`, `BatchEnds`: liveness under fairness.

Every other property of the passing runs is stated by a theorem.

## Abstractions

* Registry and Client have one tree id; that trees share nothing but payers,
  treasuries and the clock is what TxExec's `RegistriesIsolated` shows.
* SHA-256 (a hash is a record of what it hashes) and Poseidon are injective; no leaf hashes to zero. A
  membership record's `id_commitment` is the argument of its shard.
* Account lists, shard selectors and field-element encodings that the plan
  refuses without reading state are not among Registry's inputs; TxExec has the
  lists and selectors, Client the tree selector.
* CLOCK_50 only moves forward. The native program and the sequencer are
  modelled by what the code relies on: an unaffordable transfer fails, failure
  reverts everything, an admitted transaction may run later, be reverted in a
  block, or be left out.
* Fees and nonces are RegisterBatch's. In Registry, TxExec and Client fees are
  not debited: a transaction may be refused at any time, for any reason.
* `check_header`'s test of the stored depth never fails with one build.
* Setup: a program's segments go with its header account; storing the wallet is
  merged with taking the key it protects; one run at a time per home directory.

## Not modelled

zerokit's prover and verifier (cryptography); the chain's fee schedule beyond
the eighth per block (in the chain's crates); `mint_payer` and
`account_balance` (a key written to a file, a balance printed); the dumps of
roots and derived accounts; argument parsing, HTTP and printing; exit codes
(which code a refusal carries); deployment scripts, the guest build script,
cycle counting, and the tests.

## Plan

Order of work, most important first.

1. *Done.* Registry with its properties, edge cases and proofs.
2. *Done.* Merkle program, node map, the refinement to a leaf vector; proofs
   and the acceptance window.
3. *Done.* Setup with crashes and several operators.
4. *Done.* Client calls against an arbitrary environment.
5. *Done.* TxExec: the executor with intermediate states and revert, several
   registries, shown to implement Registry's atomic actions.
6. *Done.* The registering commands with fees, nonces and late transactions;
   the check-membership tool.
7. *Done.* Proofs for Setup and Client, the latter on top of `RegistryProofs`.
8. *Done.* Proofs for RegisterBatch and TxExec, with the refinement of Registry.
9. *Done.* Proofs for the node map, the merkle program and membership proofs,
   with the refinement of LeafVector.
10. *Done.* `TreasuriesExact` for every instance, by counting tokens as
    `RegistryProofs` counts rate units.
11. *Done.* The checks of each instruction as predicates, and from them
    `Reclaimable`, `QuietTxSucceeds` and `ReportMatchesPrograms`.
12. *Done.* Registry's theorems, carried over to every registry the executor runs.
