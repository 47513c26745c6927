------------------------------- MODULE Setup -------------------------------
(***************************************************************************)
(* run_setup: deploy or reuse the two programs, record their ids, create   *)
(* the treasury, and initialize the registry in two transactions.          *)
(*                                                                         *)
(* Several operators, each with a home directory (the record file and the  *)
(* stored wallet), run it against one chain.  A run may die between any    *)
(* two steps and be repeated.  A sent transaction waits in the mempool,    *)
(* runs later, even after its sender has died or given up, or is dropped.  *)
(***************************************************************************)
EXTENDS Integers, FiniteSets

CONSTANTS
    Operators,   \* who runs setup, one run at a time each
    Seed,        \* [Operators -> seeds]: of their wallets; a copied wallet shares it
    MaxKeys,     \* bound: accounts taken from one wallet's key chain
    MaxRuns,     \* bound: how often each operator runs setup
    EnvIds,      \* [Operators -> [Programs -> Accounts \cup {None}]]: overrides
    None,        \* nothing there: no file, no data, no id
    Torn         \* a record file that was truncated and not yet written

ASSUME BoundAssumption == MaxKeys \in Nat /\ MaxRuns \in Nat

Programs == {"merkle", "registration"}

\* An account of a wallet's key chain, which is derived from the seed: a run
\* that lost its place in it, or a copy of the wallet, derives it again.
Accounts == {Seed[o] : o \in Operators} \X (1 .. MaxKeys)

RecordFile == [merkle : Accounts, registration : Accounts]
ConfigState == [merkle : Accounts, treasury : Accounts]

\* Overrides name accounts; the empty values are none of what they stand in for.
ASSUME NamesAssumption ==
    /\ EnvIds \in [Operators -> [Programs -> Accounts \cup {None}]]
    /\ None \notin Accounts \cup Programs \cup ConfigState \cup RecordFile \cup {Torn}
    /\ Torn \notin RecordFile

VARIABLES
    header,     \* account -> the program its loader shard holds
    config,     \* registration program -> its config shard for this tree
    tree,       \* the <<registration, merkle>> pairs whose tree shard is initialized
    mempool,    \* transactions admitted and not yet run
    record,     \* operator -> its programs_<tree>.json
    wallet,     \* operator -> how much of its key chain the stored wallet holds
    pc,         \* operator -> where it is in run_setup
    local,      \* operator -> its place in the key chain, program ids and treasury
    runs        \* operator -> how often it was started

chain == <<header, config, tree>>
vars == <<header, config, tree, mempool, record, wallet, pc, local, runs>>

Idle == {"off", "panicked", "initialized", "already"}

NoLocals == [key |-> 0, merkle |-> None, registration |-> None, treasury |-> None]

Init ==
    /\ header = [a \in Accounts |-> None]
    /\ config = [a \in Accounts |-> None]
    /\ tree = {}
    /\ mempool = {}
    /\ record = [o \in Operators |-> None]
    /\ wallet = [o \in Operators |-> 0]
    /\ pc = [o \in Operators |-> "off"]
    /\ local = [o \in Operators |-> NoLocals]
    /\ runs = [o \in Operators |-> 0]

Goto(o, label) == pc' = [pc EXCEPT ![o] = label]

-----------------------------------------------------------------------------
(***************************************************************************)
(* The programs.                                                           *)
(***************************************************************************)

\* The environment first, then the record, field by field.
known_program_ids(o, program) ==
    IF EnvIds[o][program] # None THEN EnvIds[o][program]
    ELSE IF record[o] = None THEN None ELSE record[o][program]

\* The wallet is loaded and the record read; one that does not decode ends the run.
Start(o) ==
    /\ pc[o] \in Idle
    /\ runs[o] < MaxRuns
    /\ runs' = [runs EXCEPT ![o] = @ + 1]
    /\ IF record[o] = Torn
       THEN Goto(o, "panicked") /\ local' = [local EXCEPT ![o] = NoLocals]
       ELSE /\ Goto(o, "merkle")
            /\ local' = [local EXCEPT ![o] =
                 [key |-> wallet[o],
                  merkle |-> known_program_ids(o, "merkle"),
                  registration |-> known_program_ids(o, "registration"),
                  treasury |-> None]]
    /\ UNCHANGED <<chain, mempool, record, wallet>>

After(program) == IF program = "merkle" THEN "registration" ELSE "truncate"

\* The account's loader shard holds a header for this image; an empty shard,
\* another image and foreign bytes all fail.
header_deployed(account, program) == header[account] = program

\* Mutation: a known id is taken as deployed.
ensure_program_trusting(o, program) ==
    /\ pc[o] = program
    /\ local[o][program] # None
    /\ Goto(o, After(program))
    /\ UNCHANGED <<chain, mempool, record, wallet, local, runs>>

\* A known program must carry the local binary's image id.
ensure_program(o, program) ==
    /\ pc[o] = program
    /\ local[o][program] # None
    /\ Goto(o, IF header_deployed(local[o][program], program) THEN After(program)
               ELSE "panicked")
    /\ UNCHANGED <<chain, mempool, record, wallet, local, runs>>

Deploying(program) == IF program = "merkle" THEN "deploy_merkle" ELSE "deploy_registration"

\* An unknown one is deployed to the next account of the key chain that is
\* empty when it is read; the wallet is stored before the upload starts.
fresh_loader_account(o, program, k) ==
    /\ pc[o] = program
    /\ local[o][program] = None
    /\ k > local[o].key
    /\ header[<<Seed[o], k>>] = None
    /\ \A j \in (local[o].key + 1) .. (k - 1) : header[<<Seed[o], j>>] # None
    /\ local' = [local EXCEPT ![o] = [@ EXCEPT ![program] = <<Seed[o], k>>, !["key"] = k]]
    /\ wallet' = [wallet EXCEPT ![o] = k]
    /\ Goto(o, Deploying(program))
    /\ UNCHANGED <<chain, mempool, record, runs>>

\* The loader refuses an account that somebody has written meanwhile.
deploy_program(o, program) ==
    /\ pc[o] = Deploying(program)
    /\ LET account == local[o][program]
       IN  IF header[account] = None
           THEN header' = [header EXCEPT ![account] = program] /\ Goto(o, After(program))
           ELSE UNCHANGED header /\ Goto(o, "panicked")
    /\ UNCHANGED <<config, tree, mempool, record, wallet, local, runs>>

\* The file is truncated, then written.
TruncateRecord(o) ==
    /\ pc[o] = "truncate"
    /\ record' = [record EXCEPT ![o] = Torn]
    /\ Goto(o, "save")
    /\ UNCHANGED <<chain, mempool, wallet, local, runs>>

save_program_ids(o) ==
    /\ pc[o] = "save"
    /\ record' = [record EXCEPT ![o] = [merkle |-> local[o].merkle,
                                        registration |-> local[o].registration]]
    /\ Goto(o, "check")
    /\ UNCHANGED <<chain, mempool, wallet, local, runs>>

-----------------------------------------------------------------------------
(***************************************************************************)
(* The registry.                                                           *)
(***************************************************************************)

\* Only the config shard is read.
is_initialized(o) ==
    /\ pc[o] = "check"
    /\ Goto(o, IF config[local[o].registration] # None THEN "already" ELSE "treasury")
    /\ UNCHANGED <<chain, mempool, record, wallet, local, runs>>

\* Mutation: the wallet is not stored before the treasury is used.
CreateTreasury_unstored(o) ==
    LET k == local[o].key + 1
    IN  /\ pc[o] = "treasury"
        /\ k <= MaxKeys
        /\ local' = [local EXCEPT ![o].treasury = <<Seed[o], k>>, ![o].key = k]
        /\ Goto(o, "send_config")
        /\ UNCHANGED <<chain, mempool, record, wallet, runs>>

\* The next account of the key chain, stored before its id leaves the process.
CreateTreasury(o) ==
    LET k == local[o].key + 1
    IN  /\ pc[o] = "treasury"
        /\ k <= MaxKeys
        /\ local' = [local EXCEPT ![o].treasury = <<Seed[o], k>>, ![o].key = k]
        /\ wallet' = [wallet EXCEPT ![o] = k]
        /\ Goto(o, "send_config")
        /\ UNCHANGED <<chain, mempool, record, runs>>

\* Send one of the two transactions and wait for its shard.
send_init_tx(o, at, kind, waiting) ==
    /\ pc[o] = at
    /\ mempool' = mempool \cup {[kind |-> kind,
                                 registration |-> local[o].registration,
                                 merkle |-> local[o].merkle,
                                 treasury |-> local[o].treasury]}
    /\ Goto(o, waiting)
    /\ UNCHANGED <<chain, record, wallet, local, runs>>

SendInitialize(o) == send_init_tx(o, "send_config", "Initialize", "confirm_config")
SendInitializeMerkleTree(o) ==
    send_init_tx(o, "send_tree", "InitializeMerkleTree", "confirm_tree")

\* What the wait looks for: any data in the shard.
landed(o) ==
    IF pc[o] = "confirm_config"
    THEN config[local[o].registration] # None
    ELSE <<local[o].registration, local[o].merkle>> \in tree

Confirming(o) == pc[o] \in {"confirm_config", "confirm_tree"}
Confirmed(o) == IF pc[o] = "confirm_config" THEN "send_tree" ELSE "initialized"

\* Mutation: polling never gives up.
confirm_effect_forever(o) ==
    /\ Confirming(o)
    /\ landed(o)
    /\ Goto(o, Confirmed(o))
    /\ UNCHANGED <<chain, mempool, record, wallet, local, runs>>

\* Data in the shard ends the wait; a transaction that is in a block without
\* any, or attempts that run out, end the run.
confirm_effect(o) ==
    /\ Confirming(o)
    /\ \/ landed(o) /\ Goto(o, Confirmed(o))
       \/ ~landed(o) /\ Goto(o, "panicked")
    /\ UNCHANGED <<chain, mempool, record, wallet, local, runs>>

\* The process dies, or a failed send, read or fee check ends it.
Crash(o) ==
    /\ pc[o] \notin Idle
    /\ Goto(o, "off")
    /\ UNCHANGED <<chain, mempool, record, wallet, local, runs>>

-----------------------------------------------------------------------------
(***************************************************************************)
(* The chain, as Registry has it: the first Initialize of a registration   *)
(* program's config shard wins, and the tree is initialized by the merkle  *)
(* program that config names.                                              *)
(***************************************************************************)
Initialize(tx) ==
    /\ tx.kind = "Initialize"
    /\ config[tx.registration] = None
    /\ config' = [config EXCEPT ![tx.registration] =
                    [merkle |-> tx.merkle, treasury |-> tx.treasury]]
    /\ UNCHANGED tree

\* Mutation: the callee is not checked against the config.
InitializeMerkleTree_any_callee(tx) ==
    /\ tx.kind = "InitializeMerkleTree"
    /\ config[tx.registration] # None
    /\ <<tx.registration, tx.merkle>> \notin tree
    /\ tree' = tree \cup {<<tx.registration, tx.merkle>>}
    /\ UNCHANGED config

InitializeMerkleTree(tx) ==
    /\ tx.kind = "InitializeMerkleTree"
    /\ config[tx.registration] # None
    /\ config[tx.registration].merkle = tx.merkle
    /\ <<tx.registration, tx.merkle>> \notin tree
    /\ tree' = tree \cup {<<tx.registration, tx.merkle>>}
    /\ UNCHANGED config

RunTx(tx) ==
    /\ mempool' = mempool \ {tx}
    /\ Initialize(tx) \/ InitializeMerkleTree(tx)
    /\ UNCHANGED <<header, record, wallet, pc, local, runs>>

\* Refused, as a charged revert in a block or by being left out of it; or
\* lost by the sequencer.
DropTx(tx) ==
    /\ mempool' = mempool \ {tx}
    /\ UNCHANGED <<header, config, tree, record, wallet, pc, local, runs>>

Step(o) ==
    \/ \E p \in Programs : ensure_program(o, p) \/ deploy_program(o, p)
    \/ \E p \in Programs, k \in 1 .. MaxKeys : fresh_loader_account(o, p, k)
    \/ TruncateRecord(o)
    \/ save_program_ids(o)
    \/ is_initialized(o)
    \/ CreateTreasury(o)
    \/ SendInitialize(o)
    \/ SendInitializeMerkleTree(o)
    \/ confirm_effect(o)

Next ==
    \/ \E o \in Operators : Start(o) \/ Step(o) \/ Crash(o)
    \/ \E tx \in mempool : RunTx(tx) \/ DropTx(tx)

Spec == Init /\ [][Next]_vars

\* A running process is scheduled; nothing makes it start, crash or land.
FairSpec == Spec /\ \A o \in Operators : WF_vars(Step(o))

-----------------------------------------------------------------------------
(***************************************************************************)
(* Properties.                                                             *)
(***************************************************************************)

\* A readable record names two programs that are deployed under the right
\* images, whatever was interrupted before it was written.
RecordedProgramsDeployed ==
    \A o \in Operators : record[o] \notin {None, Torn} =>
        \A p \in Programs : header[record[o][p]] = p

\* The registry's revenue is never out of reach: the treasury a config names
\* is an account of a stored wallet, though the transaction that named it may
\* have been sent by a run that died long ago.
ConfigTreasuryStored ==
    \A a \in Accounts : config[a] # None =>
        \E o \in Operators : /\ Seed[o] = config[a].treasury[1]
                             /\ config[a].treasury[2] <= wallet[o]

\* A run that ends by initializing the registry leaves its config pointing at
\* its own merkle program, deployed, with the tree initialized there, however
\* many others were setting up the same registration program.
FinishedTreeIsConfigured ==
    \A o \in Operators : pc[o] = "initialized" =>
        LET l == local[o]
        IN  /\ header[l.merkle] = "merkle" /\ header[l.registration] = "registration"
            /\ config[l.registration] # None
            /\ config[l.registration].merkle = l.merkle
            /\ <<l.registration, l.merkle>> \in tree

\* A run of setup ends, with or without success: nothing waits for another
\* process or for a transaction that will never land.
SetupTerminates == \A o \in Operators : pc[o] \notin Idle ~> pc[o] \in Idle

\* run_setup "initialize[s] the registry for tree_id": whichever way it
\* returns, the registry is initialized, config and tree.
SetupLeavesLiveTree ==
    \A o \in Operators : pc[o] \in {"initialized", "already"} =>
        LET c == config[local[o].registration]
        IN  c # None /\ <<local[o].registration, c.merkle>> \in tree

\* confirm_effect: "Wait for tx `hash` to take effect [...] and fail loudly if
\* it never does": past the wait for Initialize, the config is the one that
\* this run's transaction wrote.
ConfirmedTxTookEffect ==
    \A o \in Operators : pc[o] \in {"send_tree", "confirm_tree", "initialized"} =>
        config[local[o].registration].treasury = local[o].treasury

=============================================================================
