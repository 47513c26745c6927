---------------------------- MODULE SetupProofs ----------------------------
(***************************************************************************)
(* Setup's safety properties for any number of operators, wallets, key     *)
(* chains, runs, crashes and overrides.                                    *)
(***************************************************************************)
EXTENDS Setup, TLAPS

-----------------------------------------------------------------------------
(***************************************************************************)
(* The inductive invariant.                                                *)
(***************************************************************************)

\* Where a run is when it has its merkle program, ...
HasTreasury == {"send_config", "confirm_config", "send_tree", "confirm_tree", "initialized"}
HasRegistration ==
    {"truncate", "save", "check", "treasury", "already"} \cup HasTreasury
HasMerkle == {"registration", "deploy_registration"} \cup HasRegistration
Labels == {"off", "panicked", "merkle", "deploy_merkle"} \cup HasMerkle

Maybe(S) == S \cup {None}

Locals == [key : 0 .. MaxKeys, merkle : Maybe(Accounts),
           registration : Maybe(Accounts), treasury : Maybe(Accounts)]

Tx == [kind : {"Initialize", "InitializeMerkleTree"},
       registration : Accounts, merkle : Accounts, treasury : Accounts]

TypeOK ==
    /\ header \in [Accounts -> Maybe(Programs)]
    /\ config \in [Accounts -> Maybe(ConfigState)]
    /\ tree \subseteq Accounts \X Accounts
    /\ mempool \subseteq Tx
    /\ record \in [Operators -> RecordFile \cup {None, Torn}]
    /\ wallet \in [Operators -> 0 .. MaxKeys]
    /\ pc \in [Operators -> Labels]
    /\ local \in [Operators -> Locals]

\* The account is one that a stored wallet holds the key of.
Stored(account) ==
    \E o \in Operators : Seed[o] = account[1] /\ account[2] <= wallet[o]

\* What a run knows at each of its steps.
RunOf(o) ==
    /\ pc[o] \notin Idle => local[o].key = wallet[o]
    /\ pc[o] = "deploy_merkle" => local[o].merkle # None
    /\ pc[o] = "deploy_registration" => local[o].registration # None
    /\ pc[o] \in HasMerkle =>
          local[o].merkle # None /\ header[local[o].merkle] = "merkle"
    /\ pc[o] \in HasRegistration =>
          local[o].registration # None /\ header[local[o].registration] = "registration"
    /\ pc[o] \in HasTreasury => local[o].treasury # None /\ Stored(local[o].treasury)
    /\ pc[o] = "initialized" => <<local[o].registration, local[o].merkle>> \in tree

RunInv == \A o \in Operators : RunOf(o)

\* What the chain holds, or may come to hold.
ChainInv ==
    /\ \A tx \in mempool : Stored(tx.treasury)
    /\ \A a \in Accounts : config[a] # None => Stored(config[a].treasury)
    /\ \A t \in tree : config[t[1]] # None /\ config[t[1]].merkle = t[2]

Inv == TypeOK /\ RunInv /\ ChainInv /\ RecordedProgramsDeployed

-----------------------------------------------------------------------------
(***************************************************************************)
(* What every step leaves alone.                                           *)
(***************************************************************************)

\* Headers, tree shards and stored wallets only ever gain.
Grows ==
    /\ \A a \in Accounts : header[a] # None => header'[a] = header[a]
    /\ tree \subseteq tree'
    /\ \A o \in Operators : wallet[o] <= wallet'[o]

\* A stored key stays stored.
LEMMA StoredStays ==
  ASSUME TypeOK, TypeOK', Grows, NEW a \in Accounts, Stored(a)
  PROVE  Stored(a)'
  <1>1. PICK o \in Operators : Seed[o] = a[1] /\ a[2] <= wallet[o]
    BY DEF Stored
  <1>2. wallet[o] \in Int /\ wallet'[o] \in Int /\ wallet[o] <= wallet'[o] /\ a[2] \in Int
    BY BoundAssumption DEF TypeOK, Grows, Accounts
  <1>3. a[2] <= wallet'[o]
    BY <1>1, <1>2
  <1>4. QED
    BY <1>1, <1>3 DEF Stored

\* A run is not disturbed by what others do meanwhile.
LEMMA RunStays ==
  ASSUME TypeOK, TypeOK', Grows, NEW o \in Operators, RunOf(o),
         pc'[o] = pc[o], local'[o] = local[o], wallet'[o] = wallet[o]
  PROVE  RunOf(o)'
  <1>1. local[o] \in Locals
    BY DEF TypeOK
  <1>2. /\ local[o].merkle # None => local[o].merkle \in Accounts
        /\ local[o].registration # None => local[o].registration \in Accounts
        /\ local[o].treasury # None => local[o].treasury \in Accounts
    BY <1>1 DEF Locals, Maybe
  <1>3. pc[o] \in HasTreasury => Stored(local[o].treasury)'
    BY <1>2, StoredStays DEF RunOf
  <1>4. "merkle" # None /\ "registration" # None
    BY NamesAssumption DEF Programs
  <1>5. QED
    BY <1>2, <1>3, <1>4 DEF RunOf, Grows

\* Nor is what the chain holds, when no transaction runs and none is sent.
LEMMA ChainStays ==
  ASSUME TypeOK, TypeOK', Grows, ChainInv,
         mempool' \subseteq mempool, UNCHANGED <<config, tree>>
  PROVE  ChainInv'
  <1>1. \A tx \in mempool : tx.treasury \in Accounts
    BY DEF TypeOK, Tx
  <1>2. \A a \in Accounts : config[a] # None => config[a].treasury \in Accounts
    BY DEF TypeOK, Maybe, ConfigState
  <1>3. QED
    BY <1>1, <1>2, StoredStays DEF ChainInv

\* A readable record keeps naming deployed programs.
LEMMA RecordStays ==
  ASSUME TypeOK, Grows, RecordedProgramsDeployed,
         \A o \in Operators :
            \/ record'[o] \in {record[o], None, Torn}
            \/ \A p \in Programs : header'[record'[o][p]] = p
  PROVE  RecordedProgramsDeployed'
  <1> SUFFICES ASSUME NEW o \in Operators, record'[o] = record[o],
                      record[o] \notin {None, Torn}, NEW p \in Programs
               PROVE  header'[record[o][p]] = p
    BY DEF RecordedProgramsDeployed
  <1>1. record[o] \in RecordFile
    BY DEF TypeOK
  <1>2. record[o][p] \in Accounts
    BY <1>1 DEF RecordFile, Programs
  <1>3. header[record[o][p]] = p /\ p # None
    BY NamesAssumption DEF RecordedProgramsDeployed
  <1>4. QED
    BY <1>2, <1>3 DEF Grows

\* What is left to show of a step of o's process.
LEMMA OperatorStep ==
  ASSUME Inv, TypeOK', Grows, ChainInv', RecordedProgramsDeployed',
         NEW o \in Operators, RunOf(o)',
         \A p \in Operators \ {o} : /\ pc'[p] = pc[p]
                                    /\ local'[p] = local[p]
                                    /\ wallet'[p] = wallet[p]
  PROVE  Inv'
  <1>1. \A p \in Operators \ {o} : RunOf(p)'
    BY RunStays DEF Inv, RunInv
  <1>2. QED
    BY <1>1 DEF Inv, RunInv

-----------------------------------------------------------------------------
(***************************************************************************)
(* The steps of a run.                                                     *)
(***************************************************************************)

LEMMA ProgramNames ==
  /\ None \notin Programs /\ None \notin Accounts /\ None # Torn
  /\ None \notin RecordFile /\ Torn \notin RecordFile /\ None \notin ConfigState
  BY NamesAssumption

\* known_program_ids yields an account or nothing.
LEMMA KnownIds ==
  ASSUME TypeOK, NEW o \in Operators, record[o] # Torn, NEW p \in Programs
  PROVE  known_program_ids(o, p) \in Maybe(Accounts)
  <1>1. EnvIds[o][p] \in Maybe(Accounts)
    BY NamesAssumption DEF Maybe
  <1>2. record[o] # None => record[o][p] \in Accounts
    BY DEF TypeOK, RecordFile, Programs
  <1>3. QED
    BY <1>1, <1>2 DEF known_program_ids, Maybe

LEMMA StartStep ==
  ASSUME Inv, NEW o \in Operators, Start(o)
  PROVE  Inv'
  <1> USE DEF Goto
  <1>1. TypeOK
    BY DEF Inv
  <1>2. /\ UNCHANGED <<header, config, tree, mempool, record, wallet>>
        /\ pc'[o] \in {"panicked", "merkle"}
        /\ pc'[o] = "merkle" => local'[o].key = wallet[o]
        /\ pc' \in [Operators -> Labels]
        /\ \A p \in Operators \ {o} : pc'[p] = pc[p] /\ local'[p] = local[p]
    BY <1>1 DEF Start, chain, TypeOK, Labels
  <1>3. local' \in [Operators -> Locals]
    <2>1. NoLocals \in Locals
      BY BoundAssumption DEF NoLocals, Locals, Maybe
    <2>2. record[o] # Torn =>
            [key |-> wallet[o],
             merkle |-> known_program_ids(o, "merkle"),
             registration |-> known_program_ids(o, "registration"),
             treasury |-> None] \in Locals
      BY <1>1, KnownIds DEF TypeOK, Locals, Maybe, Programs
    <2>3. QED
      BY <1>1, <2>1, <2>2 DEF Start, TypeOK
  <1>4. TypeOK'
    BY <1>1, <1>2, <1>3 DEF TypeOK
  <1>5. Grows
    BY <1>1, <1>2, BoundAssumption DEF Grows, TypeOK
  <1>6. ChainInv' /\ RecordedProgramsDeployed'
    BY <1>1, <1>2, <1>4, <1>5, ChainStays, RecordStays DEF Inv
  <1>7. RunOf(o)'
    BY <1>2 DEF RunOf, Idle, HasMerkle, HasRegistration, HasTreasury
  <1>8. QED
    BY <1>2, <1>4, <1>5, <1>6, <1>7, OperatorStep

\* ensure_program: a known program is used once its header was seen on chain.
LEMMA EnsureStep ==
  ASSUME Inv, NEW o \in Operators, NEW p \in Programs, ensure_program(o, p)
  PROVE  Inv'
  <1> USE DEF Goto
  <1>1. TypeOK /\ RunOf(o)
    BY DEF Inv, RunInv
  <1>2. /\ UNCHANGED <<header, config, tree, mempool, record, wallet, local>>
        /\ pc[o] = p /\ local[o][p] # None
        /\ pc'[o] \in {"panicked", After(p)}
        /\ pc'[o] = After(p) => header[local[o][p]] = p
        /\ pc' \in [Operators -> Labels]
        /\ \A q \in Operators \ {o} : pc'[q] = pc[q]
    BY <1>1 DEF ensure_program, header_deployed, chain, TypeOK, Labels, HasMerkle,
                HasRegistration, After
  <1>4. TypeOK'
    BY <1>1, <1>2 DEF TypeOK
  <1>5. Grows
    BY <1>1, <1>2, BoundAssumption DEF Grows, TypeOK
  <1>6. ChainInv' /\ RecordedProgramsDeployed'
    BY <1>1, <1>2, <1>4, <1>5, ChainStays, RecordStays DEF Inv
  <1>7. RunOf(o)'
    <2>1. CASE p = "merkle"
      BY <1>1, <1>2, <2>1 DEF RunOf, After, Idle, HasMerkle, HasRegistration, HasTreasury
    <2>2. CASE p = "registration"
      BY <1>1, <1>2, <2>2 DEF RunOf, After, Idle, HasMerkle, HasRegistration, HasTreasury
    <2>3. QED
      BY <2>1, <2>2 DEF Programs
  <1>8. QED
    BY <1>2, <1>4, <1>5, <1>6, <1>7, OperatorStep

\* fresh_loader_account: the new key is stored before it is used.
LEMMA FreshStep ==
  ASSUME Inv, NEW o \in Operators, NEW p \in Programs, NEW k \in 1 .. MaxKeys,
         fresh_loader_account(o, p, k)
  PROVE  Inv'
  <1> USE DEF Goto
  <1>1. TypeOK /\ RunOf(o) /\ local[o] \in Locals /\ MaxKeys \in Nat
    BY BoundAssumption DEF Inv, RunInv, TypeOK
  <1>2. /\ UNCHANGED <<header, config, tree, mempool, record>>
        /\ pc[o] = p /\ k > local[o].key
        /\ pc'[o] = Deploying(p)
        /\ pc' \in [Operators -> Labels]
        /\ wallet' = [wallet EXCEPT ![o] = k]
        /\ local' = [local EXCEPT ![o] = [@ EXCEPT ![p] = <<Seed[o], k>>, !["key"] = k]]
    BY <1>1 DEF fresh_loader_account, chain, TypeOK, Labels, HasMerkle, Deploying
  <1>3. \A q \in Operators \ {o} : pc'[q] = pc[q] /\ local'[q] = local[q] /\ wallet'[q] = wallet[q]
    BY <1>1 DEF fresh_loader_account, TypeOK
  <1>4. <<Seed[o], k>> \in Accounts
    BY DEF Accounts
  <1>5. /\ local'[o] \in Locals /\ local'[o].key = k /\ local'[o][p] = <<Seed[o], k>>
        /\ p = "registration" => local'[o].merkle = local[o].merkle
    <2>1. local'[o] = [local[o] EXCEPT ![p] = <<Seed[o], k>>, !["key"] = k]
      BY <1>1, <1>2 DEF TypeOK
    <2>2. CASE p = "merkle"
      BY <1>1, <1>4, <2>1, <2>2 DEF Locals, Maybe
    <2>3. CASE p = "registration"
      BY <1>1, <1>4, <2>1, <2>3 DEF Locals, Maybe
    <2>4. QED
      BY <2>2, <2>3 DEF Programs
  <1>6. TypeOK'
    BY <1>1, <1>2, <1>5 DEF TypeOK
  <1>7. wallet[o] = local[o].key
    BY <1>1, <1>2 DEF RunOf, Idle, Programs
  <1>8. Grows
    <2>1. wallet[o] <= wallet'[o]
      BY <1>1, <1>2, <1>7 DEF TypeOK, Locals
    <2>2. \A q \in Operators : wallet[q] <= wallet'[q]
      BY <1>1, <1>3, <2>1 DEF TypeOK
    <2>3. QED
      BY <1>2, <2>2 DEF Grows
  <1>9. ChainInv' /\ RecordedProgramsDeployed'
    BY <1>1, <1>2, <1>6, <1>8, ChainStays, RecordStays DEF Inv
  <1>10. RunOf(o)'
    <2>1. <<Seed[o], k>> # None /\ wallet'[o] = k
      BY <1>1, <1>2, <1>4, ProgramNames DEF TypeOK
    <2>2. CASE p = "merkle"
      BY <1>2, <1>5, <2>1, <2>2 DEF RunOf, Deploying, Idle, HasMerkle, HasRegistration, HasTreasury
    <2>3. CASE p = "registration"
      BY <1>1, <1>2, <1>5, <2>1, <2>3
         DEF RunOf, Deploying, Idle, HasMerkle, HasRegistration, HasTreasury
    <2>4. QED
      BY <2>2, <2>3 DEF Programs
  <1>11. QED
    BY <1>3, <1>6, <1>8, <1>9, <1>10, OperatorStep

\* deploy_program: the loader writes a header only where there is none.
LEMMA DeployStep ==
  ASSUME Inv, NEW o \in Operators, NEW p \in Programs, deploy_program(o, p)
  PROVE  Inv'
  <1> USE DEF Goto
  <1> DEFINE account == local[o][p]
  <1>1. TypeOK /\ RunOf(o) /\ local[o] \in Locals
    BY DEF Inv, RunInv, TypeOK
  <1>2. /\ UNCHANGED <<config, tree, mempool, record, wallet, local>>
        /\ pc[o] = Deploying(p)
        /\ pc'[o] \in {"panicked", After(p)}
        /\ pc' \in [Operators -> Labels]
        /\ \A q \in Operators \ {o} : pc'[q] = pc[q]
    BY <1>1 DEF deploy_program, TypeOK, Labels, HasMerkle, HasRegistration, After
  <1>3. account \in Accounts
    <2>1. CASE p = "merkle"
      BY <1>1, <1>2, <2>1 DEF RunOf, Deploying, Locals, Maybe
    <2>2. CASE p = "registration"
      BY <1>1, <1>2, <2>2 DEF RunOf, Deploying, Locals, Maybe
    <2>3. QED
      BY <2>1, <2>2 DEF Programs
  <1>4. \/ pc'[o] = "panicked" /\ header' = header
        \/ pc'[o] = After(p) /\ header[account] = None
             /\ header' = [header EXCEPT ![account] = p]
    BY <1>1 DEF deploy_program, TypeOK
  <1>5. header' \in [Accounts -> Maybe(Programs)]
    BY <1>1, <1>3, <1>4 DEF TypeOK, Maybe
  <1>6. TypeOK'
    BY <1>1, <1>2, <1>5 DEF TypeOK
  <1>7. Grows
    <2>1. \A a \in Accounts : header[a] # None => header'[a] = header[a]
      BY <1>1, <1>3, <1>4 DEF TypeOK
    <2>2. QED
      BY <1>1, <1>2, <2>1, BoundAssumption DEF Grows, TypeOK
  <1>8. ChainInv' /\ RecordedProgramsDeployed'
    BY <1>1, <1>2, <1>6, <1>7, ChainStays, RecordStays DEF Inv
  <1>9. pc'[o] = After(p) => header'[account] = p /\ account # None
    BY <1>1, <1>3, <1>4, ProgramNames DEF TypeOK, After
  <1>10. RunOf(o)'
    <2>1. CASE p = "merkle"
      BY <1>1, <1>2, <1>9, <2>1
         DEF RunOf, After, Deploying, Idle, HasMerkle, HasRegistration, HasTreasury
    <2>2. CASE p = "registration"
      <3>1. local[o].merkle \in Accounts /\ header[local[o].merkle] = "merkle"
        BY <1>1, <1>2, <2>2 DEF RunOf, Deploying, HasMerkle, Locals, Maybe
      <3>2. header'[local[o].merkle] = "merkle" /\ local[o].merkle # None
        BY <3>1, <1>7, ProgramNames DEF Grows, Programs
      <3>3. QED
        BY <1>1, <1>2, <1>9, <2>2, <3>2
           DEF RunOf, After, Deploying, Idle, HasMerkle, HasRegistration, HasTreasury
    <2>3. QED
      BY <2>1, <2>2 DEF Programs
  <1>11. QED
    BY <1>2, <1>6, <1>7, <1>8, <1>10, OperatorStep

\* The record is truncated, then written from what the run has verified.
LEMMA RecordStep ==
  ASSUME Inv, NEW o \in Operators, TruncateRecord(o) \/ save_program_ids(o)
  PROVE  Inv'
  <1> USE DEF Goto
  <1> DEFINE saved == [merkle |-> local[o].merkle, registration |-> local[o].registration]
  <1>1. TypeOK /\ RunOf(o) /\ local[o] \in Locals
    BY DEF Inv, RunInv, TypeOK
  <1>2. /\ UNCHANGED <<header, config, tree, mempool, wallet, local>>
        /\ pc[o] \in {"truncate", "save"} /\ pc'[o] \in {"save", "check"}
        /\ pc' \in [Operators -> Labels]
        /\ \A q \in Operators \ {o} : pc'[q] = pc[q]
    BY <1>1 DEF TruncateRecord, save_program_ids, chain, TypeOK, Labels, HasMerkle, HasRegistration
  <1>3. /\ saved \in RecordFile
        /\ header[local[o].merkle] = "merkle" /\ header[local[o].registration] = "registration"
    BY <1>1, <1>2 DEF RunOf, HasMerkle, HasRegistration, Locals, Maybe, RecordFile
  <1>4. record' \in [Operators -> RecordFile \cup {None, Torn}]
    BY <1>1, <1>3 DEF TruncateRecord, save_program_ids, TypeOK
  <1>5. TypeOK'
    BY <1>1, <1>2, <1>4 DEF TypeOK
  <1>6. Grows
    BY <1>1, <1>2, BoundAssumption DEF Grows, TypeOK
  <1>7. ChainInv'
    BY <1>1, <1>2, <1>5, <1>6, ChainStays DEF Inv
  <1>8. RecordedProgramsDeployed'
    <2>1. \/ record'[o] = Torn
          \/ \A p \in Programs : header'[record'[o][p]] = p
      BY <1>1, <1>2, <1>3 DEF TruncateRecord, save_program_ids, TypeOK, Programs
    <2>2. \A q \in Operators \ {o} : record'[q] = record[q]
      BY <1>1 DEF TruncateRecord, save_program_ids, TypeOK
    <2>3. QED
      BY <1>1, <1>6, <2>1, <2>2, RecordStays DEF Inv
  <1>9. RunOf(o)'
    BY <1>1, <1>2 DEF RunOf, Idle, HasMerkle, HasRegistration, HasTreasury
  <1>10. QED
    BY <1>2, <1>5, <1>6, <1>7, <1>8, <1>9, OperatorStep

\* CreateTreasury: the treasury's key is stored before its id leaves the process.
LEMMA TreasuryStep ==
  ASSUME Inv, NEW o \in Operators, CreateTreasury(o)
  PROVE  Inv'
  <1> USE DEF Goto
  <1> DEFINE k == local[o].key + 1
  <1>1. TypeOK /\ RunOf(o) /\ local[o] \in Locals /\ MaxKeys \in Nat
    BY BoundAssumption DEF Inv, RunInv, TypeOK
  <1>2. /\ UNCHANGED <<header, config, tree, mempool, record>>
        /\ pc[o] = "treasury" /\ pc'[o] = "send_config" /\ k <= MaxKeys
        /\ pc' \in [Operators -> Labels]
        /\ wallet' = [wallet EXCEPT ![o] = k]
        /\ local' = [local EXCEPT ![o].treasury = <<Seed[o], k>>, ![o].key = k]
    BY <1>1 DEF CreateTreasury, chain, TypeOK, Labels, HasMerkle, HasRegistration, HasTreasury
  <1>3. k \in 1 .. MaxKeys
    BY <1>1, <1>2 DEF Locals
  <1>4. <<Seed[o], k>> \in Accounts /\ <<Seed[o], k>> # None
    BY <1>3, ProgramNames DEF Accounts
  <1>5. /\ local'[o] \in Locals /\ local'[o].key = k /\ local'[o].treasury = <<Seed[o], k>>
        /\ local'[o].merkle = local[o].merkle /\ local'[o].registration = local[o].registration
    BY <1>1, <1>2, <1>3, <1>4 DEF TypeOK, Locals, Maybe
  <1>6. \A q \in Operators \ {o} : pc'[q] = pc[q] /\ local'[q] = local[q] /\ wallet'[q] = wallet[q]
    BY <1>1 DEF CreateTreasury, TypeOK
  <1>7. local' \in [Operators -> Locals] /\ wallet' \in [Operators -> 0 .. MaxKeys]
    BY <1>1, <1>2, <1>3, <1>5, <1>6 DEF TypeOK
  <1>8. TypeOK'
    BY <1>1, <1>2, <1>7 DEF TypeOK
  <1>9. Grows
    <2>1. wallet[o] = local[o].key /\ wallet'[o] = k /\ wallet[o] \in Int
      BY <1>1, <1>2 DEF RunOf, Idle, TypeOK
    <2>2. \A q \in Operators : wallet[q] <= wallet'[q]
      BY <1>1, <1>6, <2>1 DEF TypeOK
    <2>3. QED
      BY <1>2, <2>2 DEF Grows
  <1>10. ChainInv' /\ RecordedProgramsDeployed'
    BY <1>1, <1>2, <1>8, <1>9, ChainStays, RecordStays DEF Inv
  <1>11. wallet'[o] = k /\ Stored(local[o].treasury)'
    BY <1>1, <1>2, <1>3, <1>5 DEF Stored, TypeOK
  <1>12. RunOf(o)'
    BY <1>1, <1>2, <1>4, <1>5, <1>11 DEF RunOf, Idle, HasMerkle, HasRegistration, HasTreasury
  <1>13. QED
    BY <1>6, <1>8, <1>9, <1>10, <1>12, OperatorStep

\* send_init_tx: whatever is sent names a stored treasury.
LEMMA SendStep ==
  ASSUME Inv, NEW o \in Operators, SendInitialize(o) \/ SendInitializeMerkleTree(o)
  PROVE  Inv'
  <1> USE DEF Goto
  <1> DEFINE sent(kind) == [kind |-> kind, registration |-> local[o].registration,
                            merkle |-> local[o].merkle, treasury |-> local[o].treasury]
  <1>1. TypeOK /\ RunOf(o) /\ local[o] \in Locals
    BY DEF Inv, RunInv, TypeOK
  <1>2. /\ UNCHANGED <<header, config, tree, record, wallet, local>>
        /\ pc[o] \in {"send_config", "send_tree"}
        /\ pc'[o] \in {"confirm_config", "confirm_tree"}
        /\ pc' \in [Operators -> Labels]
        /\ \A q \in Operators \ {o} : pc'[q] = pc[q]
    BY <1>1 DEF SendInitialize, SendInitializeMerkleTree, send_init_tx, chain, TypeOK,
                Labels, HasMerkle, HasRegistration, HasTreasury
  <1>3. PICK kind \in {"Initialize", "InitializeMerkleTree"} : mempool' = mempool \cup {sent(kind)}
    BY DEF SendInitialize, SendInitializeMerkleTree, send_init_tx
  <1>4. sent(kind) \in Tx /\ Stored(sent(kind).treasury)
    BY <1>1, <1>2 DEF RunOf, HasMerkle, HasRegistration, HasTreasury, Locals, Maybe, Tx
  <1>5. TypeOK'
    BY <1>1, <1>2, <1>3, <1>4 DEF TypeOK
  <1>6. Grows
    BY <1>1, <1>2, BoundAssumption DEF Grows, TypeOK
  <1>7. ChainInv'
    <2>1. \A a : Stored(a)' = Stored(a)
      BY <1>2 DEF Stored
    <2>2. \A tx \in mempool' : Stored(tx.treasury)
      BY <1>3, <1>4 DEF Inv, ChainInv
    <2>3. QED
      BY <1>2, <2>1, <2>2 DEF Inv, ChainInv
  <1>8. RecordedProgramsDeployed'
    BY <1>1, <1>2, <1>6, RecordStays DEF Inv
  <1>9. RunOf(o)'
    BY <1>1, <1>2 DEF RunOf, Idle, HasMerkle, HasRegistration, HasTreasury, Stored
  <1>10. QED
    BY <1>2, <1>5, <1>6, <1>7, <1>8, <1>9, OperatorStep

\* The steps that only look: is_initialized, a poll, and the end of the process.
LEMMA LookStep ==
  ASSUME Inv, NEW o \in Operators, is_initialized(o) \/ confirm_effect(o) \/ Crash(o)
  PROVE  Inv'
  <1> USE DEF Goto
  <1>1. TypeOK /\ RunOf(o)
    BY DEF Inv, RunInv
  <1>2. /\ UNCHANGED <<header, config, tree, mempool, record, wallet, local>>
        /\ \A q \in Operators \ {o} : pc'[q] = pc[q]
    BY <1>1 DEF is_initialized, confirm_effect, Crash, chain, TypeOK
  <1>3. \/ pc[o] = "check" /\ pc'[o] \in {"already", "treasury"}
        \/ pc[o] = "confirm_config" /\ pc'[o] = "send_tree"
        \/ /\ pc[o] = "confirm_tree" /\ pc'[o] = "initialized"
           /\ <<local[o].registration, local[o].merkle>> \in tree
        \/ pc'[o] \in {"off", "panicked"}
    BY <1>1 DEF is_initialized, confirm_effect, Crash, TypeOK, Confirming, Confirmed, landed
  <1>4. pc' \in [Operators -> Labels]
    BY <1>1, <1>3 DEF is_initialized, confirm_effect, Crash, TypeOK,
                      Labels, HasMerkle, HasRegistration, HasTreasury
  <1>5. TypeOK'
    BY <1>1, <1>2, <1>4 DEF TypeOK
  <1>6. Grows
    BY <1>1, <1>2, BoundAssumption DEF Grows, TypeOK
  <1>7. ChainInv' /\ RecordedProgramsDeployed'
    BY <1>1, <1>2, <1>5, <1>6, ChainStays, RecordStays DEF Inv
  <1>8. RunOf(o)'
    BY <1>1, <1>2, <1>3 DEF RunOf, Idle, HasMerkle, HasRegistration, HasTreasury, Stored
  <1>9. QED
    BY <1>2, <1>5, <1>6, <1>7, <1>8, OperatorStep

-----------------------------------------------------------------------------
(***************************************************************************)
(* The chain.                                                              *)
(***************************************************************************)

\* A transaction runs, perhaps long after its sender is gone, or is dropped.
LEMMA TxStep ==
  ASSUME Inv, NEW tx \in mempool, RunTx(tx) \/ DropTx(tx)
  PROVE  Inv'
  <1>1. TypeOK /\ tx \in Tx
    BY DEF Inv, TypeOK
  <1>2. /\ UNCHANGED <<header, record, wallet, pc, local>>
        /\ mempool' \subseteq mempool
    BY DEF RunTx, DropTx
  <1>3. \/ UNCHANGED <<config, tree>>
        \/ /\ config[tx.registration] = None
           /\ config' = [config EXCEPT ![tx.registration] =
                           [merkle |-> tx.merkle, treasury |-> tx.treasury]]
           /\ tree' = tree
        \/ /\ config[tx.registration] # None
           /\ config[tx.registration].merkle = tx.merkle
           /\ tree' = tree \cup {<<tx.registration, tx.merkle>>}
           /\ config' = config
    BY DEF RunTx, DropTx, Initialize, InitializeMerkleTree
  <1>4. TypeOK'
    <2>1. config' \in [Accounts -> Maybe(ConfigState)]
      BY <1>1, <1>3 DEF TypeOK, Tx, Maybe, ConfigState
    <2>2. tree' \subseteq Accounts \X Accounts
      BY <1>1, <1>3 DEF TypeOK, Tx
    <2>3. QED
      BY <1>1, <1>2, <2>1, <2>2 DEF TypeOK
  <1>5. Grows
    BY <1>1, <1>2, <1>3, BoundAssumption DEF Grows, TypeOK
  <1>6. \A a : Stored(a)' = Stored(a)
    BY <1>2 DEF Stored
  <1>7. ChainInv'
    <2>1. (\A t \in mempool : Stored(t.treasury))'
      BY <1>2, <1>6 DEF Inv, ChainInv
    <2>2. (\A a \in Accounts : config[a] # None => Stored(config[a].treasury))'
      <3> SUFFICES ASSUME NEW a \in Accounts, config'[a] # None
                   PROVE  Stored(config[a].treasury)'
        OBVIOUS
      <3>1. CASE config'[a] = config[a]
        BY <1>2, <3>1 DEF Inv, ChainInv, Stored
      <3>2. CASE config'[a] = [merkle |-> tx.merkle, treasury |-> tx.treasury]
        BY <1>2, <3>2 DEF Inv, ChainInv, Stored
      <3>3. QED
        BY <1>1, <1>3, <3>1, <3>2 DEF TypeOK, Tx
    <2>3. ASSUME NEW t \in tree' PROVE config'[t[1]] # None /\ config'[t[1]].merkle = t[2]
      <3>1. t \in Accounts \X Accounts
        BY <1>4 DEF TypeOK
      <3>2. CASE t \in tree
        BY <1>1, <1>3, <3>1, <3>2 DEF Inv, ChainInv, TypeOK, Tx
      <3>3. CASE t \notin tree
        BY <1>1, <1>3, <3>1, <3>3 DEF TypeOK, Tx
      <3>4. QED
        BY <3>2, <3>3
    <2>4. QED
      BY <2>1, <2>2, <2>3 DEF ChainInv
  <1>8. RecordedProgramsDeployed'
    BY <1>1, <1>2, <1>5, RecordStays DEF Inv
  <1>9. RunInv'
    BY <1>1, <1>2, <1>4, <1>5, RunStays DEF Inv, RunInv
  <1>10. QED
    BY <1>4, <1>7, <1>8, <1>9 DEF Inv

-----------------------------------------------------------------------------

LEMMA InitInv == Init => Inv
  <1> SUFFICES ASSUME Init PROVE Inv
    OBVIOUS
  <1>1. TypeOK
    BY BoundAssumption DEF Init, TypeOK, Maybe, NoLocals, Locals, Labels
  <1>2. RunInv /\ ChainInv /\ RecordedProgramsDeployed
    BY DEF Init, RunInv, RunOf, ChainInv, RecordedProgramsDeployed, Idle,
           HasMerkle, HasRegistration, HasTreasury
  <1>3. QED
    BY <1>1, <1>2 DEF Inv

LEMMA StepInv == Inv /\ [Next]_vars => Inv'
  <1> SUFFICES ASSUME Inv, [Next]_vars PROVE Inv'
    OBVIOUS
  <1>1. ASSUME NEW o \in Operators, Step(o) PROVE Inv'
    BY <1>1, EnsureStep, FreshStep, DeployStep, RecordStep, TreasuryStep, SendStep, LookStep
       DEF Step
  <1>2. ASSUME UNCHANGED vars PROVE Inv'
    BY <1>2 DEF vars, Inv, TypeOK, RunInv, RunOf, Stored, ChainInv, RecordedProgramsDeployed
  <1>3. QED
    BY <1>1, <1>2, StartStep, LookStep, TxStep DEF Next

\* The inductive invariant holds in every reachable state.
THEOREM Invariance == Spec => []Inv
  BY InitInv, StepInv, PTL DEF Spec

\* save_program_ids: a record that can be read names two deployed programs of
\* the right images, after any crashes, for any number of operators.
THEOREM RecordCorrect == Spec => []RecordedProgramsDeployed
  <1>1. Inv => RecordedProgramsDeployed
    BY DEF Inv
  <1>2. QED
    BY <1>1, Invariance, PTL

\* CreateTreasury stores the wallet before Initialize is sent, so the treasury
\* of every config ever written can be spent from.
THEOREM TreasuryCorrect == Spec => []ConfigTreasuryStored
  <1>1. Inv => ConfigTreasuryStored
    BY DEF Inv, ChainInv, ConfigTreasuryStored, Stored
  <1>2. QED
    BY <1>1, Invariance, PTL

\* A run that returns "initialized" leaves config, tree and programs that fit
\* together, although the waits that got it there accept anybody's data.
THEOREM FinishedCorrect == Spec => []FinishedTreeIsConfigured
  <1>1. Inv => FinishedTreeIsConfigured
    <2> SUFFICES ASSUME Inv, NEW o \in Operators, pc[o] = "initialized"
                 PROVE  /\ header[local[o].merkle] = "merkle"
                        /\ header[local[o].registration] = "registration"
                        /\ config[local[o].registration] # None
                        /\ config[local[o].registration].merkle = local[o].merkle
                        /\ <<local[o].registration, local[o].merkle>> \in tree
      BY DEF FinishedTreeIsConfigured
    <2>1. RunOf(o)
      BY DEF Inv, RunInv
    <2>2. <<local[o].registration, local[o].merkle>> \in tree
      BY <2>1 DEF RunOf
    <2>3. /\ config[local[o].registration] # None
          /\ config[local[o].registration].merkle = local[o].merkle
      BY <2>2 DEF Inv, ChainInv
    <2>4. QED
      BY <2>1, <2>2, <2>3 DEF RunOf, HasMerkle, HasRegistration, HasTreasury
  <1>2. QED
    BY <1>1, Invariance, PTL

=============================================================================
