---------------------------- MODULE TxExecProofs ----------------------------
(***************************************************************************)
(* The executor, for any number of registries, programs, trees, payers and *)
(* commitments: a transaction keeps to its own registry, hands the tree's  *)
(* seed only to the configured merkle program, pays what it sells, and     *)
(* takes effect as one step of Registry, whose theorems hold of it.        *)
(***************************************************************************)
EXTENDS TxExec, FiniteSetTheorems, TLAPS

-----------------------------------------------------------------------------
(***************************************************************************)
(* Jobs: what can be submitted, a transaction and its plan.                *)
(***************************************************************************)
InitializeJobs ==
    {<<Tx("Initialize", g[1], g[2]), InitializePlan(g[2], d, ConfigShard(g))>> :
       g \in Registries,
       d \in {dep \in Deployments : dep.max_total_rate_limit > 0 /\ dep.active_duration_sec > 0}}

InitializeMerkleTreeJobs ==
    {<<Tx("InitializeMerkleTree", g[1], g[2]),
       InitializeMerkleTreePlan(g[1], g[2], m, ConfigShard(g), TreeShard(g, m))>> :
       g \in Registries, m \in MerklePrograms}

RegisterJobs ==
    {<<RegisterTx(g[1], g[2], c, rate, claim, now, payer),
       RegisterPlan(g[1], g[2], c, rate, claim, now, payer, ConfigShard(g),
                    TreeShard(g, claim.merkle_program_id), MemberShard(g, c))>> :
       g \in Registries, c \in Commitments,
       rate \in {r \in RateLimits : validate_rate_limit(r)},
       claim \in Deployments, now \in Instants, payer \in Payers}

SlashJobs ==
    {<<MemberTx("Slash", g[1], g[2], c, rate, 0),
       SlashPlan(g[1], g[2], c, rate, m, i, ConfigShard(g), TreeShard(g, m), MemberShard(g, c))>> :
       g \in Registries, c \in Commitments, rate \in RateLimits,
       m \in MerklePrograms, i \in Indices}

ExtendJobs ==
    {<<ExtendTx(g[1], g[2], c, rate, claim, now, payer),
       ExtendPlan(g[2], rate, claim, now, payer, ConfigShard(g), MemberShard(g, c))>> :
       g \in Registries, c \in Commitments, rate \in RateLimits,
       claim \in Deployments, now \in Instants, payer \in Payers}

EraseJobs ==
    {<<MemberTx("Erase", g[1], g[2], c, rate, now),
       ErasePlan(g[1], g[2], c, rate, m, i, now, ConfigShard(g), TreeShard(g, m),
                 MemberShard(g, c))>> :
       g \in Registries, c \in Commitments, rate \in RateLimits,
       m \in MerklePrograms, i \in Indices, now \in Instants}

ForeignJobs ==
    {<<Tx("Foreign", Foreign, g[2]),
       <<merkle_call(Foreign, m, TreeShard(g, m), g[2], ix)>>>> :
       g \in Registries, m \in MerklePrograms, ix \in MerkleInstructions}

Jobs == InitializeJobs \cup InitializeMerkleTreeJobs \cup RegisterJobs \cup SlashJobs
          \cup ExtendJobs \cup EraseJobs \cup ForeignJobs

-----------------------------------------------------------------------------
(***************************************************************************)
(* The inductive invariant.                                                *)
(***************************************************************************)

\* The shards of a registry hold nothing or what they should.
RegistryTyped(data, g) ==
    /\ data[ConfigShard(g)] \in ConfigState(g[2]) \cup {Empty}
    /\ \A c \in Commitments : data[MemberShard(g, c)] \in MembershipState(c) \cup {Empty}
    /\ \A m \in MerklePrograms : data[TreeShard(g, m)] \in Tree \cup {Empty}

WellTyped(data) ==
    /\ data = [s \in Selectors |-> data[s]]
    /\ \A g \in Registries : RegistryTyped(data, g)
    /\ \A a \in Payers \cup Treasuries : data[native_balance(a)] \in Nat

\* The shards an item of a plan is about, ...
Touched(item) ==
    IF item.kind = "transfer" THEN {native_balance(item.from), native_balance(item.to)}
                              ELSE {item.selector}

\* ... the effect of a merkle call, ...
Called(item) == Effect(item.selector, item.ix)

\* ... and what has happened to a shard whose item is done.
Applied(e, pre, post) == apply(e, pre) # Refused /\ post = apply(e, pre)

Achieved(item, pre, post) ==
    /\ item.kind = "effect" => Applied(item.effect, pre[item.selector], post[item.selector])
    /\ item.kind = "call" => /\ merkle_plan(item)
                             /\ Applied(item.ix, pre[item.selector], post[item.selector])
    /\ item.kind = "transfer" =>
          /\ item.amount <= pre[native_balance(item.from)]
          /\ post[native_balance(item.from)] = pre[native_balance(item.from)] - item.amount
          /\ post[native_balance(item.to)] = pre[native_balance(item.to)] + item.amount

Items(plan) == LET all == {plan[i] : i \in 1 .. Len(plan)}
               IN  all \cup {Called(item) : item \in {x \in all : x.kind = "call"}}

\* The queue is what is left of the plan, its first item perhaps a call that
\* has been planned already; the rest is done, and nothing else is.
InProgress(plan) ==
    LET n == Len(plan) - Len(todo)
    IN  /\ todo \in Seq(Items(plan))
        /\ Len(todo) <= Len(plan)
        /\ \A i \in 1 .. Len(todo) :
              \/ todo[i] = plan[n + i]
              \/ /\ i = 1
                 /\ plan[n + 1].kind = "call" /\ merkle_plan(plan[n + 1])
                 /\ todo[1] = Called(plan[n + 1])
        /\ \A i \in 1 .. n : Achieved(plan[i], shards, work)
        /\ \A s \in Selectors : (\A i \in 1 .. n : s \notin Touched(plan[i])) => work[s] = shards[s]

TypeInv ==
    /\ WellTyped(shards)
    /\ work = [s \in Selectors |-> work[s]]
    /\ revealed \subseteq Secrets
    /\ \A g \in Registries : ledger[g].paid \in [Payers \cup Treasuries -> Nat]

JobInv ==
    IF tx = None THEN work = shards /\ todo = <<>>
    ELSE /\ \E job \in Jobs : tx = job[1] /\ InProgress(job[2])
         /\ tx.op = "Slash" => \E s \in revealed : hash_single[s] = tx.id_commitment

\* What a payer has spent in one registry, it no longer has.
SpentInv ==
    \A p \in Payers :
        shards[native_balance(p)] + ledger[Home].paid[p] <= InitialBalance[p]

Inv == TypeInv /\ JobInv /\ SpentInv

-----------------------------------------------------------------------------
(***************************************************************************)
(* Accounts: no two shards of a registry, or of two registries, are one.   *)
(***************************************************************************)
LEMMA ConfigSeed ==
  ASSUME NEW t, NEW u
  PROVE  config_seed(t) = config_seed(u) => t = u
  BY DEF config_seed, combine_seeds, label_seed

LEMMA MainSeed ==
  ASSUME NEW t, NEW u
  PROVE  /\ main_seed(t) = main_seed(u) => t = u
         /\ main_seed(t) # config_seed(u)
  BY DEF main_seed, config_seed, combine_seeds, label_seed

LEMMA MembershipSeed ==
  ASSUME NEW t, NEW u, NEW c, NEW d
  PROVE  /\ membership_seed(t, c) = membership_seed(u, d) => t = u /\ c = d
         /\ membership_seed(t, c) # config_seed(u)
         /\ membership_seed(t, c) # main_seed(u)
  BY DEF membership_seed, main_seed, config_seed, combine_seeds, label_seed

LEMMA Derivation ==
  ASSUME NEW p, NEW q, NEW s, NEW r, NEW x, NEW y
  PROVE  <<for_public_pda(p, s), x>> = <<for_public_pda(q, r), y>> => p = q /\ s = r /\ x = y
  BY DEF for_public_pda

LEMMA RegistryPair ==
  ASSUME NEW g \in Registries
  PROVE  /\ g = <<g[1], g[2]>> /\ g[1] \in RegistrationPrograms /\ g[2] \in TreeIds
         /\ g[1] # Foreign
  BY RegistriesAssumption

LEMMA SamePair ==
  ASSUME NEW g \in Registries, NEW h \in Registries, g[1] = h[1], g[2] = h[2]
  PROVE  g = h
  BY RegistryPair

LEMMA ShardsNamed ==
  ASSUME NEW g \in Registries
  PROVE  /\ ConfigShard(g) \in PdaShards
         /\ \A c \in Commitments : MemberShard(g, c) \in PdaShards
         /\ \A m \in MerklePrograms : TreeShard(g, m) \in PdaShards
  <1>1. g[1] \in RegistrationPrograms /\ g[2] \in TreeIds
    BY RegistryPair
  <1>2. /\ config_seed(g[2]) \in Seeds /\ main_seed(g[2]) \in Seeds
        /\ \A c \in Commitments : membership_seed(g[2], c) \in Seeds
    BY <1>1 DEF Seeds
  <1>3. g[1] \in Programs /\ \A m \in MerklePrograms : m \in Programs
    BY <1>1 DEF Programs
  <1>4. QED
    BY <1>1, <1>2, <1>3 DEF PdaShards, ConfigShard, MemberShard, TreeShard

\* A PDA's shard is the registration or the merkle program's, never the clock
\* or a balance.
LEMMA OtherShards ==
  /\ clock_shard \in Selectors
  /\ \A a \in Payers \cup Treasuries : native_balance(a) \in Selectors
  /\ \A a : native_balance(a) # clock_shard
  /\ \A s \in PdaShards : /\ s \in Selectors /\ s # clock_shard
                          /\ \A a : s # native_balance(a)
  /\ \A a, b : native_balance(a) = native_balance(b) => a = b
  <1>1. ASSUME NEW s \in PdaShards PROVE s[2] \in Programs
    BY <1>1 DEF PdaShards
  <1>2. clock_shard[2] = ClockProgram /\ \A a : native_balance(a)[2] = NATIVE_TOKEN_PROGRAM_ID
    BY DEF clock_shard, native_balance
  <1>3. /\ ClockProgram \notin Programs /\ NATIVE_TOKEN_PROGRAM_ID \notin Programs
        /\ ClockProgram # NATIVE_TOKEN_PROGRAM_ID
    BY NamesAssumption DEF Programs
  <1>4. \A a, b : native_balance(a) = native_balance(b) => a = b
    BY DEF native_balance
  <1>5. \A s \in PdaShards : s # clock_shard /\ \A a : s # native_balance(a)
    BY <1>1, <1>2, <1>3
  <1>6. \A a : native_balance(a) # clock_shard
    BY <1>2, <1>3
  <1>7. QED
    BY <1>4, <1>5, <1>6 DEF Selectors

LEMMA ShardsApart ==
  ASSUME NEW g \in Registries, NEW h \in Registries
  PROVE  /\ ConfigShard(g) = ConfigShard(h) => g = h
         /\ \A c, d \in Commitments : MemberShard(g, c) = MemberShard(h, d) => g = h /\ c = d
         /\ \A m, o \in MerklePrograms : TreeShard(g, m) = TreeShard(h, o) => g = h /\ m = o
         /\ \A c \in Commitments : ConfigShard(g) # MemberShard(h, c)
         /\ \A m \in MerklePrograms : ConfigShard(g) # TreeShard(h, m)
         /\ \A c \in Commitments, m \in MerklePrograms : MemberShard(g, c) # TreeShard(h, m)
  <1>1. ConfigShard(g) = ConfigShard(h) => g = h
    BY Derivation, ConfigSeed, SamePair DEF ConfigShard
  <1>2. ASSUME NEW c \in Commitments, NEW d \in Commitments, MemberShard(g, c) = MemberShard(h, d)
        PROVE  g = h /\ c = d
    BY <1>2, Derivation, MembershipSeed, SamePair DEF MemberShard
  <1>3. ASSUME NEW m \in MerklePrograms, NEW o \in MerklePrograms, TreeShard(g, m) = TreeShard(h, o)
        PROVE  g = h /\ m = o
    BY <1>3, Derivation, MainSeed, SamePair DEF TreeShard
  <1>4. ASSUME NEW c \in Commitments PROVE ConfigShard(g) # MemberShard(h, c)
    BY Derivation, MembershipSeed DEF ConfigShard, MemberShard
  <1>5. ASSUME NEW m \in MerklePrograms PROVE ConfigShard(g) # TreeShard(h, m)
    BY Derivation, MainSeed DEF ConfigShard, TreeShard
  <1>6. ASSUME NEW c \in Commitments, NEW m \in MerklePrograms
        PROVE  MemberShard(g, c) # TreeShard(h, m)
    BY Derivation, MembershipSeed DEF MemberShard, TreeShard
  <1>7. QED
    BY <1>1, <1>2, <1>3, <1>4, <1>5, <1>6

\* The account lists a plan accepts.
LEMMA OwnShard ==
  ASSUME NEW g \in Registries
  PROVE  /\ \A s \in Own(g[1], config_seed(g[2])) : s = ConfigShard(g)
         /\ \A c : \A s \in Own(g[1], membership_seed(g[2], c)) : s = MemberShard(g, c)
         /\ \A m : \A s \in TreeMain(g[1], g[2], m) : s = TreeShard(g, m)
  BY DEF Own, TreeMain, require_own_pda, require_tree_main, ConfigShard, MemberShard, TreeShard

-----------------------------------------------------------------------------
(***************************************************************************)
(* The executor, whatever the plan.                                        *)
(***************************************************************************)

\* A plan whose items are about different shards.
WellPlanned(plan) ==
    /\ Len(plan) \in Nat /\ plan \in Seq(Items(plan))
    /\ \A i \in 1 .. Len(plan) :
          /\ plan[i].kind \in {"effect", "call", "transfer"}
          /\ Touched(plan[i]) \subseteq Selectors
          /\ plan[i].kind = "transfer" => native_balance(plan[i].from) # native_balance(plan[i].to)
    /\ \A i, j \in 1 .. Len(plan) : i # j => Touched(plan[i]) \cap Touched(plan[j]) = {}

\* The position in the plan.
Done(plan) == Len(plan) - Len(todo)

LEMMA TodoTail ==
  ASSUME NEW S, todo \in Seq(S), todo # <<>>
  PROVE  /\ Len(todo) \in Nat /\ Len(todo) > 0
         /\ Head(todo) = todo[1] /\ Head(todo) \in S
         /\ Tail(todo) \in Seq(S) /\ Len(Tail(todo)) = Len(todo) - 1
         /\ \A i \in 1 .. Len(Tail(todo)) : Tail(todo)[i] = todo[i + 1]
  OBVIOUS

\* The next item is the plan's next, or the effect of the call that is next.
LEMMA NextItem ==
  ASSUME NEW plan, WellPlanned(plan), InProgress(plan), todo # <<>>
  PROVE  /\ Done(plan) + 1 \in 1 .. Len(plan)
         /\ Done(plan) \in Nat
         /\ \/ Head(todo) = plan[Done(plan) + 1]
            \/ /\ plan[Done(plan) + 1].kind = "call" /\ merkle_plan(plan[Done(plan) + 1])
               /\ Head(todo) = Called(plan[Done(plan) + 1])
  <1>1. todo \in Seq(Items(plan)) /\ Len(todo) <= Len(plan) /\ Len(plan) \in Nat
    BY DEF InProgress, WellPlanned
  <1>2. Len(todo) \in Nat /\ Len(todo) > 0 /\ Head(todo) = todo[1]
    BY <1>1, TodoTail
  <1>3. Done(plan) \in Nat /\ Done(plan) + 1 \in 1 .. Len(plan) /\ 1 \in 1 .. Len(todo)
    BY <1>1, <1>2 DEF Done
  <1>4. QED
    BY <1>2, <1>3 DEF InProgress, Done

\* The shards of an item that is not done are as they were.
LEMMA NextUntouched ==
  ASSUME NEW plan, WellPlanned(plan), InProgress(plan), todo # <<>>,
         NEW s \in Touched(plan[Done(plan) + 1])
  PROVE  s \in Selectors /\ work[s] = shards[s]
  <1>1. Done(plan) + 1 \in 1 .. Len(plan) /\ Done(plan) \in Nat /\ Len(plan) \in Nat
    BY NextItem DEF WellPlanned
  <1>2. s \in Selectors
    BY <1>1 DEF WellPlanned
  <1>3. ASSUME NEW i \in 1 .. Done(plan) PROVE s \notin Touched(plan[i])
    <2>1. i \in 1 .. Len(plan) /\ i # Done(plan) + 1
      BY <1>1
    <2>2. QED
      BY <1>1, <2>1 DEF WellPlanned
  <1>4. QED
    BY <1>2, <1>3 DEF InProgress, Done

\* The working copy is changed where the next item says, and the queue is one
\* shorter: one more item is done.
LEMMA ItemDone ==
  ASSUME NEW plan, WellPlanned(plan), InProgress(plan), todo # <<>>,
         todo' = Tail(todo), UNCHANGED shards,
         Achieved(plan[Done(plan) + 1], shards', work'),
         \A s \in Selectors : s \notin Touched(plan[Done(plan) + 1]) => work'[s] = work[s]
  PROVE  InProgress(plan)'
  <1> DEFINE n == Done(plan)
  <1>1. todo \in Seq(Items(plan)) /\ Len(todo) <= Len(plan) /\ Len(plan) \in Nat
    BY DEF InProgress, WellPlanned
  <1>2. /\ Len(todo) \in Nat /\ Len(todo) > 0
        /\ todo' \in Seq(Items(plan)) /\ Len(todo') = Len(todo) - 1
        /\ \A i \in 1 .. Len(todo') : todo'[i] = todo[i + 1]
    BY <1>1, TodoTail
  <1>3. n \in Nat /\ n = Len(plan) - Len(todo) /\ Len(plan) - Len(todo') = n + 1
    BY <1>1, <1>2 DEF Done
  <1>4. n + 1 \in 1 .. Len(plan)
    BY NextItem
  <1> HIDE DEF n
  <1>5. ASSUME NEW i \in 1 .. Len(todo') PROVE todo'[i] = plan[n + 1 + i]
    <2>1. i + 1 \in 1 .. Len(todo) /\ i + 1 # 1 /\ n + (i + 1) = n + 1 + i
      BY <1>2, <1>3
    <2>2. todo[i + 1] = plan[n + (i + 1)]
      BY <1>3, <2>1 DEF InProgress
    <2>3. QED
      BY <1>2, <2>1, <2>2
  <1>6. ASSUME NEW i \in 1 .. n + 1 PROVE Achieved(plan[i], shards', work')
    <2>1. CASE i = n + 1
      BY <2>1 DEF n
    <2>2. CASE i # n + 1
      <3>1. i \in 1 .. n /\ i \in 1 .. Len(plan)
        BY <1>3, <1>4, <2>2
      <3>2. Achieved(plan[i], shards, work) /\ Touched(plan[i]) \subseteq Selectors
        BY <1>3, <3>1 DEF InProgress, WellPlanned
      <3>3. \A s \in Touched(plan[i]) : work'[s] = work[s]
        BY <1>4, <2>2, <3>1, <3>2 DEF WellPlanned, n
      <3>4. plan[i].kind # "transfer" => work'[plan[i].selector] = work[plan[i].selector]
        BY <3>3 DEF Touched
      <3>5. plan[i].kind = "transfer" =>
              /\ work'[native_balance(plan[i].from)] = work[native_balance(plan[i].from)]
              /\ work'[native_balance(plan[i].to)] = work[native_balance(plan[i].to)]
        BY <3>3 DEF Touched
      <3>6. QED
        BY <3>2, <3>4, <3>5 DEF Achieved, Applied
    <2>3. QED
      BY <2>1, <2>2
  <1>7. ASSUME NEW s \in Selectors, \A i \in 1 .. n + 1 : s \notin Touched(plan[i])
        PROVE  work'[s] = shards'[s]
    <2>1. n + 1 \in 1 .. n + 1 /\ \A i \in 1 .. n : i \in 1 .. n + 1
      BY <1>3
    <2>2. work'[s] = work[s]
      BY <1>7, <2>1 DEF n
    <2>3. work[s] = shards[s]
      BY <1>3, <1>7, <2>1 DEF InProgress
    <2>4. QED
      BY <2>2, <2>3
  <1>8. QED
    BY <1>1, <1>2, <1>3, <1>5, <1>6, <1>7 DEF InProgress

LEMMA ProgressStep ==
  ASSUME NEW plan, WellPlanned(plan), InProgress(plan), work = [s \in Selectors |-> work[s]],
         ApplyEffect \/ ChainedCall \/ NativeTransfer
  PROVE  InProgress(plan)' /\ (work = [s \in Selectors |-> work[s]])'
  <1> DEFINE item == plan[Done(plan) + 1]
  <1>1. todo # <<>>
    BY DEF ApplyEffect, ChainedCall, NativeTransfer, Running
  <1>2. /\ Done(plan) + 1 \in 1 .. Len(plan) /\ Done(plan) \in Nat
        /\ \/ Head(todo) = item
           \/ item.kind = "call" /\ merkle_plan(item) /\ Head(todo) = Called(item)
    BY <1>1, NextItem
  <1>3. \A s \in Touched(item) : s \in Selectors /\ work[s] = shards[s]
    BY <1>1, NextUntouched
  <1> HIDE DEF item
  <1>4. CASE ApplyEffect
    <2> DEFINE sel == Head(todo).selector
               e == Head(todo).effect
    <2>1. /\ Head(todo).kind = "effect"
          /\ work' = [work EXCEPT ![sel] = apply(e, work[sel])]
          /\ todo' = Tail(todo) /\ shards' = shards
          /\ apply(e, work[sel]) # Refused
      BY <1>4 DEF ApplyEffect, Accepted
    <2>2. /\ item.kind # "transfer" /\ sel = item.selector
          /\ \/ item.kind = "effect" /\ e = item.effect
             \/ item.kind = "call" /\ merkle_plan(item) /\ e = item.ix
      BY <1>2, <2>1 DEF Called, Effect
    <2>3. Touched(item) = {sel}
      BY <2>2 DEF Touched
    <2> HIDE DEF sel, e
    <2>4. sel \in Selectors /\ work[sel] = shards[sel]
      BY <1>3, <2>3
    <2>5. work'[sel] = apply(e, shards[sel]) /\ \A s \in Selectors : s # sel => work'[s] = work[s]
      BY <2>1, <2>4
    <2>6. Achieved(item, shards', work')
      BY <2>1, <2>2, <2>4, <2>5 DEF Achieved, Applied
    <2>7. InProgress(plan)'
      BY <1>1, <2>1, <2>3, <2>5, <2>6, ItemDone DEF item
    <2>8. (work = [s \in Selectors |-> work[s]])'
      BY <2>1
    <2>9. QED
      BY <2>7, <2>8
  <1>5. CASE NativeTransfer
    <2> DEFINE from == native_balance(Head(todo).from)
               to == native_balance(Head(todo).to)
               amount == Head(todo).amount
    <2>1. /\ Head(todo).kind = "transfer"
          /\ work' = [work EXCEPT ![from] = @ - amount, ![to] = @ + amount]
          /\ todo' = Tail(todo) /\ shards' = shards
          /\ amount <= work[from]
      BY <1>5 DEF NativeTransfer, Accepted
    <2>2. Head(todo) = item
      BY <1>2, <2>1 DEF Called, Effect
    <2>3. Touched(item) = {from, to} /\ from # to
      BY <1>2, <2>1, <2>2 DEF Touched, WellPlanned, item
    <2>4. from = native_balance(item.from) /\ to = native_balance(item.to) /\ amount = item.amount
      BY <2>2
    <2> HIDE DEF from, to, amount
    <2>5. /\ from \in Selectors /\ work[from] = shards[from]
          /\ to \in Selectors /\ work[to] = shards[to]
      BY <1>3, <2>3
    <2>6. /\ work'[from] = shards[from] - amount /\ work'[to] = shards[to] + amount
          /\ \A s \in Selectors : s \notin {from, to} => work'[s] = work[s]
      BY <2>1, <2>3, <2>5
    <2>7. Achieved(item, shards', work')
      BY <2>1, <2>2, <2>4, <2>5, <2>6 DEF Achieved
    <2>8. InProgress(plan)'
      BY <1>1, <2>1, <2>3, <2>6, <2>7, ItemDone DEF item
    <2>9. (work = [s \in Selectors |-> work[s]])'
      BY <2>1
    <2>10. QED
      BY <2>8, <2>9
  <1>6. CASE ChainedCall
    <2>1. /\ Head(todo).kind = "call" /\ merkle_plan(Head(todo))
          /\ todo' = <<Called(Head(todo))>> \o <<>> \o Tail(todo)
          /\ shards' = shards /\ work' = work
      BY <1>6 DEF ChainedCall, Accepted, Called, Plan
    <2>2. Head(todo) = item
      BY <1>2, <2>1 DEF Called, Effect
    <2>3. todo \in Seq(Items(plan)) /\ Len(todo) <= Len(plan) /\ Len(plan) \in Nat
      BY DEF InProgress, WellPlanned
    <2>4. Called(item) \in Items(plan)
      BY <1>2, <2>1, <2>2 DEF Items, item
    <2>5. /\ Len(todo) \in Nat /\ Len(todo) > 0
          /\ Tail(todo) \in Seq(Items(plan)) /\ Len(Tail(todo)) = Len(todo) - 1
          /\ \A i \in 1 .. Len(Tail(todo)) : Tail(todo)[i] = todo[i + 1]
      BY <1>1, <2>3, TodoTail
    <2>6. todo' = <<Called(item)>> \o Tail(todo)
      BY <2>1, <2>2, <2>4, <2>5
    <2>7. /\ todo' \in Seq(Items(plan)) /\ Len(todo') = Len(todo)
          /\ todo'[1] = Called(item)
          /\ \A i \in 1 .. Len(todo) : i # 1 => todo'[i] = todo[i]
      BY <2>4, <2>5, <2>6
    <2>8. QED
      BY <1>2, <2>1, <2>2, <2>3, <2>7 DEF InProgress, Achieved, Applied, Done, item
  <1>7. QED
    BY <1>4, <1>5, <1>6

\* A plan is a sequence of its items.
LEMMA PlanSeq ==
  ASSUME NEW S, NEW plan \in Seq(S)
  PROVE  plan \in Seq(Items(plan))
  <1>1. \A i \in 1 .. Len(plan) : plan[i] \in Items(plan)
    BY DEF Items
  <1>2. QED
    BY <1>1

LEMMA PlanTuples ==
  ASSUME NEW a, NEW b, NEW c, NEW d, NEW e
  PROVE  /\ <<a>> \o <<>> \in Seq(Items(<<a>> \o <<>>))
         /\ <<a>> \o <<b>> \in Seq(Items(<<a>> \o <<b>>))
         /\ <<a, b>> \o <<c>> \in Seq(Items(<<a, b>> \o <<c>>))
         /\ <<a, b, c>> \o <<d>> \in Seq(Items(<<a, b, c>> \o <<d>>))
         /\ <<a, b, c>> \o <<d, e>> \in Seq(Items(<<a, b, c>> \o <<d, e>>))
  <1>1. /\ <<a>> \o <<>> \in Seq({a})
        /\ <<a>> \o <<b>> \in Seq({a, b})
        /\ <<a, b>> \o <<c>> \in Seq({a, b, c})
        /\ <<a, b, c>> \o <<d>> \in Seq({a, b, c, d})
        /\ <<a, b, c>> \o <<d, e>> \in Seq({a, b, c, d, e})
    OBVIOUS
  <1>2. QED
    BY <1>1, PlanSeq

-----------------------------------------------------------------------------
(***************************************************************************)
(* The plans: their items, each about shards of its own.                   *)
(***************************************************************************)
InitializeItems(plan, g, d) ==
    /\ Len(plan) = 1
    /\ plan[1] = Effect(ConfigShard(g),
                      [op |-> "InitConfig",
                       state |-> [tree_id |-> g[2],
                                  merkle_program_id |-> d.merkle_program_id,
                                  price_per_unit |-> d.price_per_unit,
                                  treasury_account_id |-> d.treasury_account_id,
                                  total_registrations |-> 0,
                                  max_total_rate_limit |-> d.max_total_rate_limit,
                                  current_total_rate_limit |-> 0,
                                  active_duration_sec |-> d.active_duration_sec,
                                  grace_period_duration_sec |-> d.grace_period_duration_sec]])

InitializeMerkleTreeItems(plan, g, m) ==
    /\ Len(plan) = 2
    /\ plan[1] = Effect(ConfigShard(g), [op |-> "InitTreeGuard", tree_id |-> g[2],
                                         merkle_program_id |-> m])
    /\ plan[2] = merkle_call(g[1], m, TreeShard(g, m), g[2], [op |-> "Initialize"])

RegisterItems(plan, g, m, c, rate, claim, now, payer) ==
    /\ Len(plan) = 5
    /\ plan[1] = Effect(ConfigShard(g),
                      [op |-> "RegisterConfig", tree_id |-> g[2], rate_limit |-> rate,
                       merkle_program_id |-> m, claim |-> claim])
    /\ plan[2] = Effect(clock_shard, [op |-> "ClockIs", now_ms |-> now])
    /\ plan[3] = Effect(MemberShard(g, c),
                      [op |-> "InitMembership",
                       state |-> [id_commitment |-> c, rate_limit |-> rate,
                                  grace_period_start_timestamp_ms |->
                                    saturating_add(now, secs_to_millis(claim.active_duration_sec)),
                                  active_duration_sec |-> claim.active_duration_sec,
                                  grace_period_duration_sec |->
                                    claim.grace_period_duration_sec]])
    /\ plan[4] = native_payment(payer, claim.treasury_account_id,
                             calculate_payment_amount(rate, claim.price_per_unit))
    /\ plan[5] = merkle_call(g[1], m, TreeShard(g, m), g[2],
                          [op |-> "Insert", leaf |-> compute_registration_leaf(c, rate)])

SlashItems(plan, g, m, c, rate, i) ==
    /\ Len(plan) = 3
    /\ plan[1] = Effect(ConfigShard(g),
                      [op |-> "ReleaseConfig", tree_id |-> g[2], merkle_program_id |-> m,
                       rate_limit |-> rate])
    /\ plan[2] = Effect(MemberShard(g, c), [op |-> "SlashMembership", id_commitment |-> c,
                                            rate_limit |-> rate])
    /\ plan[3] = merkle_call(g[1], m, TreeShard(g, m), g[2],
                          [op |-> "Remove", index |-> i,
                           leaf |-> compute_registration_leaf(c, rate)])

ExtendItems(plan, g, c, rate, claim, now, payer) ==
    /\ Len(plan) = 4
    /\ plan[1] = Effect(ConfigShard(g), [op |-> "ExtendConfig", tree_id |-> g[2],
                                         claim |-> claim])
    /\ plan[2] = Effect(clock_shard, [op |-> "ClockIs", now_ms |-> now])
    /\ plan[3] = Effect(MemberShard(g, c), [op |-> "ExtendMembership", now_ms |-> now,
                                            rate_limit |-> rate])
    /\ plan[4] = native_payment(payer, claim.treasury_account_id,
                             calculate_payment_amount(rate, claim.price_per_unit))

EraseItems(plan, g, m, c, rate, i, now) ==
    /\ Len(plan) = 4
    /\ plan[1] = Effect(ConfigShard(g),
                      [op |-> "ReleaseConfig", tree_id |-> g[2], merkle_program_id |-> m,
                       rate_limit |-> rate])
    /\ plan[2] = Effect(clock_shard, [op |-> "ClockIs", now_ms |-> now])
    /\ plan[3] = Effect(MemberShard(g, c), [op |-> "EraseMembership", now_ms |-> now,
                                            rate_limit |-> rate])
    /\ plan[4] = merkle_call(g[1], m, TreeShard(g, m), g[2],
                          [op |-> "Remove", index |-> i,
                           leaf |-> compute_registration_leaf(c, rate)])

ForeignItems(plan, g, m, ix) ==
    /\ Len(plan) = 1
    /\ plan[1] = merkle_call(Foreign, m, TreeShard(g, m), g[2], ix)

LEMMA InitializeShape ==
  ASSUME NEW g \in Registries, NEW d
  PROVE  LET plan == InitializePlan(g[2], d, ConfigShard(g))
         IN  InitializeItems(plan, g, d) /\ WellPlanned(plan)
  <1> DEFINE plan == InitializePlan(g[2], d, ConfigShard(g))
  <1>1. InitializeItems(plan, g, d)
    BY DEF InitializeItems, InitializePlan, Plan
  <1>0. plan \in Seq(Items(plan))
    BY PlanTuples, Zenon DEF InitializePlan, Plan
  <1> HIDE DEF plan
  <1>2. /\ plan[1].kind = "effect" /\ Touched(plan[1]) = {ConfigShard(g)}
    BY <1>1 DEF InitializeItems, Effect, merkle_call, native_payment, Touched, TreeShard
  <1>3. /\ ConfigShard(g) \in Selectors
    BY ShardsNamed, OtherShards, ShardsApart
  <1>4. WellPlanned(plan)
    BY <1>0, <1>1, <1>2, <1>3 DEF InitializeItems, WellPlanned
  <1>5. QED
    BY <1>1, <1>4 DEF plan

LEMMA InitializeMerkleTreeShape ==
  ASSUME NEW g \in Registries, NEW m \in MerklePrograms
  PROVE  LET plan == InitializeMerkleTreePlan(g[1], g[2], m, ConfigShard(g), TreeShard(g, m))
         IN  InitializeMerkleTreeItems(plan, g, m) /\ WellPlanned(plan)
  <1> DEFINE plan == InitializeMerkleTreePlan(g[1], g[2], m, ConfigShard(g), TreeShard(g, m))
  <1>1. InitializeMerkleTreeItems(plan, g, m)
    BY DEF InitializeMerkleTreeItems, InitializeMerkleTreePlan, Plan
  <1>0. plan \in Seq(Items(plan))
    BY PlanTuples, Zenon DEF InitializeMerkleTreePlan, Plan
  <1> HIDE DEF plan
  <1>2. /\ plan[1].kind = "effect" /\ Touched(plan[1]) = {ConfigShard(g)}
        /\ plan[2].kind = "call" /\ Touched(plan[2]) = {TreeShard(g, m)}
    BY <1>1 DEF InitializeMerkleTreeItems, Effect, merkle_call, native_payment, Touched, TreeShard
  <1>3. /\ ConfigShard(g) \in Selectors /\ TreeShard(g, m) \in Selectors
        /\ ConfigShard(g) # TreeShard(g, m)
    BY ShardsNamed, OtherShards, ShardsApart
  <1>4. WellPlanned(plan)
    BY <1>0, <1>1, <1>2, <1>3 DEF InitializeMerkleTreeItems, WellPlanned
  <1>5. QED
    BY <1>1, <1>4 DEF plan

LEMMA RegisterShape ==
  ASSUME NEW g \in Registries, NEW c \in Commitments, NEW rate, NEW claim \in Deployments,
         NEW now, NEW payer \in Payers, NEW m \in MerklePrograms, m = claim.merkle_program_id
  PROVE  LET plan == RegisterPlan(g[1], g[2], c, rate, claim, now, payer, ConfigShard(g),
                                  TreeShard(g, m), MemberShard(g, c))
         IN  RegisterItems(plan, g, m, c, rate, claim, now, payer) /\ WellPlanned(plan)
  <1> DEFINE plan == RegisterPlan(g[1], g[2], c, rate, claim, now, payer, ConfigShard(g),
                                  TreeShard(g, m), MemberShard(g, c))
             a == native_balance(payer)
             b == native_balance(claim.treasury_account_id)
  <1>1. RegisterItems(plan, g, m, c, rate, claim, now, payer)
    BY DEF RegisterItems, RegisterPlan, Plan, Inspect
  <1>0. plan \in Seq(Items(plan))
    BY PlanTuples, Zenon DEF RegisterPlan, Plan
  <1> HIDE DEF plan
  <1>2. /\ plan[1].kind = "effect" /\ Touched(plan[1]) = {ConfigShard(g)}
        /\ plan[2].kind = "effect" /\ Touched(plan[2]) = {clock_shard}
        /\ plan[3].kind = "effect" /\ Touched(plan[3]) = {MemberShard(g, c)}
        /\ plan[4].kind = "transfer" /\ Touched(plan[4]) = {a, b}
        /\ native_balance(plan[4].from) = a /\ native_balance(plan[4].to) = b
        /\ plan[5].kind = "call" /\ Touched(plan[5]) = {TreeShard(g, m)}
    BY <1>1 DEF RegisterItems, Effect, merkle_call, native_payment, Touched, TreeShard
  <1> HIDE DEF a, b
  <1>3. /\ ConfigShard(g) \in Selectors /\ TreeShard(g, m) \in Selectors
        /\ MemberShard(g, c) \in Selectors /\ clock_shard \in Selectors
        /\ a \in Selectors /\ b \in Selectors /\ a # b
        /\ ConfigShard(g) # TreeShard(g, m)
        /\ ConfigShard(g) # MemberShard(g, c)
        /\ MemberShard(g, c) # TreeShard(g, m)
        /\ \A s \in {ConfigShard(g), MemberShard(g, c), TreeShard(g, m)} : s # clock_shard /\ s # a /\ s # b
        /\ clock_shard # a /\ clock_shard # b
    BY ChainAssumption, ShardsNamed, OtherShards, ShardsApart DEF a, b
  <1>4. WellPlanned(plan)
    BY <1>0, <1>1, <1>2, <1>3 DEF RegisterItems, WellPlanned
  <1>5. QED
    BY <1>1, <1>4 DEF plan

LEMMA SlashShape ==
  ASSUME NEW g \in Registries, NEW c \in Commitments, NEW rate, NEW m \in MerklePrograms, NEW i
  PROVE  LET plan == SlashPlan(g[1], g[2], c, rate, m, i, ConfigShard(g), TreeShard(g, m),
                               MemberShard(g, c))
         IN  SlashItems(plan, g, m, c, rate, i) /\ WellPlanned(plan)
  <1> DEFINE plan == SlashPlan(g[1], g[2], c, rate, m, i, ConfigShard(g), TreeShard(g, m),
                               MemberShard(g, c))
  <1>1. SlashItems(plan, g, m, c, rate, i)
    BY DEF SlashItems, SlashPlan, Plan
  <1>0. plan \in Seq(Items(plan))
    BY PlanTuples, Zenon DEF SlashPlan, Plan
  <1> HIDE DEF plan
  <1>2. /\ plan[1].kind = "effect" /\ Touched(plan[1]) = {ConfigShard(g)}
        /\ plan[2].kind = "effect" /\ Touched(plan[2]) = {MemberShard(g, c)}
        /\ plan[3].kind = "call" /\ Touched(plan[3]) = {TreeShard(g, m)}
    BY <1>1 DEF SlashItems, Effect, merkle_call, native_payment, Touched, TreeShard
  <1>3. /\ ConfigShard(g) \in Selectors /\ TreeShard(g, m) \in Selectors
        /\ MemberShard(g, c) \in Selectors
        /\ ConfigShard(g) # TreeShard(g, m)
        /\ ConfigShard(g) # MemberShard(g, c)
        /\ MemberShard(g, c) # TreeShard(g, m)
    BY ShardsNamed, OtherShards, ShardsApart
  <1>4. WellPlanned(plan)
    BY <1>0, <1>1, <1>2, <1>3 DEF SlashItems, WellPlanned
  <1>5. QED
    BY <1>1, <1>4 DEF plan

LEMMA ExtendShape ==
  ASSUME NEW g \in Registries, NEW c \in Commitments, NEW rate, NEW claim \in Deployments,
         NEW now, NEW payer \in Payers
  PROVE  LET plan == ExtendPlan(g[2], rate, claim, now, payer, ConfigShard(g), MemberShard(g, c))
         IN  ExtendItems(plan, g, c, rate, claim, now, payer) /\ WellPlanned(plan)
  <1> DEFINE plan == ExtendPlan(g[2], rate, claim, now, payer, ConfigShard(g), MemberShard(g, c))
             a == native_balance(payer)
             b == native_balance(claim.treasury_account_id)
  <1>1. ExtendItems(plan, g, c, rate, claim, now, payer)
    BY DEF ExtendItems, ExtendPlan, Plan, Inspect
  <1>0. plan \in Seq(Items(plan))
    BY PlanTuples, Zenon DEF ExtendPlan, Plan
  <1> HIDE DEF plan
  <1>2. /\ plan[1].kind = "effect" /\ Touched(plan[1]) = {ConfigShard(g)}
        /\ plan[2].kind = "effect" /\ Touched(plan[2]) = {clock_shard}
        /\ plan[3].kind = "effect" /\ Touched(plan[3]) = {MemberShard(g, c)}
        /\ plan[4].kind = "transfer" /\ Touched(plan[4]) = {a, b}
        /\ native_balance(plan[4].from) = a /\ native_balance(plan[4].to) = b
    BY <1>1 DEF ExtendItems, Effect, merkle_call, native_payment, Touched, TreeShard
  <1> HIDE DEF a, b
  <1>3. /\ ConfigShard(g) \in Selectors /\ MemberShard(g, c) \in Selectors /\ clock_shard \in Selectors
        /\ a \in Selectors /\ b \in Selectors /\ a # b
        /\ ConfigShard(g) # MemberShard(g, c)
        /\ \A s \in {ConfigShard(g), MemberShard(g, c)} : s # clock_shard /\ s # a /\ s # b
        /\ clock_shard # a /\ clock_shard # b
    BY ChainAssumption, ShardsNamed, OtherShards, ShardsApart DEF a, b
  <1>4. WellPlanned(plan)
    BY <1>0, <1>1, <1>2, <1>3 DEF ExtendItems, WellPlanned
  <1>5. QED
    BY <1>1, <1>4 DEF plan

LEMMA EraseShape ==
  ASSUME NEW g \in Registries, NEW c \in Commitments, NEW rate, NEW m \in MerklePrograms,
         NEW i, NEW now
  PROVE  LET plan == ErasePlan(g[1], g[2], c, rate, m, i, now, ConfigShard(g), TreeShard(g, m),
                               MemberShard(g, c))
         IN  EraseItems(plan, g, m, c, rate, i, now) /\ WellPlanned(plan)
  <1> DEFINE plan == ErasePlan(g[1], g[2], c, rate, m, i, now, ConfigShard(g), TreeShard(g, m),
                               MemberShard(g, c))
  <1>1. EraseItems(plan, g, m, c, rate, i, now)
    BY DEF EraseItems, ErasePlan, Plan, Inspect
  <1>0. plan \in Seq(Items(plan))
    BY PlanTuples, Zenon DEF ErasePlan, Plan
  <1> HIDE DEF plan
  <1>2. /\ plan[1].kind = "effect" /\ Touched(plan[1]) = {ConfigShard(g)}
        /\ plan[2].kind = "effect" /\ Touched(plan[2]) = {clock_shard}
        /\ plan[3].kind = "effect" /\ Touched(plan[3]) = {MemberShard(g, c)}
        /\ plan[4].kind = "call" /\ Touched(plan[4]) = {TreeShard(g, m)}
    BY <1>1 DEF EraseItems, Effect, merkle_call, native_payment, Touched, TreeShard
  <1>3. /\ ConfigShard(g) \in Selectors /\ TreeShard(g, m) \in Selectors
        /\ MemberShard(g, c) \in Selectors /\ clock_shard \in Selectors
        /\ ConfigShard(g) # TreeShard(g, m)
        /\ ConfigShard(g) # MemberShard(g, c)
        /\ MemberShard(g, c) # TreeShard(g, m)
        /\ \A s \in {ConfigShard(g), MemberShard(g, c), TreeShard(g, m)} : s # clock_shard
    BY ShardsNamed, OtherShards, ShardsApart
  <1>4. WellPlanned(plan)
    BY <1>0, <1>1, <1>2, <1>3 DEF EraseItems, WellPlanned
  <1>5. QED
    BY <1>1, <1>4 DEF plan

LEMMA ForeignShape ==
  ASSUME NEW g \in Registries, NEW m \in MerklePrograms, NEW ix
  PROVE  LET plan == <<merkle_call(Foreign, m, TreeShard(g, m), g[2], ix)>>
         IN  ForeignItems(plan, g, m, ix) /\ WellPlanned(plan)
  <1> DEFINE plan == <<merkle_call(Foreign, m, TreeShard(g, m), g[2], ix)>>
  <1>1. ForeignItems(plan, g, m, ix)
    BY DEF ForeignItems, Plan
  <1>0. plan \in Seq(Items(plan))
    BY DEF Items
  <1> HIDE DEF plan
  <1>2. /\ plan[1].kind = "call" /\ Touched(plan[1]) = {TreeShard(g, m)}
    BY <1>1 DEF ForeignItems, Effect, merkle_call, native_payment, Touched, TreeShard
  <1>3. /\ TreeShard(g, m) \in Selectors
    BY ShardsNamed, OtherShards, ShardsApart
  <1>4. WellPlanned(plan)
    BY <1>0, <1>1, <1>2, <1>3 DEF ForeignItems, WellPlanned
  <1>5. QED
    BY <1>1, <1>4 DEF plan

\* Every job is one of seven, with the plan it should have.
LEMMA JobCases ==
  ASSUME NEW job \in Jobs
  PROVE  /\ WellPlanned(job[2])
         /\ \/ \E g \in Registries, d \in Deployments :
                  /\ d.max_total_rate_limit > 0 /\ d.active_duration_sec > 0
                  /\ job[1] = Tx("Initialize", g[1], g[2])
                  /\ InitializeItems(job[2], g, d)
            \/ \E g \in Registries, m \in MerklePrograms :
                  /\ job[1] = Tx("InitializeMerkleTree", g[1], g[2])
                  /\ InitializeMerkleTreeItems(job[2], g, m)
            \/ \E g \in Registries, m \in MerklePrograms, c \in Commitments, rate \in RateLimits,
                  claim \in Deployments, now \in Instants, payer \in Payers :
                  /\ validate_rate_limit(rate) /\ m = claim.merkle_program_id
                  /\ job[1] = RegisterTx(g[1], g[2], c, rate, claim, now, payer)
                  /\ RegisterItems(job[2], g, m, c, rate, claim, now, payer)
            \/ \E g \in Registries, m \in MerklePrograms, c \in Commitments, rate \in RateLimits,
                  i \in Indices :
                  /\ job[1] = MemberTx("Slash", g[1], g[2], c, rate, 0)
                  /\ SlashItems(job[2], g, m, c, rate, i)
            \/ \E g \in Registries, c \in Commitments, rate \in RateLimits,
                  claim \in Deployments, now \in Instants, payer \in Payers :
                  /\ job[1] = ExtendTx(g[1], g[2], c, rate, claim, now, payer)
                  /\ ExtendItems(job[2], g, c, rate, claim, now, payer)
            \/ \E g \in Registries, m \in MerklePrograms, c \in Commitments, rate \in RateLimits,
                  i \in Indices, now \in Instants :
                  /\ job[1] = MemberTx("Erase", g[1], g[2], c, rate, now)
                  /\ EraseItems(job[2], g, m, c, rate, i, now)
            \/ \E g \in Registries, m \in MerklePrograms, ix \in MerkleInstructions :
                  /\ job[1] = Tx("Foreign", Foreign, g[2])
                  /\ ForeignItems(job[2], g, m, ix)
  <1>1. CASE job \in InitializeJobs
    <2>1. PICK g \in Registries,
                d \in {dep \in Deployments : dep.max_total_rate_limit > 0 /\ dep.active_duration_sec > 0} :
            job = <<Tx("Initialize", g[1], g[2]),
                    InitializePlan(g[2], d, ConfigShard(g))>>
      BY <1>1 DEF InitializeJobs
    <2>2. /\ job[1] = Tx("Initialize", g[1], g[2])
          /\ job[2] = InitializePlan(g[2], d, ConfigShard(g))
      BY <2>1
    <2>3. InitializeItems(job[2], g, d) /\ WellPlanned(job[2])
      BY <2>2, InitializeShape
    <2>4. QED
      BY <2>2, <2>3
  <1>2. CASE job \in InitializeMerkleTreeJobs
    <2>1. PICK g \in Registries, m \in MerklePrograms :
            job = <<Tx("InitializeMerkleTree", g[1], g[2]),
                    InitializeMerkleTreePlan(g[1], g[2], m, ConfigShard(g), TreeShard(g, m))>>
      BY <1>2 DEF InitializeMerkleTreeJobs
    <2>2. /\ job[1] = Tx("InitializeMerkleTree", g[1], g[2])
          /\ job[2] = InitializeMerkleTreePlan(g[1], g[2], m, ConfigShard(g), TreeShard(g, m))
      BY <2>1
    <2>3. InitializeMerkleTreeItems(job[2], g, m) /\ WellPlanned(job[2])
      BY <2>2, InitializeMerkleTreeShape
    <2>4. QED
      BY <2>2, <2>3
  <1>3. CASE job \in RegisterJobs
    <2>1. PICK g \in Registries, c \in Commitments, rate \in {r \in RateLimits : validate_rate_limit(r)},
                claim \in Deployments, now \in Instants, payer \in Payers :
            job = <<RegisterTx(g[1], g[2], c, rate, claim, now, payer),
                    RegisterPlan(g[1], g[2], c, rate, claim, now, payer, ConfigShard(g),
                                 TreeShard(g, claim.merkle_program_id), MemberShard(g, c))>>
      BY <1>3 DEF RegisterJobs
    <2>2. /\ job[1] = RegisterTx(g[1], g[2], c, rate, claim, now, payer)
          /\ job[2] = RegisterPlan(g[1], g[2], c, rate, claim, now, payer, ConfigShard(g),
                                 TreeShard(g, claim.merkle_program_id), MemberShard(g, c))
      BY <2>1
    <2>3. claim.merkle_program_id \in MerklePrograms
      BY ChainAssumption
    <2>4. /\ RegisterItems(job[2], g, claim.merkle_program_id, c, rate, claim, now, payer)
          /\ WellPlanned(job[2])
      BY <2>2, <2>3, RegisterShape
    <2>5. QED
      BY <2>2, <2>3, <2>4
  <1>4. CASE job \in SlashJobs
    <2>1. PICK g \in Registries, c \in Commitments, rate \in RateLimits, m \in MerklePrograms,
                i \in Indices :
            job = <<MemberTx("Slash", g[1], g[2], c, rate, 0),
                    SlashPlan(g[1], g[2], c, rate, m, i, ConfigShard(g), TreeShard(g, m),
                              MemberShard(g, c))>>
      BY <1>4 DEF SlashJobs
    <2>2. /\ job[1] = MemberTx("Slash", g[1], g[2], c, rate, 0)
          /\ job[2] = SlashPlan(g[1], g[2], c, rate, m, i, ConfigShard(g), TreeShard(g, m),
                              MemberShard(g, c))
      BY <2>1
    <2>3. SlashItems(job[2], g, m, c, rate, i) /\ WellPlanned(job[2])
      BY <2>2, SlashShape
    <2>4. QED
      BY <2>2, <2>3
  <1>5. CASE job \in ExtendJobs
    <2>1. PICK g \in Registries, c \in Commitments, rate \in RateLimits, claim \in Deployments,
                now \in Instants, payer \in Payers :
            job = <<ExtendTx(g[1], g[2], c, rate, claim, now, payer),
                    ExtendPlan(g[2], rate, claim, now, payer, ConfigShard(g), MemberShard(g, c))>>
      BY <1>5 DEF ExtendJobs
    <2>2. /\ job[1] = ExtendTx(g[1], g[2], c, rate, claim, now, payer)
          /\ job[2] = ExtendPlan(g[2], rate, claim, now, payer, ConfigShard(g), MemberShard(g, c))
      BY <2>1
    <2>3. ExtendItems(job[2], g, c, rate, claim, now, payer) /\ WellPlanned(job[2])
      BY <2>2, ExtendShape
    <2>4. QED
      BY <2>2, <2>3
  <1>6. CASE job \in EraseJobs
    <2>1. PICK g \in Registries, c \in Commitments, rate \in RateLimits, m \in MerklePrograms,
                i \in Indices, now \in Instants :
            job = <<MemberTx("Erase", g[1], g[2], c, rate, now),
                    ErasePlan(g[1], g[2], c, rate, m, i, now, ConfigShard(g), TreeShard(g, m),
                              MemberShard(g, c))>>
      BY <1>6 DEF EraseJobs
    <2>2. /\ job[1] = MemberTx("Erase", g[1], g[2], c, rate, now)
          /\ job[2] = ErasePlan(g[1], g[2], c, rate, m, i, now, ConfigShard(g), TreeShard(g, m),
                              MemberShard(g, c))
      BY <2>1
    <2>3. EraseItems(job[2], g, m, c, rate, i, now) /\ WellPlanned(job[2])
      BY <2>2, EraseShape
    <2>4. QED
      BY <2>2, <2>3
  <1>7. CASE job \in ForeignJobs
    <2>1. PICK g \in Registries, m \in MerklePrograms, ix \in MerkleInstructions :
            job = <<Tx("Foreign", Foreign, g[2]),
                    <<merkle_call(Foreign, m, TreeShard(g, m), g[2], ix)>>>>
      BY <1>7 DEF ForeignJobs
    <2>2. /\ job[1] = Tx("Foreign", Foreign, g[2])
          /\ job[2] = <<merkle_call(Foreign, m, TreeShard(g, m), g[2], ix)>>
      BY <2>1
    <2>3. ForeignItems(job[2], g, m, ix) /\ WellPlanned(job[2])
      BY <2>2, ForeignShape
    <2>4. QED
      BY <2>2, <2>3
  <1>8. QED
    BY <1>1, <1>2, <1>3, <1>4, <1>5, <1>6, <1>7 DEF Jobs

-----------------------------------------------------------------------------
(***************************************************************************)
(* What a transaction that ran to the end of its plan has found in the     *)
(* shards and made of them.                                                *)
(***************************************************************************)
MembersAfter(g, c, new) ==
    \A d \in Commitments :
        work[MemberShard(g, d)] = IF d = c THEN new ELSE shards[MemberShard(g, d)]

TreesAfter(g, m, new) ==
    \A p \in MerklePrograms : work[TreeShard(g, p)] = IF p = m THEN new ELSE shards[TreeShard(g, p)]

ConfigSame(g) == work[ConfigShard(g)] = shards[ConfigShard(g)]
MembersSame(g) == \A d \in Commitments : work[MemberShard(g, d)] = shards[MemberShard(g, d)]
TreesSame(g) == \A p \in MerklePrograms : work[TreeShard(g, p)] = shards[TreeShard(g, p)]

BalancesSame ==
    \A a \in Payers \cup Treasuries : work[native_balance(a)] = shards[native_balance(a)]

BalancesAfter(payer, treasury, amount) ==
    \A a \in Payers \cup Treasuries :
        work[native_balance(a)] = IF a = payer THEN shards[native_balance(a)] - amount
                                  ELSE IF a = treasury THEN shards[native_balance(a)] + amount
                                  ELSE shards[native_balance(a)]

\* Nothing of any other registry has changed.
ElsewhereSame(g) ==
    /\ work[clock_shard] = shards[clock_shard]
    /\ \A h \in Registries : h # g => ConfigSame(h) /\ MembersSame(h) /\ TreesSame(h)

InitializeDone(g, d) ==
    /\ shards[ConfigShard(g)] = Empty
    /\ work[ConfigShard(g)] = [tree_id |-> g[2],
                               merkle_program_id |-> d.merkle_program_id,
                               price_per_unit |-> d.price_per_unit,
                               treasury_account_id |-> d.treasury_account_id,
                               total_registrations |-> 0,
                               max_total_rate_limit |-> d.max_total_rate_limit,
                               current_total_rate_limit |-> 0,
                               active_duration_sec |-> d.active_duration_sec,
                               grace_period_duration_sec |-> d.grace_period_duration_sec]
    /\ MembersSame(g) /\ TreesSame(g) /\ BalancesSame /\ ElsewhereSame(g)

ConfigNames(g, m) ==
    shards[ConfigShard(g)] # Empty /\ shards[ConfigShard(g)].merkle_program_id = m

ConfigSells(g, claim) ==
    /\ shards[ConfigShard(g)] # Empty
    /\ shards[ConfigShard(g)].price_per_unit = claim.price_per_unit
    /\ shards[ConfigShard(g)].treasury_account_id = claim.treasury_account_id

InitializeMerkleTreeDone(g, m) ==
    /\ ConfigNames(g, m)
    /\ shards[TreeShard(g, m)] = Empty
    /\ TreesAfter(g, m, [next_index |-> 0, leaves |-> [i \in Indices |-> ZERO]])
    /\ ConfigSame(g) /\ MembersSame(g) /\ BalancesSame /\ ElsewhereSame(g)

Payment(rate, claim, payer) ==
    LET amount == calculate_payment_amount(rate, claim.price_per_unit)
    IN  /\ amount <= shards[native_balance(payer)]
        /\ BalancesAfter(payer, claim.treasury_account_id, amount)

RegisterDone(g, m, c, rate, claim, now, payer) ==
    LET config == shards[ConfigShard(g)]
        tree == shards[TreeShard(g, m)]
    IN  /\ ConfigNames(g, m) /\ ConfigSells(g, claim)
        /\ config.active_duration_sec = claim.active_duration_sec
        /\ config.grace_period_duration_sec = claim.grace_period_duration_sec
        /\ can_register(config, rate)
        /\ work[ConfigShard(g)] =
             [config EXCEPT !.total_registrations = saturating_add(@, 1),
                            !.current_total_rate_limit = saturating_add(@, rate)]
        /\ assert_clock_is(shards[clock_shard], now)
        /\ shards[MemberShard(g, c)] = Empty
        /\ MembersAfter(g, c,
             [id_commitment |-> c, rate_limit |-> rate,
              grace_period_start_timestamp_ms |->
                  saturating_add(now, secs_to_millis(claim.active_duration_sec)),
              active_duration_sec |-> claim.active_duration_sec,
              grace_period_duration_sec |-> claim.grace_period_duration_sec])
        /\ Payment(rate, claim, payer)
        /\ tree # Empty /\ tree.next_index < TREE_LEAVES
        /\ TreesAfter(g, m, [next_index |-> tree.next_index + 1,
                             leaves |-> [tree.leaves EXCEPT ![tree.next_index] =
                                           compute_registration_leaf(c, rate)]])
        /\ ElsewhereSame(g)

\* What Slash and Erase have in common.
Removal(g, m, c, rate, i) ==
    LET config == shards[ConfigShard(g)]
        member == shards[MemberShard(g, c)]
        tree == shards[TreeShard(g, m)]
    IN  /\ ConfigNames(g, m)
        /\ work[ConfigShard(g)] =
             [config EXCEPT !.current_total_rate_limit = saturating_sub(@, rate),
                            !.total_registrations = saturating_sub(@, 1)]
        /\ member # Empty /\ member.rate_limit = rate
        /\ MembersAfter(g, c, Empty)
        /\ tree # Empty /\ i < tree.next_index
        /\ tree.leaves[i] = compute_registration_leaf(c, rate)
        /\ TreesAfter(g, m, [tree EXCEPT !.leaves[i] = ZERO])
        /\ BalancesSame /\ ElsewhereSame(g)

EraseDone(g, m, c, rate, i, now) ==
    LET member == shards[MemberShard(g, c)]
    IN  /\ Removal(g, m, c, rate, i)
        /\ assert_clock_is(shards[clock_shard], now)
        /\ is_expired(member.grace_period_start_timestamp_ms,
                      secs_to_millis(member.grace_period_duration_sec), now)

ExtendDone(g, c, rate, claim, now, payer) ==
    LET member == shards[MemberShard(g, c)]
    IN  /\ ConfigSells(g, claim)
        /\ assert_clock_is(shards[clock_shard], now)
        /\ member # Empty /\ member.rate_limit = rate
        /\ is_in_grace_period(member.grace_period_start_timestamp_ms,
                              secs_to_millis(member.grace_period_duration_sec), now)
        /\ MembersAfter(g, c, [member EXCEPT !.grace_period_start_timestamp_ms =
             saturating_add(
               saturating_add(@, secs_to_millis(member.grace_period_duration_sec)),
               secs_to_millis(member.active_duration_sec))])
        /\ Payment(rate, claim, payer)
        /\ ConfigSame(g) /\ TreesSame(g) /\ ElsewhereSame(g)

LEMMA ApplyCases ==
  ASSUME NEW e, NEW pre
  PROVE  /\ e.op = "InitConfig" => apply(e, pre) = InitConfig(e, pre)
         /\ e.op = "InitTreeGuard" => apply(e, pre) = InitTreeGuard(e, pre)
         /\ e.op = "RegisterConfig" => apply(e, pre) = RegisterConfig(e, pre)
         /\ e.op = "InitMembership" => apply(e, pre) = InitMembership(e, pre)
         /\ e.op = "ClockIs" => apply(e, pre) = ClockIs(e, pre)
         /\ e.op = "ReleaseConfig" => apply(e, pre) = ReleaseConfig(e, pre)
         /\ e.op = "SlashMembership" => apply(e, pre) = SlashMembership(e, pre)
         /\ e.op = "ExtendConfig" => apply(e, pre) = ExtendConfig(e, pre)
         /\ e.op = "ExtendMembership" => apply(e, pre) = ExtendMembership(e, pre)
         /\ e.op = "EraseMembership" => apply(e, pre) = EraseMembership(e, pre)
         /\ e.op = "Initialize" => apply(e, pre) = initialize_tree(pre)
         /\ e.op = "Insert" => apply(e, pre) = insert_leaf(pre, e.leaf)
         /\ e.op = "Remove" => apply(e, pre) = remove_leaf(pre, e.index, e.leaf)
  BY DEF apply

\* A plan that is done has done all it says and nothing else.
LEMMA Completed ==
  ASSUME NEW plan, WellPlanned(plan), InProgress(plan), todo = <<>>
  PROVE  /\ \A i \in 1 .. Len(plan) : Achieved(plan[i], shards, work)
         /\ \A s \in Selectors :
              (\A i \in 1 .. Len(plan) : s \notin Touched(plan[i])) => work[s] = shards[s]
  <1>1. Len(plan) \in Nat /\ Len(todo) = 0
    BY DEF WellPlanned
  <1>2. Len(plan) - Len(todo) = Len(plan)
    BY <1>1
  <1>3. QED
    BY <1>2 DEF InProgress

LEMMA EffectDone ==
  ASSUME NEW sel, NEW e, Achieved(Effect(sel, e), shards, work)
  PROVE  apply(e, shards[sel]) # Refused /\ work[sel] = apply(e, shards[sel])
  BY DEF Achieved, Applied, Effect

LEMMA CallDone ==
  ASSUME NEW self, NEW m, NEW sel, NEW t, NEW ix, sel[2] = m, sel = <<sel[1], sel[2]>>,
         Achieved(merkle_call(self, m, sel, t, ix), shards, work)
  PROVE  apply(ix, shards[sel]) # Refused /\ work[sel] = apply(ix, shards[sel])
  BY DEF Achieved, Applied, merkle_call

LEMMA PaymentDone ==
  ASSUME NEW payer, NEW to, NEW amount, Achieved(native_payment(payer, to, amount), shards, work)
  PROVE  /\ amount <= shards[native_balance(payer)]
         /\ work[native_balance(payer)] = shards[native_balance(payer)] - amount
         /\ work[native_balance(to)] = shards[native_balance(to)] + amount
  BY DEF Achieved, native_payment

\* What the shards away from a set are, in terms of registries.
LEMMA Away ==
  ASSUME NEW g \in Registries, NEW S,
         \A s \in Selectors : s \notin S => work[s] = shards[s],
         \A s \in S : \/ s \in {clock_shard, ConfigShard(g)}
                      \/ \E a : s = native_balance(a)
                      \/ \E c \in Commitments : s = MemberShard(g, c)
                      \/ \E m \in MerklePrograms : s = TreeShard(g, m)
  PROVE  \A h \in Registries : h # g => ConfigSame(h) /\ MembersSame(h) /\ TreesSame(h)
  <1> SUFFICES ASSUME NEW h \in Registries, h # g
               PROVE  ConfigSame(h) /\ MembersSame(h) /\ TreesSame(h)
    OBVIOUS
  <1>1. ConfigSame(h)
    <2>1. ConfigShard(h) \in Selectors /\ ConfigShard(h) \notin S
      BY ShardsNamed, OtherShards, ShardsApart
    <2>2. QED
      BY <2>1 DEF ConfigSame
  <1>2. ASSUME NEW d \in Commitments PROVE work[MemberShard(h, d)] = shards[MemberShard(h, d)]
    <2>1. MemberShard(h, d) \in Selectors /\ MemberShard(h, d) \notin S
      BY ShardsNamed, OtherShards, ShardsApart
    <2>2. QED
      BY <2>1
  <1>3. ASSUME NEW p \in MerklePrograms PROVE work[TreeShard(h, p)] = shards[TreeShard(h, p)]
    <2>1. TreeShard(h, p) \in Selectors /\ TreeShard(h, p) \notin S
      BY ShardsNamed, OtherShards, ShardsApart
    <2>2. QED
      BY <2>1
  <1>4. QED
    BY <1>1, <1>2, <1>3 DEF MembersSame, TreesSame

\* The set of shards a plan is about, and that the others are untouched.
LEMMA Rest ==
  ASSUME NEW plan, WellPlanned(plan), InProgress(plan), todo = <<>>,
         NEW S, \A i \in 1 .. Len(plan) : Touched(plan[i]) \subseteq S
  PROVE  \A s \in Selectors : s \notin S => work[s] = shards[s]
  BY Completed

LEMMA Bystanders ==
  ASSUME NEW g \in Registries, NEW S, \A s \in Selectors : s \notin S => work[s] = shards[s]
  PROVE  /\ (\A a : native_balance(a) \notin S) => BalancesSame
         /\ (\A d \in Commitments : MemberShard(g, d) \notin S) => MembersSame(g)
         /\ (\A p \in MerklePrograms : TreeShard(g, p) \notin S) => TreesSame(g)
         /\ \A c \in Commitments :
              (\A d \in Commitments : d # c => MemberShard(g, d) \notin S)
                => MembersAfter(g, c, work[MemberShard(g, c)])
         /\ \A m \in MerklePrograms :
              (\A p \in MerklePrograms : p # m => TreeShard(g, p) \notin S)
                => TreesAfter(g, m, work[TreeShard(g, m)])
  <1>1. (\A a : native_balance(a) \notin S) => BalancesSame
    BY OtherShards DEF BalancesSame
  <1>2. (\A d \in Commitments : MemberShard(g, d) \notin S) => MembersSame(g)
    BY ShardsNamed, OtherShards DEF MembersSame
  <1>3. (\A p \in MerklePrograms : TreeShard(g, p) \notin S) => TreesSame(g)
    BY ShardsNamed, OtherShards DEF TreesSame
  <1>4. ASSUME NEW c \in Commitments, \A d \in Commitments : d # c => MemberShard(g, d) \notin S
        PROVE  MembersAfter(g, c, work[MemberShard(g, c)])
    BY <1>4, ShardsNamed, OtherShards DEF MembersAfter
  <1>5. ASSUME NEW m \in MerklePrograms, \A p \in MerklePrograms : p # m => TreeShard(g, p) \notin S
        PROVE  TreesAfter(g, m, work[TreeShard(g, m)])
    BY <1>5, ShardsNamed, OtherShards DEF TreesAfter
  <1>6. QED
    BY <1>1, <1>2, <1>3, <1>4, <1>5

LEMMA InitializeOutcome ==
  ASSUME NEW g \in Registries, NEW d,
         NEW plan, InitializeItems(plan, g, d),
         WellPlanned(plan), InProgress(plan), todo = <<>>
  PROVE  InitializeDone(g, d)
  <1> DEFINE S == {ConfigShard(g)}
  <1>1. \A k \in 1 .. 1 : Achieved(plan[k], shards, work)
    BY Completed DEF InitializeItems
  <1>2. \A s \in Selectors : s \notin S => work[s] = shards[s]
    <2>1. /\ Touched(plan[1]) = {ConfigShard(g)}
      BY DEF InitializeItems, Effect, merkle_call, native_payment, Touched, TreeShard
    <2>2. \A k \in 1 .. 1 : Touched(plan[k]) \subseteq S
      BY <2>1
    <2>3. QED
      BY <2>2, Rest DEF InitializeItems
  <1>3. /\ shards[ConfigShard(g)] = Empty
          /\ work[ConfigShard(g)] = [tree_id |-> g[2],
                               merkle_program_id |-> d.merkle_program_id,
                               price_per_unit |-> d.price_per_unit,
                               treasury_account_id |-> d.treasury_account_id,
                               total_registrations |-> 0,
                               max_total_rate_limit |-> d.max_total_rate_limit,
                               current_total_rate_limit |-> 0,
                               active_duration_sec |-> d.active_duration_sec,
                               grace_period_duration_sec |-> d.grace_period_duration_sec]
    BY <1>1, EffectDone, ApplyCases DEF InitializeItems, InitConfig
  <1>4. BalancesSame /\ MembersSame(g) /\ TreesSame(g)
    <2>1. \A x : native_balance(x) \notin S
      BY ShardsNamed, OtherShards, ShardsApart
    <2>2. \A d0 \in Commitments : MemberShard(g, d0) \notin S
      BY ShardsNamed, OtherShards, ShardsApart
    <2>3. \A p \in MerklePrograms : TreeShard(g, p) \notin S
      BY ShardsNamed, OtherShards, ShardsApart
    <2> HIDE DEF S
    <2>4. QED
      BY <1>2, <2>1, <2>2, <2>3, Bystanders
  <1>5. ElsewhereSame(g)
    <2>1. \A s \in S : \/ s \in {clock_shard, ConfigShard(g)}
                       \/ \E x : s = native_balance(x)
                       \/ \E d0 \in Commitments : s = MemberShard(g, d0)
                       \/ \E p \in MerklePrograms : s = TreeShard(g, p)
      OBVIOUS
    <2>2. work[clock_shard] = shards[clock_shard]
      BY <1>2, ShardsNamed, OtherShards
    <2> HIDE DEF S
    <2>3. QED
      BY <1>2, <2>1, <2>2, Away DEF ElsewhereSame
  <1>6. QED
    BY <1>3, <1>4, <1>5 DEF InitializeDone

LEMMA InitializeMerkleTreeOutcome ==
  ASSUME NEW g \in Registries, NEW m \in MerklePrograms,
         NEW plan, InitializeMerkleTreeItems(plan, g, m),
         WellPlanned(plan), InProgress(plan), todo = <<>>
  PROVE  InitializeMerkleTreeDone(g, m)
  <1> DEFINE S == {ConfigShard(g), TreeShard(g, m)}
  <1>1. \A k \in 1 .. 2 : Achieved(plan[k], shards, work)
    BY Completed DEF InitializeMerkleTreeItems
  <1>2. \A s \in Selectors : s \notin S => work[s] = shards[s]
    <2>1. /\ Touched(plan[1]) = {ConfigShard(g)}
          /\ Touched(plan[2]) = {TreeShard(g, m)}
      BY DEF InitializeMerkleTreeItems, Effect, merkle_call, native_payment, Touched, TreeShard
    <2>2. \A k \in 1 .. 2 : Touched(plan[k]) \subseteq S
      BY <2>1
    <2>3. QED
      BY <2>2, Rest DEF InitializeMerkleTreeItems
  <1>3. TreeShard(g, m)[2] = m /\ TreeShard(g, m) = <<TreeShard(g, m)[1], TreeShard(g, m)[2]>>
    BY DEF TreeShard
  <1>4. ConfigNames(g, m) /\ ConfigSame(g)
    BY <1>1, EffectDone, ApplyCases
       DEF InitializeMerkleTreeItems, InitTreeGuard, assert_config_ids, ConfigNames, ConfigSame
  <1>5. /\ shards[TreeShard(g, m)] = Empty
        /\ work[TreeShard(g, m)] = [next_index |-> 0, leaves |-> [i \in Indices |-> ZERO]]
    <2> DEFINE e == plan[2].ix
    <2>1. /\ e.op = "Initialize"
          /\ plan[2] = merkle_call(g[1], m, TreeShard(g, m), g[2], e)
      BY DEF InitializeMerkleTreeItems, merkle_call
    <2> HIDE DEF e
    <2>2. apply(e, shards[TreeShard(g, m)]) # Refused /\ work[TreeShard(g, m)] = apply(e, shards[TreeShard(g, m)])
      <3>1. Achieved(plan[2], shards, work)
        BY <1>1
      <3>2. QED
        BY <2>1, <3>1, <1>3, CallDone
    <2>3. apply(e, shards[TreeShard(g, m)]) = initialize_tree(shards[TreeShard(g, m)])
      BY <2>1, ApplyCases
    <2>4. QED
      BY <2>1, <2>2, <2>3 DEF initialize_tree
  <1>6. BalancesSame /\ MembersSame(g) /\ TreesAfter(g, m, work[TreeShard(g, m)])
    <2>1. \A x : native_balance(x) \notin S
      BY ShardsNamed, OtherShards, ShardsApart
    <2>2. \A d0 \in Commitments : MemberShard(g, d0) \notin S
      BY ShardsNamed, OtherShards, ShardsApart
    <2>3. \A p \in MerklePrograms : p # m => TreeShard(g, p) \notin S
      BY ShardsNamed, OtherShards, ShardsApart
    <2> HIDE DEF S
    <2>4. QED
      BY <1>2, <2>1, <2>2, <2>3, Bystanders
  <1>7. ElsewhereSame(g)
    <2>1. \A s \in S : \/ s \in {clock_shard, ConfigShard(g)}
                       \/ \E x : s = native_balance(x)
                       \/ \E d0 \in Commitments : s = MemberShard(g, d0)
                       \/ \E p \in MerklePrograms : s = TreeShard(g, p)
      OBVIOUS
    <2>2. work[clock_shard] = shards[clock_shard]
      BY <1>2, ShardsNamed, OtherShards
    <2> HIDE DEF S
    <2>3. QED
      BY <1>2, <2>1, <2>2, Away DEF ElsewhereSame
  <1>8. QED
    BY <1>4, <1>5, <1>6, <1>7 DEF InitializeMerkleTreeDone

LEMMA RegisterOutcome ==
  ASSUME NEW g \in Registries, NEW m \in MerklePrograms, NEW c \in Commitments, NEW rate,
         NEW claim \in Deployments, NEW now, NEW payer \in Payers,
         NEW plan, RegisterItems(plan, g, m, c, rate, claim, now, payer),
         WellPlanned(plan), InProgress(plan), todo = <<>>
  PROVE  RegisterDone(g, m, c, rate, claim, now, payer)
  <1> DEFINE a == native_balance(payer)
             b == native_balance(claim.treasury_account_id)
             S == {ConfigShard(g), clock_shard, MemberShard(g, c), a, b, TreeShard(g, m)}
  <1>1. \A k \in 1 .. 5 : Achieved(plan[k], shards, work)
    BY Completed DEF RegisterItems
  <1>2. \A s \in Selectors : s \notin S => work[s] = shards[s]
    <2>1. /\ Touched(plan[1]) = {ConfigShard(g)}
          /\ Touched(plan[2]) = {clock_shard}
          /\ Touched(plan[3]) = {MemberShard(g, c)}
          /\ Touched(plan[4]) = {a, b}
          /\ Touched(plan[5]) = {TreeShard(g, m)}
      BY DEF RegisterItems, Effect, merkle_call, native_payment, Touched, TreeShard
    <2>2. \A k \in 1 .. 5 : Touched(plan[k]) \subseteq S
      BY <2>1
    <2>3. QED
      BY <2>2, Rest DEF RegisterItems
  <1>3. TreeShard(g, m)[2] = m /\ TreeShard(g, m) = <<TreeShard(g, m)[1], TreeShard(g, m)[2]>>
    BY DEF TreeShard
  <1>4. /\ ConfigNames(g, m) /\ ConfigSells(g, claim)
        /\ shards[ConfigShard(g)].active_duration_sec = claim.active_duration_sec
        /\ shards[ConfigShard(g)].grace_period_duration_sec = claim.grace_period_duration_sec
        /\ can_register(shards[ConfigShard(g)], rate)
        /\ work[ConfigShard(g)] =
             [shards[ConfigShard(g)] EXCEPT !.total_registrations = saturating_add(@, 1),
                                            !.current_total_rate_limit = saturating_add(@, rate)]
    <2> DEFINE e == plan[1].effect
    <2>1. /\ e.op = "RegisterConfig" /\ e.rate_limit = rate /\ e.merkle_program_id = m /\ e.claim = claim
          /\ plan[1] = Effect(ConfigShard(g), e)
      BY DEF RegisterItems, Effect
    <2> HIDE DEF e
    <2>2. apply(e, shards[ConfigShard(g)]) # Refused /\ work[ConfigShard(g)] = apply(e, shards[ConfigShard(g)])
      <3>1. Achieved(plan[1], shards, work)
        BY <1>1
      <3>2. QED
        BY <2>1, <3>1, EffectDone
    <2>3. apply(e, shards[ConfigShard(g)]) = RegisterConfig(e, shards[ConfigShard(g)])
      BY <2>1, ApplyCases
    <2>4. QED
      BY <2>1, <2>2, <2>3
         DEF RegisterConfig, assert_config_ids, claims_price_and_payee, ConfigNames, ConfigSells
  <1>5. assert_clock_is(shards[clock_shard], now) /\ work[clock_shard] = shards[clock_shard]
    BY <1>1, EffectDone, ApplyCases DEF RegisterItems, ClockIs
  <1>6. /\ shards[MemberShard(g, c)] = Empty
        /\ work[MemberShard(g, c)] =
             [id_commitment |-> c, rate_limit |-> rate,
              grace_period_start_timestamp_ms |->
                  saturating_add(now, secs_to_millis(claim.active_duration_sec)),
              active_duration_sec |-> claim.active_duration_sec,
              grace_period_duration_sec |-> claim.grace_period_duration_sec]
    BY <1>1, EffectDone, ApplyCases DEF RegisterItems, InitMembership
  <1>7. LET amount == calculate_payment_amount(rate, claim.price_per_unit)
        IN  amount <= shards[a] /\ work[a] = shards[a] - amount /\ work[b] = shards[b] + amount
    BY <1>1, PaymentDone DEF RegisterItems
  <1>8. LET tree == shards[TreeShard(g, m)]
        IN  /\ tree # Empty /\ tree.next_index < TREE_LEAVES
            /\ work[TreeShard(g, m)] =
                 [next_index |-> tree.next_index + 1,
                  leaves |-> [tree.leaves EXCEPT ![tree.next_index] =
                                compute_registration_leaf(c, rate)]]
    <2> DEFINE e == plan[5].ix
    <2>1. /\ e.op = "Insert" /\ e.leaf = compute_registration_leaf(c, rate)
          /\ plan[5] = merkle_call(g[1], m, TreeShard(g, m), g[2], e)
      BY DEF RegisterItems, merkle_call
    <2> HIDE DEF e
    <2>2. apply(e, shards[TreeShard(g, m)]) # Refused /\ work[TreeShard(g, m)] = apply(e, shards[TreeShard(g, m)])
      <3>1. Achieved(plan[5], shards, work)
        BY <1>1
      <3>2. QED
        BY <2>1, <3>1, <1>3, CallDone
    <2>3. apply(e, shards[TreeShard(g, m)]) = insert_leaf(shards[TreeShard(g, m)], e.leaf)
      BY <2>1, ApplyCases
    <2>4. QED
      BY <2>1, <2>2, <2>3 DEF insert_leaf
  <1> HIDE DEF a, b
  <1>9. Payment(rate, claim, payer)
    <2>1. payer # claim.treasury_account_id
      BY ChainAssumption
    <2>2. ASSUME NEW x \in Payers \cup Treasuries, x # payer, x # claim.treasury_account_id
          PROVE  work[native_balance(x)] = shards[native_balance(x)]
      <3>1. native_balance(x) \in Selectors /\ native_balance(x) \notin S
        BY <2>2, ShardsNamed, OtherShards DEF a, b
      <3>2. QED
        BY <1>2, <3>1
    <2>3. QED
      BY <1>7, <2>1, <2>2 DEF Payment, BalancesAfter, a, b
  <1>10. MembersAfter(g, c, work[MemberShard(g, c)]) /\ TreesAfter(g, m, work[TreeShard(g, m)])
    <2>1. \A d0 \in Commitments : d0 # c => MemberShard(g, d0) \notin S
      BY ShardsNamed, OtherShards, ShardsApart DEF a, b
    <2>2. \A p \in MerklePrograms : p # m => TreeShard(g, p) \notin S
      BY ShardsNamed, OtherShards, ShardsApart DEF a, b
    <2> HIDE DEF S
    <2>3. QED
      BY <1>2, <2>1, <2>2, Bystanders
  <1>11. ElsewhereSame(g)
    <2>1. \A s \in S : \/ s \in {clock_shard, ConfigShard(g)}
                       \/ \E x : s = native_balance(x)
                       \/ \E d0 \in Commitments : s = MemberShard(g, d0)
                       \/ \E p \in MerklePrograms : s = TreeShard(g, p)
      BY DEF a, b
    <2>2. work[clock_shard] = shards[clock_shard]
      BY <1>5
    <2> HIDE DEF S
    <2>3. QED
      BY <1>2, <2>1, <2>2, Away DEF ElsewhereSame
  <1>12. QED
    BY <1>4, <1>5, <1>6, <1>7, <1>8, <1>9, <1>10, <1>11 DEF RegisterDone

LEMMA SlashOutcome ==
  ASSUME NEW g \in Registries, NEW m \in MerklePrograms, NEW c \in Commitments, NEW rate, NEW i,
         NEW plan, SlashItems(plan, g, m, c, rate, i),
         WellPlanned(plan), InProgress(plan), todo = <<>>
  PROVE  Removal(g, m, c, rate, i)
  <1> DEFINE S == {ConfigShard(g), MemberShard(g, c), TreeShard(g, m)}
  <1>1. \A k \in 1 .. 3 : Achieved(plan[k], shards, work)
    BY Completed DEF SlashItems
  <1>2. \A s \in Selectors : s \notin S => work[s] = shards[s]
    <2>1. /\ Touched(plan[1]) = {ConfigShard(g)}
          /\ Touched(plan[2]) = {MemberShard(g, c)}
          /\ Touched(plan[3]) = {TreeShard(g, m)}
      BY DEF SlashItems, Effect, merkle_call, native_payment, Touched, TreeShard
    <2>2. \A k \in 1 .. 3 : Touched(plan[k]) \subseteq S
      BY <2>1
    <2>3. QED
      BY <2>2, Rest DEF SlashItems
  <1>3. TreeShard(g, m)[2] = m /\ TreeShard(g, m) = <<TreeShard(g, m)[1], TreeShard(g, m)[2]>>
    BY DEF TreeShard
  <1>4. /\ ConfigNames(g, m)
        /\ work[ConfigShard(g)] =
             [shards[ConfigShard(g)] EXCEPT
                !.current_total_rate_limit = saturating_sub(@, rate),
                !.total_registrations = saturating_sub(@, 1)]
    <2> DEFINE e == plan[1].effect
    <2>1. /\ e.op = "ReleaseConfig" /\ e.rate_limit = rate /\ e.merkle_program_id = m
          /\ plan[1] = Effect(ConfigShard(g), e)
      BY DEF SlashItems, Effect
    <2> HIDE DEF e
    <2>2. apply(e, shards[ConfigShard(g)]) # Refused /\ work[ConfigShard(g)] = apply(e, shards[ConfigShard(g)])
      <3>1. Achieved(plan[1], shards, work)
        BY <1>1
      <3>2. QED
        BY <2>1, <3>1, EffectDone
    <2>3. apply(e, shards[ConfigShard(g)]) = ReleaseConfig(e, shards[ConfigShard(g)])
      BY <2>1, ApplyCases
    <2>4. QED
      BY <2>1, <2>2, <2>3 DEF ReleaseConfig, assert_config_ids, ConfigNames
  <1>5. /\ shards[MemberShard(g, c)] # Empty /\ shards[MemberShard(g, c)].rate_limit = rate
        /\ work[MemberShard(g, c)] = Empty
    BY <1>1, EffectDone, ApplyCases DEF SlashItems, SlashMembership
  <1>6. LET tree == shards[TreeShard(g, m)]
        IN  /\ tree # Empty /\ i < tree.next_index
            /\ tree.leaves[i] = compute_registration_leaf(c, rate)
            /\ work[TreeShard(g, m)] = [tree EXCEPT !.leaves[i] = ZERO]
    <2> DEFINE e == plan[3].ix
    <2>1. /\ e.op = "Remove" /\ e.index = i /\ e.leaf = compute_registration_leaf(c, rate)
          /\ plan[3] = merkle_call(g[1], m, TreeShard(g, m), g[2], e)
      BY DEF SlashItems, merkle_call
    <2> HIDE DEF e
    <2>2. apply(e, shards[TreeShard(g, m)]) # Refused /\ work[TreeShard(g, m)] = apply(e, shards[TreeShard(g, m)])
      <3>1. Achieved(plan[3], shards, work)
        BY <1>1
      <3>2. QED
        BY <2>1, <3>1, <1>3, CallDone
    <2>3. apply(e, shards[TreeShard(g, m)]) = remove_leaf(shards[TreeShard(g, m)], e.index, e.leaf)
      BY <2>1, ApplyCases
    <2>4. QED
      BY <2>1, <2>2, <2>3 DEF remove_leaf
  <1>7. BalancesSame /\ MembersAfter(g, c, work[MemberShard(g, c)]) /\ TreesAfter(g, m, work[TreeShard(g, m)])
    <2>1. \A x : native_balance(x) \notin S
      BY ShardsNamed, OtherShards, ShardsApart
    <2>2. \A d0 \in Commitments : d0 # c => MemberShard(g, d0) \notin S
      BY ShardsNamed, OtherShards, ShardsApart
    <2>3. \A p \in MerklePrograms : p # m => TreeShard(g, p) \notin S
      BY ShardsNamed, OtherShards, ShardsApart
    <2> HIDE DEF S
    <2>4. QED
      BY <1>2, <2>1, <2>2, <2>3, Bystanders
  <1>8. ElsewhereSame(g)
    <2>1. \A s \in S : \/ s \in {clock_shard, ConfigShard(g)}
                       \/ \E x : s = native_balance(x)
                       \/ \E d0 \in Commitments : s = MemberShard(g, d0)
                       \/ \E p \in MerklePrograms : s = TreeShard(g, p)
      OBVIOUS
    <2>2. work[clock_shard] = shards[clock_shard]
      BY <1>2, ShardsNamed, OtherShards
    <2> HIDE DEF S
    <2>3. QED
      BY <1>2, <2>1, <2>2, Away DEF ElsewhereSame
  <1>9. QED
    BY <1>4, <1>5, <1>6, <1>7, <1>8 DEF Removal

LEMMA ExtendOutcome ==
  ASSUME NEW g \in Registries, NEW c \in Commitments, NEW rate,
         NEW claim \in Deployments, NEW now, NEW payer \in Payers,
         NEW plan, ExtendItems(plan, g, c, rate, claim, now, payer),
         WellPlanned(plan), InProgress(plan), todo = <<>>
  PROVE  ExtendDone(g, c, rate, claim, now, payer)
  <1> DEFINE a == native_balance(payer)
             b == native_balance(claim.treasury_account_id)
             S == {ConfigShard(g), clock_shard, MemberShard(g, c), a, b}
  <1>1. \A k \in 1 .. 4 : Achieved(plan[k], shards, work)
    BY Completed DEF ExtendItems
  <1>2. \A s \in Selectors : s \notin S => work[s] = shards[s]
    <2>1. /\ Touched(plan[1]) = {ConfigShard(g)}
          /\ Touched(plan[2]) = {clock_shard}
          /\ Touched(plan[3]) = {MemberShard(g, c)}
          /\ Touched(plan[4]) = {a, b}
      BY DEF ExtendItems, Effect, merkle_call, native_payment, Touched, TreeShard
    <2>2. \A k \in 1 .. 4 : Touched(plan[k]) \subseteq S
      BY <2>1
    <2>3. QED
      BY <2>2, Rest DEF ExtendItems
  <1>3. ConfigSells(g, claim) /\ ConfigSame(g)
    BY <1>1, EffectDone, ApplyCases
       DEF ExtendItems, ExtendConfig, claims_price_and_payee, ConfigSells, ConfigSame
  <1>4. assert_clock_is(shards[clock_shard], now) /\ work[clock_shard] = shards[clock_shard]
    BY <1>1, EffectDone, ApplyCases DEF ExtendItems, ClockIs
  <1>5. LET member == shards[MemberShard(g, c)]
        IN  /\ member # Empty /\ member.rate_limit = rate
            /\ is_in_grace_period(member.grace_period_start_timestamp_ms,
                                  secs_to_millis(member.grace_period_duration_sec), now)
            /\ work[MemberShard(g, c)] = [member EXCEPT !.grace_period_start_timestamp_ms =
                 saturating_add(
                   saturating_add(@, secs_to_millis(member.grace_period_duration_sec)),
                   secs_to_millis(member.active_duration_sec))]
    BY <1>1, EffectDone, ApplyCases DEF ExtendItems, ExtendMembership
  <1>6. LET amount == calculate_payment_amount(rate, claim.price_per_unit)
        IN  amount <= shards[a] /\ work[a] = shards[a] - amount /\ work[b] = shards[b] + amount
    BY <1>1, PaymentDone DEF ExtendItems
  <1> HIDE DEF a, b
  <1>7. Payment(rate, claim, payer)
    <2>1. payer # claim.treasury_account_id
      BY ChainAssumption
    <2>2. ASSUME NEW x \in Payers \cup Treasuries, x # payer, x # claim.treasury_account_id
          PROVE  work[native_balance(x)] = shards[native_balance(x)]
      <3>1. native_balance(x) \in Selectors /\ native_balance(x) \notin S
        BY <2>2, ShardsNamed, OtherShards DEF a, b
      <3>2. QED
        BY <1>2, <3>1
    <2>3. QED
      BY <1>6, <2>1, <2>2 DEF Payment, BalancesAfter, a, b
  <1>8. MembersAfter(g, c, work[MemberShard(g, c)]) /\ TreesSame(g)
    <2>1. \A d0 \in Commitments : d0 # c => MemberShard(g, d0) \notin S
      BY ShardsNamed, OtherShards, ShardsApart DEF a, b
    <2>2. \A p \in MerklePrograms : TreeShard(g, p) \notin S
      BY ShardsNamed, OtherShards, ShardsApart DEF a, b
    <2> HIDE DEF S
    <2>3. QED
      BY <1>2, <2>1, <2>2, Bystanders
  <1>9. ElsewhereSame(g)
    <2>1. \A s \in S : \/ s \in {clock_shard, ConfigShard(g)}
                       \/ \E x : s = native_balance(x)
                       \/ \E d0 \in Commitments : s = MemberShard(g, d0)
                       \/ \E p \in MerklePrograms : s = TreeShard(g, p)
      BY DEF a, b
    <2>2. work[clock_shard] = shards[clock_shard]
      BY <1>4
    <2> HIDE DEF S
    <2>3. QED
      BY <1>2, <2>1, <2>2, Away DEF ElsewhereSame
  <1>10. QED
    BY <1>3, <1>4, <1>5, <1>6, <1>7, <1>8, <1>9 DEF ExtendDone

LEMMA EraseOutcome ==
  ASSUME NEW g \in Registries, NEW m \in MerklePrograms, NEW c \in Commitments, NEW rate, NEW i,
         NEW now,
         NEW plan, EraseItems(plan, g, m, c, rate, i, now),
         WellPlanned(plan), InProgress(plan), todo = <<>>
  PROVE  EraseDone(g, m, c, rate, i, now)
  <1> DEFINE S == {ConfigShard(g), clock_shard, MemberShard(g, c), TreeShard(g, m)}
  <1>1. \A k \in 1 .. 4 : Achieved(plan[k], shards, work)
    BY Completed DEF EraseItems
  <1>2. \A s \in Selectors : s \notin S => work[s] = shards[s]
    <2>1. /\ Touched(plan[1]) = {ConfigShard(g)}
          /\ Touched(plan[2]) = {clock_shard}
          /\ Touched(plan[3]) = {MemberShard(g, c)}
          /\ Touched(plan[4]) = {TreeShard(g, m)}
      BY DEF EraseItems, Effect, merkle_call, native_payment, Touched, TreeShard
    <2>2. \A k \in 1 .. 4 : Touched(plan[k]) \subseteq S
      BY <2>1
    <2>3. QED
      BY <2>2, Rest DEF EraseItems
  <1>3. TreeShard(g, m)[2] = m /\ TreeShard(g, m) = <<TreeShard(g, m)[1], TreeShard(g, m)[2]>>
    BY DEF TreeShard
  <1>4. /\ ConfigNames(g, m)
        /\ work[ConfigShard(g)] =
             [shards[ConfigShard(g)] EXCEPT
                !.current_total_rate_limit = saturating_sub(@, rate),
                !.total_registrations = saturating_sub(@, 1)]
    <2> DEFINE e == plan[1].effect
    <2>1. /\ e.op = "ReleaseConfig" /\ e.rate_limit = rate /\ e.merkle_program_id = m
          /\ plan[1] = Effect(ConfigShard(g), e)
      BY DEF EraseItems, Effect
    <2> HIDE DEF e
    <2>2. apply(e, shards[ConfigShard(g)]) # Refused /\ work[ConfigShard(g)] = apply(e, shards[ConfigShard(g)])
      <3>1. Achieved(plan[1], shards, work)
        BY <1>1
      <3>2. QED
        BY <2>1, <3>1, EffectDone
    <2>3. apply(e, shards[ConfigShard(g)]) = ReleaseConfig(e, shards[ConfigShard(g)])
      BY <2>1, ApplyCases
    <2>4. QED
      BY <2>1, <2>2, <2>3 DEF ReleaseConfig, assert_config_ids, ConfigNames
  <1>5. assert_clock_is(shards[clock_shard], now) /\ work[clock_shard] = shards[clock_shard]
    BY <1>1, EffectDone, ApplyCases DEF EraseItems, ClockIs
  <1>6. /\ shards[MemberShard(g, c)] # Empty /\ shards[MemberShard(g, c)].rate_limit = rate
        /\ is_expired(shards[MemberShard(g, c)].grace_period_start_timestamp_ms,
                      secs_to_millis(shards[MemberShard(g, c)].grace_period_duration_sec), now)
        /\ work[MemberShard(g, c)] = Empty
    BY <1>1, EffectDone, ApplyCases DEF EraseItems, EraseMembership
  <1>7. LET tree == shards[TreeShard(g, m)]
        IN  /\ tree # Empty /\ i < tree.next_index
            /\ tree.leaves[i] = compute_registration_leaf(c, rate)
            /\ work[TreeShard(g, m)] = [tree EXCEPT !.leaves[i] = ZERO]
    <2> DEFINE e == plan[4].ix
    <2>1. /\ e.op = "Remove" /\ e.index = i /\ e.leaf = compute_registration_leaf(c, rate)
          /\ plan[4] = merkle_call(g[1], m, TreeShard(g, m), g[2], e)
      BY DEF EraseItems, merkle_call
    <2> HIDE DEF e
    <2>2. apply(e, shards[TreeShard(g, m)]) # Refused /\ work[TreeShard(g, m)] = apply(e, shards[TreeShard(g, m)])
      <3>1. Achieved(plan[4], shards, work)
        BY <1>1
      <3>2. QED
        BY <2>1, <3>1, <1>3, CallDone
    <2>3. apply(e, shards[TreeShard(g, m)]) = remove_leaf(shards[TreeShard(g, m)], e.index, e.leaf)
      BY <2>1, ApplyCases
    <2>4. QED
      BY <2>1, <2>2, <2>3 DEF remove_leaf
  <1>8. BalancesSame /\ MembersAfter(g, c, work[MemberShard(g, c)]) /\ TreesAfter(g, m, work[TreeShard(g, m)])
    <2>1. \A x : native_balance(x) \notin S
      BY ShardsNamed, OtherShards, ShardsApart
    <2>2. \A d0 \in Commitments : d0 # c => MemberShard(g, d0) \notin S
      BY ShardsNamed, OtherShards, ShardsApart
    <2>3. \A p \in MerklePrograms : p # m => TreeShard(g, p) \notin S
      BY ShardsNamed, OtherShards, ShardsApart
    <2> HIDE DEF S
    <2>4. QED
      BY <1>2, <2>1, <2>2, <2>3, Bystanders
  <1>9. ElsewhereSame(g)
    <2>1. \A s \in S : \/ s \in {clock_shard, ConfigShard(g)}
                       \/ \E x : s = native_balance(x)
                       \/ \E d0 \in Commitments : s = MemberShard(g, d0)
                       \/ \E p \in MerklePrograms : s = TreeShard(g, p)
      OBVIOUS
    <2>2. work[clock_shard] = shards[clock_shard]
      BY <1>5
    <2> HIDE DEF S
    <2>3. QED
      BY <1>2, <2>1, <2>2, Away DEF ElsewhereSame
  <1>10. QED
    BY <1>4, <1>5, <1>6, <1>7, <1>8, <1>9 DEF EraseDone, Removal

\* A foreign call is refused: Foreign's seeds derive no account of a registry.
LEMMA ForeignRefused ==
  ASSUME NEW g \in Registries, NEW m, NEW ix
  PROVE  ~merkle_plan(merkle_call(Foreign, m, TreeShard(g, m), g[2], ix))
  <1>1. g[1] # Foreign
    BY RegistryPair
  <1>2. QED
    BY <1>1 DEF merkle_plan, authorized, merkle_call, TreeShard, for_public_pda

LEMMA ForeignOutcome ==
  ASSUME NEW g \in Registries, NEW m, NEW ix, NEW plan, ForeignItems(plan, g, m, ix),
         WellPlanned(plan), InProgress(plan)
  PROVE  todo # <<>>
  <1> SUFFICES ASSUME todo = <<>> PROVE FALSE
    OBVIOUS
  <1>1. Achieved(plan[1], shards, work)
    BY Completed DEF ForeignItems
  <1>2. merkle_plan(plan[1])
    BY <1>1 DEF Achieved, ForeignItems, merkle_call
  <1>3. QED
    BY <1>2, ForeignRefused DEF ForeignItems

-----------------------------------------------------------------------------
(***************************************************************************)
(* Submitting.                                                             *)
(***************************************************************************)

Submitted(job) ==
    /\ tx = None /\ tx' = job[1] /\ todo' = job[2]
    /\ UNCHANGED <<shards, work, revealed, ledger>>

LEMMA InitializeJob ==
  ASSUME NEW g \in Registries, NEW d \in Deployments, Initialize(g[1], g[2], d)
  PROVE  \E job \in InitializeJobs : Submitted(job)
  <1> DEFINE job == <<Tx("Initialize", g[1], g[2]), InitializePlan(g[2], d, ConfigShard(g))>>
  <1>1. job \in InitializeJobs
    BY DEF Initialize, InitializeJobs
  <1>2. Begin(Tx("Initialize", g[1], g[2]), InitializePlan(g[2], d, ConfigShard(g)))
    BY OwnShard DEF Initialize
  <1>3. QED
    BY <1>1, <1>2 DEF Begin, Submitted

LEMMA InitializeMerkleTreeJob ==
  ASSUME NEW g \in Registries, NEW m \in MerklePrograms, InitializeMerkleTree(g[1], g[2], m)
  PROVE  \E job \in InitializeMerkleTreeJobs : Submitted(job)
  <1> DEFINE t == Tx("InitializeMerkleTree", g[1], g[2])
             plan == InitializeMerkleTreePlan(g[1], g[2], m, ConfigShard(g), TreeShard(g, m))
  <1>1. <<t, plan>> \in InitializeMerkleTreeJobs
    BY DEF InitializeMerkleTreeJobs
  <1>2. Begin(t, plan)
    BY OwnShard DEF InitializeMerkleTree
  <1>3. QED
    BY <1>1, <1>2 DEF Begin, Submitted

LEMMA RegisterJob ==
  ASSUME NEW g \in Registries, NEW c \in Commitments, NEW rate \in RateLimits,
         NEW claim \in Deployments, NEW now \in Instants, NEW payer \in Payers,
         Register(g[1], g[2], c, rate, claim, now, payer)
  PROVE  \E job \in RegisterJobs : Submitted(job)
  <1> DEFINE t == RegisterTx(g[1], g[2], c, rate, claim, now, payer)
             plan == RegisterPlan(g[1], g[2], c, rate, claim, now, payer, ConfigShard(g),
                                  TreeShard(g, claim.merkle_program_id), MemberShard(g, c))
  <1>1. <<t, plan>> \in RegisterJobs
    BY DEF RegisterJobs, Register
  <1>2. Begin(t, plan)
    BY OwnShard DEF Register
  <1>3. QED
    BY <1>1, <1>2 DEF Begin, Submitted

LEMMA SlashJob ==
  ASSUME NEW g \in Registries, NEW s \in Secrets, NEW c \in Commitments, NEW rate \in RateLimits,
         NEW m \in MerklePrograms, NEW i \in Indices, Slash(g[1], g[2], s, c, rate, m, i)
  PROVE  /\ \E job \in SlashJobs : Submitted(job)
         /\ \E x \in revealed : hash_single[x] = tx'.id_commitment
  <1> DEFINE t == MemberTx("Slash", g[1], g[2], c, rate, 0)
             plan == SlashPlan(g[1], g[2], c, rate, m, i, ConfigShard(g), TreeShard(g, m),
                               MemberShard(g, c))
  <1>1. <<t, plan>> \in SlashJobs
    BY DEF SlashJobs
  <1>2. Begin(t, plan) /\ s \in revealed /\ hash_single[s] = c
    BY OwnShard DEF Slash
  <1>3. t.id_commitment = c
    BY DEF MemberTx, Tx
  <1>4. QED
    BY <1>1, <1>2, <1>3 DEF Begin, Submitted

LEMMA ExtendJob ==
  ASSUME NEW g \in Registries, NEW c \in Commitments, NEW rate \in RateLimits,
         NEW claim \in Deployments, NEW now \in Instants, NEW payer \in Payers,
         Extend(g[1], g[2], c, rate, claim, now, payer)
  PROVE  \E job \in ExtendJobs : Submitted(job)
  <1> DEFINE t == ExtendTx(g[1], g[2], c, rate, claim, now, payer)
             plan == ExtendPlan(g[2], rate, claim, now, payer, ConfigShard(g), MemberShard(g, c))
  <1>1. <<t, plan>> \in ExtendJobs
    BY DEF ExtendJobs
  <1>2. Begin(t, plan)
    BY OwnShard DEF Extend
  <1>3. QED
    BY <1>1, <1>2 DEF Begin, Submitted

LEMMA EraseJob ==
  ASSUME NEW g \in Registries, NEW c \in Commitments, NEW rate \in RateLimits,
         NEW m \in MerklePrograms, NEW i \in Indices, NEW now \in Instants,
         Erase(g[1], g[2], c, rate, m, i, now)
  PROVE  \E job \in EraseJobs : Submitted(job)
  <1> DEFINE t == MemberTx("Erase", g[1], g[2], c, rate, now)
             plan == ErasePlan(g[1], g[2], c, rate, m, i, now, ConfigShard(g), TreeShard(g, m),
                               MemberShard(g, c))
  <1>1. <<t, plan>> \in EraseJobs
    BY DEF EraseJobs
  <1>2. Begin(t, plan)
    BY OwnShard DEF Erase
  <1>3. QED
    BY <1>1, <1>2 DEF Begin, Submitted

LEMMA ForeignJob ==
  ASSUME NEW g \in Registries, NEW m \in MerklePrograms, NEW ix \in MerkleInstructions,
         ForeignCall(m, g, ix)
  PROVE  \E job \in ForeignJobs : Submitted(job)
  <1> DEFINE t == Tx("Foreign", Foreign, g[2])
             plan == <<merkle_call(Foreign, m, TreeShard(g, m), g[2], ix)>>
  <1>1. <<t, plan>> \in ForeignJobs
    BY DEF ForeignJobs
  <1>2. Begin(t, plan)
    BY DEF ForeignCall, TreeShard
  <1>3. QED
    BY <1>1, <1>2 DEF Begin, Submitted

\* The fields of a transaction that a proof looks at.
LEMMA TxFields ==
  /\ \A op, self, t : LET x == Tx(op, self, t)
                      IN  /\ x.op = op /\ x.program = self /\ x.tree_id = t
                          /\ x.id_commitment = None /\ x.amount = 0
  /\ \A op, self, t, c, rate, now :
        LET x == MemberTx(op, self, t, c, rate, now)
        IN  /\ x.op = op /\ x.program = self /\ x.tree_id = t
            /\ x.id_commitment = c /\ x.amount = 0 /\ x.rate_limit = rate /\ x.now_ms = now
  /\ \A self, t, c, rate, claim, now, payer :
        \A x \in {RegisterTx(self, t, c, rate, claim, now, payer),
                  ExtendTx(self, t, c, rate, claim, now, payer)} :
          /\ x.program = self /\ x.tree_id = t
          /\ x.id_commitment = c /\ x.rate_limit = rate /\ x.now_ms = now
          /\ x.payer = payer /\ x.treasury = claim.treasury_account_id
          /\ x.amount = calculate_payment_amount(rate, claim.price_per_unit)
  /\ \A self, t, c, rate, claim, now, payer :
        /\ RegisterTx(self, t, c, rate, claim, now, payer).op = "Register"
        /\ ExtendTx(self, t, c, rate, claim, now, payer).op = "Extend"
  <1>1. ASSUME NEW op, NEW self, NEW t
        PROVE  LET x == Tx(op, self, t)
               IN  /\ x.op = op /\ x.program = self /\ x.tree_id = t
                   /\ x.id_commitment = None /\ x.amount = 0
    BY DEF Tx
  <1>2. ASSUME NEW op, NEW self, NEW t, NEW c, NEW rate, NEW now
        PROVE  LET x == MemberTx(op, self, t, c, rate, now)
               IN  /\ x.op = op /\ x.program = self /\ x.tree_id = t
                   /\ x.id_commitment = c /\ x.amount = 0 /\ x.rate_limit = rate /\ x.now_ms = now
    BY DEF MemberTx, Tx
  <1>3. ASSUME NEW op, NEW self, NEW t, NEW c, NEW rate, NEW claim, NEW now, NEW payer
        PROVE  LET x == Pays(MemberTx(op, self, t, c, rate, now), payer, claim)
               IN  /\ x.op = op /\ x.program = self /\ x.tree_id = t
                   /\ x.id_commitment = c /\ x.rate_limit = rate /\ x.now_ms = now
                   /\ x.payer = payer /\ x.treasury = claim.treasury_account_id
                   /\ x.amount = calculate_payment_amount(rate, claim.price_per_unit)
    BY DEF Pays, MemberTx, Tx
  <1>4. QED
    BY <1>1, <1>2, <1>3 DEF RegisterTx, ExtendTx

-----------------------------------------------------------------------------
(***************************************************************************)
(* Committing: types, and what the payers have left.                       *)
(***************************************************************************)
LEMMA Arithmetic ==
  ASSUME NEW a \in Nat, NEW b \in Nat
  PROVE  /\ saturating_add(a, b) \in Nat /\ saturating_sub(a, b) \in Nat
         /\ secs_to_millis(a) \in Nat /\ calculate_payment_amount(a, b) \in Nat
  <1>1. b * a \in Nat
    OBVIOUS
  <1>2. QED
    BY <1>1, ChainAssumption
       DEF saturating_add, saturating_sub, secs_to_millis, calculate_payment_amount

\* A job is done: the transaction has run to the end of one of the six plans.
Settled ==
    \/ \E g \in Registries, d \in Deployments :
          /\ d.max_total_rate_limit > 0 /\ d.active_duration_sec > 0
          /\ tx = Tx("Initialize", g[1], g[2]) /\ InitializeDone(g, d)
    \/ \E g \in Registries, m \in MerklePrograms :
          tx = Tx("InitializeMerkleTree", g[1], g[2]) /\ InitializeMerkleTreeDone(g, m)
    \/ \E g \in Registries, m \in MerklePrograms, c \in Commitments, rate \in RateLimits,
          claim \in Deployments, now \in Instants, payer \in Payers :
          /\ validate_rate_limit(rate) /\ m = claim.merkle_program_id
          /\ tx = RegisterTx(g[1], g[2], c, rate, claim, now, payer)
          /\ RegisterDone(g, m, c, rate, claim, now, payer)
    \/ \E g \in Registries, m \in MerklePrograms, c \in Commitments, rate \in RateLimits,
          i \in Indices :
          tx = MemberTx("Slash", g[1], g[2], c, rate, 0) /\ Removal(g, m, c, rate, i)
    \/ \E g \in Registries, c \in Commitments, rate \in RateLimits,
          claim \in Deployments, now \in Instants, payer \in Payers :
          /\ tx = ExtendTx(g[1], g[2], c, rate, claim, now, payer)
          /\ ExtendDone(g, c, rate, claim, now, payer)
    \/ \E g \in Registries, m \in MerklePrograms, c \in Commitments, rate \in RateLimits,
          i \in Indices, now \in Instants :
          tx = MemberTx("Erase", g[1], g[2], c, rate, now) /\ EraseDone(g, m, c, rate, i, now)

LEMMA CommitSettled ==
  ASSUME JobInv, tx # None, todo = <<>>
  PROVE  Settled
  <1>1. PICK job \in Jobs : tx = job[1] /\ InProgress(job[2])
    BY DEF JobInv
  <1>2. WellPlanned(job[2])
    BY JobCases
  <1> DEFINE plan == job[2]
  <1> HIDE DEF plan
  <1>3. WellPlanned(plan) /\ InProgress(plan)
    BY <1>1, <1>2 DEF plan
  <1>4. ASSUME NEW g \in Registries, NEW d \in Deployments, InitializeItems(plan, g, d)
        PROVE  InitializeDone(g, d)
    BY <1>3, <1>4, InitializeOutcome
  <1>5. ASSUME NEW g \in Registries, NEW m \in MerklePrograms, InitializeMerkleTreeItems(plan, g, m)
        PROVE  InitializeMerkleTreeDone(g, m)
    BY <1>3, <1>5, InitializeMerkleTreeOutcome
  <1>6. ASSUME NEW g \in Registries, NEW m \in MerklePrograms, NEW c \in Commitments,
               NEW rate \in RateLimits, NEW claim \in Deployments, NEW now \in Instants,
               NEW payer \in Payers, RegisterItems(plan, g, m, c, rate, claim, now, payer)
        PROVE  RegisterDone(g, m, c, rate, claim, now, payer)
    BY <1>3, <1>6, RegisterOutcome
  <1>7. ASSUME NEW g \in Registries, NEW m \in MerklePrograms, NEW c \in Commitments,
               NEW rate \in RateLimits, NEW i \in Indices, SlashItems(plan, g, m, c, rate, i)
        PROVE  Removal(g, m, c, rate, i)
    BY <1>3, <1>7, SlashOutcome
  <1>8. ASSUME NEW g \in Registries, NEW c \in Commitments,
               NEW rate \in RateLimits, NEW claim \in Deployments, NEW now \in Instants,
               NEW payer \in Payers, ExtendItems(plan, g, c, rate, claim, now, payer)
        PROVE  ExtendDone(g, c, rate, claim, now, payer)
    BY <1>3, <1>8, ExtendOutcome
  <1>9. ASSUME NEW g \in Registries, NEW m \in MerklePrograms, NEW c \in Commitments,
               NEW rate \in RateLimits, NEW i \in Indices, NEW now \in Instants,
               EraseItems(plan, g, m, c, rate, i, now)
        PROVE  EraseDone(g, m, c, rate, i, now)
    BY <1>3, <1>9, EraseOutcome
  <1>10. ASSUME NEW g \in Registries, NEW m \in MerklePrograms, NEW ix, ForeignItems(plan, g, m, ix)
         PROVE  FALSE
    BY <1>3, <1>10, ForeignOutcome
  <1>11. QED
    BY <1>1, <1>4, <1>5, <1>6, <1>7, <1>8, <1>9, <1>10, JobCases DEF Settled, plan

\* The other registries keep their types.
LEMMA ElsewhereTyped ==
  ASSUME TypeInv, NEW g \in Registries, ElsewhereSame(g), RegistryTyped(work, g),
         \A a \in Payers \cup Treasuries : work[native_balance(a)] \in Nat
  PROVE  WellTyped(work)
  <1>1. ASSUME NEW h \in Registries PROVE RegistryTyped(work, h)
    BY DEF ElsewhereSame, TypeInv, WellTyped, RegistryTyped, ConfigSame, MembersSame, TreesSame
  <1>2. QED
    BY <1>1 DEF WellTyped, TypeInv

LEMMA BalancesTyped ==
  ASSUME TypeInv
  PROVE  /\ BalancesSame => \A a \in Payers \cup Treasuries : work[native_balance(a)] \in Nat
         /\ \A rate \in Nat, claim \in Deployments, payer \in Payers :
              Payment(rate, claim, payer)
                => \A a \in Payers \cup Treasuries : work[native_balance(a)] \in Nat
  <1>1. BalancesSame => \A a \in Payers \cup Treasuries : work[native_balance(a)] \in Nat
    BY DEF BalancesSame, TypeInv, WellTyped
  <1>2. ASSUME NEW rate \in Nat, NEW claim \in Deployments, NEW payer \in Payers,
               Payment(rate, claim, payer), NEW a \in Payers \cup Treasuries
        PROVE  work[native_balance(a)] \in Nat
    <2>1. claim.price_per_unit \in Nat
      BY ChainAssumption
    <2>2. calculate_payment_amount(rate, claim.price_per_unit) \in Nat
      BY <2>1, Arithmetic
    <2>3. shards[native_balance(a)] \in Nat
      BY DEF TypeInv, WellTyped
    <2>4. QED
      BY <1>2, <2>2, <2>3 DEF Payment, BalancesAfter
  <1>3. QED
    BY <1>1, <1>2

\* Each of the new records has its type.
LEMMA InitializeTyped ==
  ASSUME TypeInv, NEW g \in Registries, NEW d \in Deployments, InitializeDone(g, d)
  PROVE  WellTyped(work)
  <1>1. g[2] \in TreeIds /\ RegistryTyped(shards, g)
    BY RegistryPair DEF TypeInv, WellTyped
  <1>2. work[ConfigShard(g)] \in ConfigState(g[2])
    BY ChainAssumption DEF InitializeDone, ConfigState
  <1>3. RegistryTyped(work, g)
    BY <1>1, <1>2 DEF InitializeDone, RegistryTyped, MembersSame, TreesSame
  <1>4. QED
    BY <1>3, ElsewhereTyped, BalancesTyped DEF InitializeDone

LEMMA InitializeMerkleTreeTyped ==
  ASSUME TypeInv, NEW g \in Registries, NEW m \in MerklePrograms, InitializeMerkleTreeDone(g, m)
  PROVE  WellTyped(work)
  <1>1. RegistryTyped(shards, g)
    BY DEF TypeInv, WellTyped
  <1>2. [next_index |-> 0, leaves |-> [i \in Indices |-> ZERO]] \in Tree
    BY ChainAssumption DEF Tree
  <1>3. RegistryTyped(work, g)
    BY <1>1, <1>2 DEF InitializeMerkleTreeDone, RegistryTyped, ConfigSame, MembersSame, TreesAfter
  <1>4. QED
    BY <1>3, ElsewhereTyped, BalancesTyped DEF InitializeMerkleTreeDone

LEMMA RegisterTyped ==
  ASSUME TypeInv, NEW g \in Registries, NEW m \in MerklePrograms, NEW c \in Commitments,
         NEW rate \in RateLimits, NEW claim \in Deployments, NEW now \in Instants,
         NEW payer \in Payers, RegisterDone(g, m, c, rate, claim, now, payer)
  PROVE  WellTyped(work)
  <1>1. RegistryTyped(shards, g)
    BY DEF TypeInv, WellTyped
  <1>2. /\ rate \in Nat /\ now \in Nat /\ 1 \in Nat /\ TREE_LEAVES \in Nat
        /\ claim.active_duration_sec \in Nat /\ claim.grace_period_duration_sec \in Nat
    BY ChainAssumption
  <1>3. work[ConfigShard(g)] \in ConfigState(g[2])
    <2> DEFINE config == shards[ConfigShard(g)]
    <2>1. config \in ConfigState(g[2])
      BY <1>1 DEF RegisterDone, ConfigNames, RegistryTyped
    <2>2. /\ saturating_add(config.total_registrations, 1) \in Nat
          /\ saturating_add(config.current_total_rate_limit, rate) \in Nat
      BY <1>2, <2>1, Arithmetic DEF ConfigState
    <2>3. work[ConfigShard(g)] =
            [config EXCEPT
               !.total_registrations = saturating_add(config.total_registrations, 1),
               !.current_total_rate_limit = saturating_add(config.current_total_rate_limit, rate)]
      BY DEF RegisterDone
    <2> HIDE DEF config
    <2>4. QED
      BY <2>1, <2>2, <2>3 DEF ConfigState
  <1>4. work[MemberShard(g, c)] \in MembershipState(c)
    <2>1. saturating_add(now, secs_to_millis(claim.active_duration_sec)) \in Nat
      BY <1>2, Arithmetic
    <2>2. QED
      BY <1>2, <2>1 DEF RegisterDone, MembersAfter, MembershipState
  <1>5. work[TreeShard(g, m)] \in Tree
    <2> DEFINE tree == shards[TreeShard(g, m)]
               leaf == compute_registration_leaf(c, rate)
    <2>1. tree \in Tree /\ tree.next_index < TREE_LEAVES
      BY <1>1 DEF RegisterDone, RegistryTyped
    <2>2. leaf \in (Commitments \X Nat) \cup {ZERO}
      BY <1>2 DEF compute_registration_leaf
    <2>3. work[TreeShard(g, m)] = [next_index |-> tree.next_index + 1,
                                   leaves |-> [tree.leaves EXCEPT ![tree.next_index] = leaf]]
      BY DEF RegisterDone, TreesAfter
    <2> HIDE DEF tree, leaf
    <2>4. /\ tree.next_index + 1 \in 0 .. TREE_LEAVES
          /\ tree.leaves \in [Indices -> (Commitments \X Nat) \cup {ZERO}]
      BY <1>2, <2>1 DEF Tree
    <2>5. [tree.leaves EXCEPT ![tree.next_index] = leaf]
            \in [Indices -> (Commitments \X Nat) \cup {ZERO}]
      BY <2>2, <2>4
    <2>6. QED
      BY <2>3, <2>4, <2>5 DEF Tree
  <1>6. RegistryTyped(work, g)
    BY <1>1, <1>3, <1>4, <1>5 DEF RegisterDone, RegistryTyped, MembersAfter, TreesAfter
  <1>7. QED
    BY <1>2, <1>6, ElsewhereTyped, BalancesTyped DEF RegisterDone

LEMMA RemovalTyped ==
  ASSUME TypeInv, NEW g \in Registries, NEW m \in MerklePrograms, NEW c \in Commitments,
         NEW rate \in RateLimits, NEW i \in Indices, Removal(g, m, c, rate, i)
  PROVE  WellTyped(work)
  <1>1. RegistryTyped(shards, g)
    BY DEF TypeInv, WellTyped
  <1>2. rate \in Nat /\ 1 \in Nat
    BY ChainAssumption
  <1>3. work[ConfigShard(g)] \in ConfigState(g[2])
    <2> DEFINE config == shards[ConfigShard(g)]
    <2>1. config \in ConfigState(g[2])
      BY <1>1 DEF Removal, ConfigNames, RegistryTyped
    <2>2. /\ saturating_sub(config.total_registrations, 1) \in Nat
          /\ saturating_sub(config.current_total_rate_limit, rate) \in Nat
      BY <1>2, <2>1, Arithmetic DEF ConfigState
    <2>3. work[ConfigShard(g)] =
            [config EXCEPT
               !.current_total_rate_limit = saturating_sub(config.current_total_rate_limit, rate),
               !.total_registrations = saturating_sub(config.total_registrations, 1)]
      BY DEF Removal
    <2> HIDE DEF config
    <2>4. QED
      BY <2>1, <2>2, <2>3 DEF ConfigState
  <1>4. work[TreeShard(g, m)] \in Tree
    <2> DEFINE tree == shards[TreeShard(g, m)]
    <2>1. tree \in Tree
      BY <1>1 DEF Removal, RegistryTyped
    <2>2. work[TreeShard(g, m)] = [tree EXCEPT !.leaves[i] = ZERO]
      BY DEF Removal, TreesAfter
    <2> HIDE DEF tree
    <2>3. QED
      BY <2>1, <2>2 DEF Tree
  <1>5. RegistryTyped(work, g)
    BY <1>1, <1>3, <1>4 DEF Removal, RegistryTyped, MembersAfter, TreesAfter
  <1>6. QED
    BY <1>5, ElsewhereTyped, BalancesTyped DEF Removal

LEMMA ExtendTyped ==
  ASSUME TypeInv, NEW g \in Registries, NEW c \in Commitments,
         NEW rate \in RateLimits, NEW claim \in Deployments, NEW now \in Instants,
         NEW payer \in Payers, ExtendDone(g, c, rate, claim, now, payer)
  PROVE  WellTyped(work)
  <1>1. RegistryTyped(shards, g) /\ rate \in Nat
    BY ChainAssumption DEF TypeInv, WellTyped
  <1> DEFINE member == shards[MemberShard(g, c)]
             start == saturating_add(
                        saturating_add(member.grace_period_start_timestamp_ms,
                                       secs_to_millis(member.grace_period_duration_sec)),
                        secs_to_millis(member.active_duration_sec))
  <1>2. work[MemberShard(g, c)] \in MembershipState(c)
    <2>1. member \in MembershipState(c)
      BY <1>1 DEF ExtendDone, RegistryTyped
    <2>2. start \in Nat
      BY <2>1, Arithmetic DEF MembershipState
    <2>3. work[MemberShard(g, c)] = [member EXCEPT !.grace_period_start_timestamp_ms = start]
      BY DEF ExtendDone, MembersAfter
    <2> HIDE DEF member, start
    <2>4. QED
      BY <2>1, <2>2, <2>3 DEF MembershipState
  <1>3. RegistryTyped(work, g)
    BY <1>1, <1>2 DEF ExtendDone, RegistryTyped, MembersAfter, ConfigSame, TreesSame
  <1>4. QED
    BY <1>1, <1>3, ElsewhereTyped, BalancesTyped DEF ExtendDone

LEMMA SettledTyped ==
  ASSUME TypeInv, Settled
  PROVE  WellTyped(work)
  BY InitializeTyped, InitializeMerkleTreeTyped, RegisterTyped, RemovalTyped, ExtendTyped
     DEF Settled, EraseDone

-----------------------------------------------------------------------------
(***************************************************************************)
(* The invariant is inductive.                                             *)
(***************************************************************************)
Submission ==
    \/ \E g \in Registries : Submit(g[1], g[2])
    \/ \E m \in MerklePrograms, g \in Registries, ix \in MerkleInstructions : ForeignCall(m, g, ix)

LEMMA SubmitJob ==
  ASSUME Submission
  PROVE  /\ \E job \in Jobs : Submitted(job)
         /\ tx'.op = "Slash" => \E s \in revealed : hash_single[s] = tx'.id_commitment
  <1>1. CASE \E g \in Registries, d \in Deployments : Initialize(g[1], g[2], d)
    <2>1. PICK job \in InitializeJobs : Submitted(job)
      BY <1>1, InitializeJob
    <2>2. tx'.op = "Initialize"
      BY <2>1, TxFields DEF InitializeJobs, Submitted
    <2>3. QED
      BY <2>1, <2>2 DEF Jobs
  <1>2. CASE \E g \in Registries, m \in MerklePrograms : InitializeMerkleTree(g[1], g[2], m)
    <2>1. PICK job \in InitializeMerkleTreeJobs : Submitted(job)
      BY <1>2, InitializeMerkleTreeJob
    <2>2. tx'.op = "InitializeMerkleTree"
      BY <2>1, TxFields DEF InitializeMerkleTreeJobs, Submitted
    <2>3. QED
      BY <2>1, <2>2 DEF Jobs
  <1>3. CASE \E g \in Registries, c \in Commitments, rate \in RateLimits, claim \in Deployments,
                now \in Instants, payer \in Payers :
                Register(g[1], g[2], c, rate, claim, now, payer)
    <2>1. PICK job \in RegisterJobs : Submitted(job)
      BY <1>3, RegisterJob
    <2>2. tx'.op = "Register"
      BY <2>1, TxFields DEF RegisterJobs, Submitted
    <2>3. QED
      BY <2>1, <2>2 DEF Jobs
  <1>4. CASE \E g \in Registries, c \in Commitments, rate \in RateLimits, claim \in Deployments,
                now \in Instants, payer \in Payers :
                Extend(g[1], g[2], c, rate, claim, now, payer)
    <2>1. PICK job \in ExtendJobs : Submitted(job)
      BY <1>4, ExtendJob
    <2>2. tx'.op = "Extend"
      BY <2>1, TxFields DEF ExtendJobs, Submitted
    <2>3. QED
      BY <2>1, <2>2 DEF Jobs
  <1>5. CASE \E g \in Registries, c \in Commitments, rate \in RateLimits, m \in MerklePrograms,
                i \in Indices, s \in Secrets : Slash(g[1], g[2], s, c, rate, m, i)
    BY <1>5, SlashJob DEF Jobs
  <1>6. CASE \E g \in Registries, c \in Commitments, rate \in RateLimits, m \in MerklePrograms,
                i \in Indices, now \in Instants : Erase(g[1], g[2], c, rate, m, i, now)
    <2>1. PICK job \in EraseJobs : Submitted(job)
      BY <1>6, EraseJob
    <2>2. tx'.op = "Erase"
      BY <2>1, TxFields DEF EraseJobs, Submitted
    <2>3. QED
      BY <2>1, <2>2 DEF Jobs
  <1>7. CASE \E m \in MerklePrograms, g \in Registries, ix \in MerkleInstructions :
               ForeignCall(m, g, ix)
    <2>1. PICK job \in ForeignJobs : Submitted(job)
      BY <1>7, ForeignJob
    <2>2. tx'.op = "Foreign"
      BY <2>1, TxFields DEF ForeignJobs, Submitted
    <2>3. QED
      BY <2>1, <2>2 DEF Jobs
  <1>8. QED
    BY <1>1, <1>2, <1>3, <1>4, <1>5, <1>6, <1>7 DEF Submission, Submit

LEMMA JobsAreTransactions == \A job \in Jobs : job[1] \in Transaction
  <1>1. ASSUME NEW g \in Registries, NEW op \in {"Initialize", "InitializeMerkleTree"}
        PROVE  Tx(op, g[1], g[2]) \in Transaction
    BY RegistryPair DEF Tx, Transaction
  <1>2. ASSUME NEW g \in Registries PROVE Tx("Foreign", Foreign, g[2]) \in Transaction
    BY RegistryPair DEF Tx, Transaction
  <1>3. ASSUME NEW g \in Registries, NEW op \in {"Register", "Slash", "Extend", "Erase"},
               NEW c \in Commitments, NEW rate \in Nat, NEW now \in Nat
        PROVE  MemberTx(op, g[1], g[2], c, rate, now) \in Transaction
    BY RegistryPair DEF MemberTx, Tx, Transaction
  <1>4. ASSUME NEW t \in Transaction, NEW payer \in Payers, NEW claim \in Deployments
        PROVE  Pays(t, payer, claim) \in Transaction
    <2>1. claim.price_per_unit \in Nat /\ claim.treasury_account_id \in Treasuries
      BY ChainAssumption
    <2>2. calculate_payment_amount(t.rate_limit, claim.price_per_unit) \in Nat
      BY <2>1, Arithmetic DEF Transaction
    <2>3. QED
      BY <2>1, <2>2 DEF Pays, Transaction
  <1>5. 0 \in Nat /\ RateLimits \subseteq Nat /\ Instants \subseteq Nat
    BY ChainAssumption
  <1>6. ASSUME NEW job \in Jobs PROVE job[1] \in Transaction
    BY <1>1, <1>2, <1>3, <1>4, <1>5, JobCases DEF RegisterTx, ExtendTx
  <1>7. QED
    BY <1>6

LEMMA NextCases ==
  ASSUME Next
  PROVE  \/ Submission \/ Commit \/ Revert
         \/ ApplyEffect \/ ChainedCall \/ NativeTransfer
         \/ \E t \in Instants : Tick(t)
         \/ \E s \in Secrets : Reveal(s)
  BY DEF Next, Submission

LEMMA JobStep ==
  ASSUME TypeInv, JobInv, Next
  PROVE  JobInv' /\ (work = [s \in Selectors |-> work[s]])'
  <1>1. CASE Submission
    <2>1. PICK job \in Jobs : Submitted(job)
      BY <1>1, SubmitJob
    <2>2. (work = shards)' /\ todo' = job[2] /\ tx' = job[1]
      BY <2>1 DEF Submitted, JobInv
    <2>3. WellPlanned(job[2])
      BY JobCases
    <2>4. InProgress(job[2])'
      <3> DEFINE plan == job[2]
      <3>1. WellPlanned(plan) /\ work' = shards' /\ todo' = plan
        BY <2>2, <2>3
      <3> HIDE DEF plan
      <3>2. Len(plan) \in Nat /\ Len(plan) - Len(todo') = 0
        BY <3>1 DEF WellPlanned
      <3>3. InProgress(plan)'
        BY <3>1, <3>2 DEF InProgress, WellPlanned
      <3>4. QED
        BY <3>3 DEF plan
    <2>5. tx' # None => JobInv'
      BY <1>1, <2>1, <2>2, <2>4, SubmitJob DEF JobInv, Submitted
    <2>6. tx' # None
      BY <2>1, JobsAreTransactions, NamesAssumption DEF Submitted
    <2>7. QED
      BY <2>1, <2>5, <2>6 DEF Submitted, TypeInv
  <1>2. CASE ApplyEffect \/ ChainedCall \/ NativeTransfer
    <2>1. UNCHANGED <<tx, revealed>> /\ tx # None
      BY <1>2 DEF ApplyEffect, ChainedCall, NativeTransfer, Running
    <2>2. PICK job \in Jobs : tx = job[1] /\ InProgress(job[2])
      BY <2>1 DEF JobInv
    <2>3. WellPlanned(job[2])
      BY JobCases
    <2>4. InProgress(job[2])' /\ (work = [s \in Selectors |-> work[s]])'
      BY <1>2, <2>2, <2>3, ProgressStep DEF TypeInv
    <2>5. QED
      BY <2>1, <2>2, <2>4 DEF JobInv
  <1>3. CASE Revert
    BY <1>3 DEF Revert, JobInv, TypeInv, WellTyped
  <1>4. CASE Commit
    BY <1>4 DEF Commit, JobInv, TypeInv
  <1>5. ASSUME NEW t \in Instants, Tick(t) PROVE JobInv' /\ (work = [s \in Selectors |-> work[s]])'
    BY <1>5 DEF Tick, JobInv, TypeInv, WellTyped
  <1>6. ASSUME NEW x \in Secrets, Reveal(x)
        PROVE  JobInv' /\ (work = [s \in Selectors |-> work[s]])'
    BY <1>6 DEF Reveal, JobInv, TypeInv
  <1>7. QED
    BY <1>1, <1>2, <1>3, <1>4, <1>5, <1>6, NextCases

\* The registry a settled transaction belongs to, and what it paid.
SettledIn(g) ==
    /\ <<tx.program, tx.tree_id>> = g
    /\ ElsewhereSame(g)
    /\ \/ BalancesSame /\ tx.amount = 0
       \/ /\ tx.payer \in Payers /\ tx.treasury \in Treasuries
          /\ tx.amount <= shards[native_balance(tx.payer)]
          /\ BalancesAfter(tx.payer, tx.treasury, tx.amount)

LEMMA SettledFacts ==
  ASSUME Settled
  PROVE  \E g \in Registries : SettledIn(g)
  <1>1. ASSUME NEW g \in Registries, NEW d \in Deployments,
               tx = Tx("Initialize", g[1], g[2]), InitializeDone(g, d)
        PROVE  SettledIn(g)
    BY <1>1, TxFields, RegistryPair DEF InitializeDone, SettledIn
  <1>2. ASSUME NEW g \in Registries, NEW m \in MerklePrograms,
               tx = Tx("InitializeMerkleTree", g[1], g[2]), InitializeMerkleTreeDone(g, m)
        PROVE  SettledIn(g)
    BY <1>2, TxFields, RegistryPair DEF InitializeMerkleTreeDone, SettledIn
  <1>3. ASSUME NEW g \in Registries, NEW m \in MerklePrograms, NEW c \in Commitments,
               NEW rate \in RateLimits, NEW i \in Indices, NEW op, NEW now,
               tx = MemberTx(op, g[1], g[2], c, rate, now), Removal(g, m, c, rate, i)
        PROVE  SettledIn(g)
    BY <1>3, TxFields, RegistryPair DEF Removal, SettledIn
  <1>4. ASSUME NEW g \in Registries, NEW c \in Commitments, NEW rate \in RateLimits,
               NEW claim \in Deployments, NEW now \in Instants, NEW payer \in Payers,
               tx \in {RegisterTx(g[1], g[2], c, rate, claim, now, payer),
                       ExtendTx(g[1], g[2], c, rate, claim, now, payer)},
               Payment(rate, claim, payer), ElsewhereSame(g)
        PROVE  SettledIn(g)
    <2>1. /\ tx.program = g[1] /\ tx.tree_id = g[2] /\ tx.payer = payer
          /\ tx.treasury = claim.treasury_account_id
          /\ tx.amount = calculate_payment_amount(rate, claim.price_per_unit)
      BY <1>4, TxFields
    <2>2. claim.treasury_account_id \in Treasuries
      BY ChainAssumption
    <2>3. QED
      BY <1>4, <2>1, <2>2, RegistryPair DEF Payment, SettledIn
  <1>5. CASE \E g \in Registries, d \in Deployments :
                tx = Tx("Initialize", g[1], g[2]) /\ InitializeDone(g, d)
    BY <1>1, <1>5
  <1>6. CASE \E g \in Registries, m \in MerklePrograms :
                tx = Tx("InitializeMerkleTree", g[1], g[2]) /\ InitializeMerkleTreeDone(g, m)
    BY <1>2, <1>6
  <1>7. CASE \E g \in Registries, m \in MerklePrograms, c \in Commitments, rate \in RateLimits,
                claim \in Deployments, now \in Instants, payer \in Payers :
                /\ tx = RegisterTx(g[1], g[2], c, rate, claim, now, payer)
                /\ RegisterDone(g, m, c, rate, claim, now, payer)
    <2>1. PICK g \in Registries, m \in MerklePrograms, c \in Commitments, rate \in RateLimits,
                claim \in Deployments, now \in Instants, payer \in Payers :
                /\ tx = RegisterTx(g[1], g[2], c, rate, claim, now, payer)
                /\ RegisterDone(g, m, c, rate, claim, now, payer)
      BY <1>7
    <2>2. Payment(rate, claim, payer) /\ ElsewhereSame(g)
      BY <2>1 DEF RegisterDone
    <2>3. QED
      BY <1>4, <2>1, <2>2
  <1>8. CASE \E g \in Registries, c \in Commitments, rate \in RateLimits,
                claim \in Deployments, now \in Instants, payer \in Payers :
                /\ tx = ExtendTx(g[1], g[2], c, rate, claim, now, payer)
                /\ ExtendDone(g, c, rate, claim, now, payer)
    <2>1. PICK g \in Registries, c \in Commitments, rate \in RateLimits,
                claim \in Deployments, now \in Instants, payer \in Payers :
                /\ tx = ExtendTx(g[1], g[2], c, rate, claim, now, payer)
                /\ ExtendDone(g, c, rate, claim, now, payer)
      BY <1>8
    <2>2. Payment(rate, claim, payer) /\ ElsewhereSame(g)
      BY <2>1 DEF ExtendDone
    <2>3. QED
      BY <1>4, <2>1, <2>2
  <1>9. CASE \E g \in Registries, m \in MerklePrograms, c \in Commitments, rate \in RateLimits,
                i \in Indices :
                tx = MemberTx("Slash", g[1], g[2], c, rate, 0) /\ Removal(g, m, c, rate, i)
    BY <1>3, <1>9
  <1>10. CASE \E g \in Registries, m \in MerklePrograms, c \in Commitments, rate \in RateLimits,
                 i \in Indices, now \in Instants :
                 tx = MemberTx("Erase", g[1], g[2], c, rate, now) /\ EraseDone(g, m, c, rate, i, now)
    BY <1>3, <1>10 DEF EraseDone
  <1>11. QED
    BY <1>5, <1>6, <1>7, <1>8, <1>9, <1>10 DEF Settled

\* What Commit writes in the history of the registry it belongs to, ...
LEMMA CommitLedger ==
  ASSUME TypeInv, JobInv, Commit, NEW g \in Registries
  PROVE  /\ ledger'[g] = IF g = <<tx.program, tx.tree_id>> THEN Recorded(ledger[g]) ELSE ledger[g]
         /\ Recorded(ledger[g]).paid =
              [a \in Payers \cup Treasuries |->
                 ledger[g].paid[a] + IF a \in {tx.payer, tx.treasury} THEN tx.amount ELSE 0]
         /\ tx.amount \in Nat
         /\ ledger'[g].paid \in [Payers \cup Treasuries -> Nat]
  <1>1. ledger'[g] = IF g = <<tx.program, tx.tree_id>> THEN Recorded(ledger[g]) ELSE ledger[g]
    BY DEF Commit
  <1>2. Recorded(ledger[g]).paid =
              [a \in Payers \cup Treasuries |->
                 ledger[g].paid[a] + IF a \in {tx.payer, tx.treasury} THEN tx.amount ELSE 0]
    BY DEF Recorded
  <1>3. tx \in Transaction
    BY JobsAreTransactions DEF JobInv, Commit
  <1>4. tx.amount \in Nat
    BY <1>3 DEF Transaction
  <1>5. ledger[g].paid \in [Payers \cup Treasuries -> Nat]
    BY DEF TypeInv
  <1>6. \A a \in Payers \cup Treasuries :
          ledger[g].paid[a] + (IF a \in {tx.payer, tx.treasury} THEN tx.amount ELSE 0) \in Nat
    BY <1>4, <1>5
  <1>7. Recorded(ledger[g]).paid \in [Payers \cup Treasuries -> Nat]
    BY <1>2, <1>6
  <1>8. QED
    BY <1>1, <1>2, <1>4, <1>5, <1>7

\* ... and what the shards are after it.
LEMMA CommitShards ==
  ASSUME JobInv, Commit
  PROVE  Settled /\ shards' = work
  BY CommitSettled DEF Commit

\* The clock is a shard of its own.
LEMMA TickShards ==
  ASSUME TypeInv, NEW t \in Instants, Tick(t)
  PROVE  /\ WellTyped(shards')
         /\ \A s \in Selectors : s # clock_shard => shards'[s] = shards[s]
         /\ shards'[clock_shard] = t
  <1>1. shards' = [shards EXCEPT ![clock_shard] = t] /\ shards = [s \in Selectors |-> shards[s]]
    BY DEF Tick, TypeInv, WellTyped
  <1>2. \A s \in Selectors : s # clock_shard => shards'[s] = shards[s]
    BY <1>1
  <1>3. shards' = [s \in Selectors |-> shards'[s]] /\ shards'[clock_shard] = t
    BY <1>1, OtherShards
  <1>4. ASSUME NEW g \in Registries PROVE RegistryTyped(shards', g)
    <2>1. RegistryTyped(shards, g)
      BY DEF TypeInv, WellTyped
    <2>2. QED
      BY <1>2, <2>1, ShardsNamed, OtherShards DEF RegistryTyped
  <1>5. \A a \in Payers \cup Treasuries : shards'[native_balance(a)] \in Nat
    BY <1>2, OtherShards DEF TypeInv, WellTyped
  <1>6. QED
    BY <1>2, <1>3, <1>4, <1>5 DEF WellTyped

LEMMA TypeStep ==
  ASSUME TypeInv, JobInv, Next
  PROVE  TypeInv'
  <1>1. (work = [s \in Selectors |-> work[s]])'
    BY JobStep
  <1>2. CASE Submission \/ ApplyEffect \/ ChainedCall \/ NativeTransfer \/ Revert
    <2>1. UNCHANGED <<shards, revealed, ledger>>
      BY <1>2, SubmitJob DEF Submitted, ApplyEffect, ChainedCall, NativeTransfer, Revert
    <2>2. QED
      BY <1>1, <2>1 DEF TypeInv, WellTyped, RegistryTyped
  <1>3. CASE Commit
    <2>1. WellTyped(shards')
      BY <1>3, CommitShards, SettledTyped
    <2>2. WellTyped(shards)'
      BY <2>1 DEF WellTyped, RegistryTyped
    <2>3. \A g \in Registries : ledger'[g].paid \in [Payers \cup Treasuries -> Nat]
      BY <1>3, CommitLedger
    <2>4. revealed' \subseteq Secrets
      BY <1>3 DEF Commit, TypeInv
    <2>5. QED
      BY <1>1, <2>2, <2>3, <2>4 DEF TypeInv
  <1>4. ASSUME NEW t \in Instants, Tick(t) PROVE TypeInv'
    <2>1. WellTyped(shards)'
      BY <1>4, TickShards DEF WellTyped, RegistryTyped
    <2>2. UNCHANGED <<revealed, ledger>>
      BY <1>4 DEF Tick
    <2>3. QED
      BY <1>1, <2>1, <2>2 DEF TypeInv
  <1>5. ASSUME NEW x \in Secrets, Reveal(x) PROVE TypeInv'
    BY <1>5 DEF Reveal, TypeInv, WellTyped, RegistryTyped
  <1>6. QED
    BY <1>2, <1>3, <1>4, <1>5, NextCases

\* A payment takes from the payer's balance what it adds to what was paid.
LEMMA SpentStep ==
  ASSUME Inv, Next
  PROVE  SpentInv'
  <1> USE DEF Inv
  <1>1. Home \in Registries
    BY RegistriesAssumption
  <1>2. ASSUME NEW p \in Payers
        PROVE  /\ shards[native_balance(p)] \in Nat
               /\ ledger[Home].paid[p] \in Nat /\ InitialBalance[p] \in Nat
               /\ shards[native_balance(p)] + ledger[Home].paid[p] <= InitialBalance[p]
    BY <1>1, ChainAssumption DEF TypeInv, WellTyped, SpentInv
  <1>3. CASE UNCHANGED <<shards, ledger>>
    BY <1>3 DEF SpentInv
  <1>4. CASE Commit
    <2>1. PICK g \in Registries : SettledIn(g)
      BY <1>4, CommitShards, SettledFacts
    <2> SUFFICES ASSUME NEW p \in Payers
                 PROVE  shards'[native_balance(p)] + ledger'[Home].paid[p] <= InitialBalance[p]
      BY DEF SpentInv
    <2>2. shards' = work /\ tx.amount \in Nat
      BY <1>1, <1>4, CommitShards, CommitLedger
    <2>3. p \in Payers \cup Treasuries /\ p \notin Treasuries
      BY ChainAssumption
    <2>4. \/ ledger'[Home].paid[p] = ledger[Home].paid[p]
          \/ ledger'[Home].paid[p] = ledger[Home].paid[p]
                                       + IF p \in {tx.payer, tx.treasury} THEN tx.amount ELSE 0
      <3>1. Recorded(ledger[Home]).paid[p] =
              ledger[Home].paid[p] + IF p \in {tx.payer, tx.treasury} THEN tx.amount ELSE 0
        <4>1. Recorded(ledger[Home]).paid =
                [a \in Payers \cup Treasuries |->
                   ledger[Home].paid[a] + IF a \in {tx.payer, tx.treasury} THEN tx.amount ELSE 0]
          BY <1>1, <1>4, CommitLedger
        <4>2. QED
          BY <2>3, <4>1
      <3>2. ledger'[Home] = Recorded(ledger[Home]) \/ ledger'[Home] = ledger[Home]
        BY <1>1, <1>4, CommitLedger
      <3>3. QED
        BY <3>1, <3>2
    <2>5. CASE BalancesSame /\ tx.amount = 0
      BY <1>2, <2>2, <2>3, <2>4, <2>5 DEF BalancesSame
    <2>6. CASE /\ tx.payer \in Payers /\ tx.treasury \in Treasuries
               /\ BalancesAfter(tx.payer, tx.treasury, tx.amount)
      <3>1. work[native_balance(p)] = IF p = tx.payer THEN shards[native_balance(p)] - tx.amount
                                      ELSE shards[native_balance(p)]
        BY <2>3, <2>6 DEF BalancesAfter
      <3>2. p # tx.treasury
        BY <2>3, <2>6
      <3>3. QED
        BY <1>2, <2>2, <2>4, <3>1, <3>2
    <2>7. QED
      BY <2>1, <2>5, <2>6 DEF SettledIn
  <1>5. ASSUME NEW t \in Instants, Tick(t) PROVE SpentInv'
    <2>1. UNCHANGED ledger
      BY <1>5 DEF Tick
    <2>2. \A p \in Payers : shards'[native_balance(p)] = shards[native_balance(p)]
      BY <1>5, TickShards, OtherShards
    <2>3. QED
      BY <2>1, <2>2 DEF SpentInv
  <1>6. CASE Submission \/ ApplyEffect \/ ChainedCall \/ NativeTransfer \/ Revert
    BY <1>3, <1>6, SubmitJob DEF Submitted, ApplyEffect, ChainedCall, NativeTransfer, Revert
  <1>7. ASSUME NEW x \in Secrets, Reveal(x) PROVE SpentInv'
    BY <1>3, <1>7 DEF Reveal
  <1>8. QED
    BY <1>4, <1>5, <1>6, <1>7, NextCases

LEMMA InitInv ==
  ASSUME Init
  PROVE  Inv
  <1>1. shards = [s \in Selectors |->
                   CASE s = clock_shard -> 0
                     [] s \in {native_balance(a) : a \in Payers} -> InitialBalance[s[1]]
                     [] s \in {native_balance(a) : a \in Treasuries} -> 0
                     [] OTHER -> Empty]
    BY DEF Init
  <1>2. shards = [s \in Selectors |-> shards[s]]
    BY <1>1
  <1>3. \A s \in PdaShards : shards[s] = Empty
    BY <1>1, OtherShards
  <1>4. ASSUME NEW a \in Payers PROVE shards[native_balance(a)] = InitialBalance[a]
    <2>1. native_balance(a)[1] = a
      BY DEF native_balance
    <2>2. /\ native_balance(a) \in Selectors /\ native_balance(a) # clock_shard
          /\ native_balance(a) \in {native_balance(p) : p \in Payers}
          /\ native_balance(a) \notin {native_balance(t) : t \in Treasuries}
      BY OtherShards, ChainAssumption
    <2>3. QED
      BY <1>1, <2>1, <2>2
  <1>5. ASSUME NEW a \in Treasuries PROVE shards[native_balance(a)] = 0
    <2>1. native_balance(a) \notin {native_balance(p) : p \in Payers}
      BY OtherShards, ChainAssumption
    <2>2. QED
      BY <1>1, <2>1, OtherShards
  <1>6. \A g \in Registries : RegistryTyped(shards, g)
    BY <1>3, ShardsNamed DEF RegistryTyped
  <1>7. \A a \in Payers \cup Treasuries : shards[native_balance(a)] \in Nat
    BY <1>4, <1>5, ChainAssumption
  <1>8. \A g \in Registries : ledger[g].paid = [a \in Payers \cup Treasuries |-> 0]
    BY DEF Init
  <1>9. TypeInv
    BY <1>2, <1>6, <1>7, <1>8 DEF TypeInv, WellTyped, Init
  <1>10. JobInv
    BY DEF JobInv, Init
  <1>11. SpentInv
    BY <1>4, <1>8, RegistriesAssumption, ChainAssumption DEF SpentInv
  <1>12. QED
    BY <1>9, <1>10, <1>11 DEF Inv

LEMMA StepInv ==
  ASSUME Inv, [Next]_vars
  PROVE  Inv'
  <1>1. CASE Next
    BY <1>1, TypeStep, JobStep, SpentStep DEF Inv
  <1>2. CASE UNCHANGED vars
    <2>1. /\ shards' = shards /\ tx' = tx /\ work' = work /\ todo' = todo
          /\ revealed' = revealed /\ ledger' = ledger
      BY <1>2 DEF vars
    <2>2. TypeInv' /\ SpentInv'
      BY <2>1 DEF Inv, TypeInv, WellTyped, RegistryTyped, SpentInv
    <2>3. JobInv'
      BY <2>1 DEF Inv, JobInv, InProgress
    <2>4. QED
      BY <2>2, <2>3 DEF Inv
  <1>3. QED
    BY <1>1, <1>2

\* The invariant of the executor: the shards are well formed, the queue is
\* what is left of a plan whose other items are done, and what was paid has
\* left the payers.
THEOREM Invariance == Spec => []Inv
  BY InitInv, StepInv, PTL DEF Spec

-----------------------------------------------------------------------------
(***************************************************************************)
(* Grants.                                                                 *)
(***************************************************************************)

\* The effects that check the config before the merkle program is called.
GuardEffect(e, m) ==
    /\ e.op \in {"InitTreeGuard", "RegisterConfig", "ReleaseConfig"}
    /\ e.merkle_program_id = m
    /\ e.op # "InitTreeGuard" => e.rate_limit \in Nat

LEMMA Guarded ==
  ASSUME NEW t \in TreeIds, NEW pre \in ConfigState(t) \cup {Empty}, NEW e, NEW m,
         GuardEffect(e, m), apply(e, pre) # Refused
  PROVE  apply(e, pre) # Empty /\ apply(e, pre).merkle_program_id = m
  <1> DEFINE post == apply(e, pre)
  <1>1. assert_config_ids(e, pre) /\ \/ post = pre
                                     \/ post = RegisterConfig(e, pre) /\ e.rate_limit \in Nat
                                     \/ post = ReleaseConfig(e, pre) /\ e.rate_limit \in Nat
    <2>1. CASE e.op = "InitTreeGuard"
      <3>1. post = InitTreeGuard(e, pre)
        BY <2>1, ApplyCases
      <3>2. QED
        BY <3>1 DEF InitTreeGuard
    <2>2. CASE e.op = "RegisterConfig"
      <3>1. post = RegisterConfig(e, pre)
        BY <2>2, ApplyCases
      <3>2. QED
        BY <2>2, <3>1 DEF RegisterConfig, GuardEffect
    <2>3. CASE e.op = "ReleaseConfig"
      <3>1. post = ReleaseConfig(e, pre)
        BY <2>3, ApplyCases
      <3>2. QED
        BY <2>3, <3>1 DEF ReleaseConfig, GuardEffect
    <2>4. QED
      BY <2>1, <2>2, <2>3 DEF GuardEffect
  <1>2. pre \in ConfigState(t) /\ pre.merkle_program_id = m
    BY <1>1 DEF assert_config_ids, GuardEffect
  <1>3. /\ pre.total_registrations \in Nat /\ pre.current_total_rate_limit \in Nat
        /\ 1 \in Nat
    BY <1>2 DEF ConfigState
  <1>4. ASSUME NEW total \in Nat, NEW rate \in Nat
        PROVE  LET new == [pre EXCEPT !.total_registrations = total,
                                      !.current_total_rate_limit = rate]
               IN  new \in ConfigState(t) /\ new.merkle_program_id = m
    BY <1>2, <1>4 DEF ConfigState
  <1>5. post # Refused
    OBVIOUS
  <1> HIDE DEF post
  <1>6. CASE post = RegisterConfig(e, pre) /\ e.rate_limit \in Nat
    <2>1. post = [pre EXCEPT
                    !.total_registrations = saturating_add(pre.total_registrations, 1),
                    !.current_total_rate_limit =
                       saturating_add(pre.current_total_rate_limit, e.rate_limit)]
      BY <1>5, <1>6 DEF RegisterConfig
    <2>2. /\ saturating_add(pre.total_registrations, 1) \in Nat
          /\ saturating_add(pre.current_total_rate_limit, e.rate_limit) \in Nat
      BY <1>3, <1>6, Arithmetic
    <2>3. post \in ConfigState(t) /\ post.merkle_program_id = m
      BY <1>4, <2>1, <2>2
    <2>4. QED
      BY <2>3, NamesAssumption DEF post
  <1>7. CASE post = ReleaseConfig(e, pre) /\ e.rate_limit \in Nat
    <2>1. post = [pre EXCEPT
                    !.total_registrations = saturating_sub(pre.total_registrations, 1),
                    !.current_total_rate_limit =
                       saturating_sub(pre.current_total_rate_limit, e.rate_limit)]
      BY <1>2, <1>5, <1>7 DEF ReleaseConfig, ConfigState
    <2>2. /\ saturating_sub(pre.total_registrations, 1) \in Nat
          /\ saturating_sub(pre.current_total_rate_limit, e.rate_limit) \in Nat
      BY <1>3, <1>7, Arithmetic
    <2>3. post \in ConfigState(t) /\ post.merkle_program_id = m
      BY <1>4, <2>1, <2>2
    <2>4. QED
      BY <2>3, NamesAssumption DEF post
  <1>8. QED
    BY <1>1, <1>2, <1>6, <1>7, NamesAssumption DEF post

\* A plan that calls the merkle program for a registry checks the callee first.
CallsAfterCheck(plan, g) ==
    \A k \in 1 .. Len(plan) : plan[k].kind = "call" =>
        /\ k > 1
        /\ \E m, ix, e : /\ plan[k] = merkle_call(g[1], m, TreeShard(g, m), g[2], ix)
                         /\ plan[1] = Effect(ConfigShard(g), e)
                         /\ GuardEffect(e, m)

LEMMA ChecksFirst ==
  ASSUME NEW job \in Jobs
  PROVE  \/ \E g \in Registries : CallsAfterCheck(job[2], g)
         \/ \E g \in Registries, m \in MerklePrograms, ix \in MerkleInstructions :
              ForeignItems(job[2], g, m, ix)
  <1> DEFINE plan == job[2]
  <1> HIDE DEF plan
  <1>0. RateLimits \subseteq Nat
    BY ChainAssumption
  <1>1. ASSUME NEW g \in Registries, NEW d, InitializeItems(plan, g, d)
        PROVE  CallsAfterCheck(plan, g)
    <2>1. \A k \in 1 .. Len(plan) : plan[k].kind # "call"
      BY <1>1 DEF InitializeItems, Effect
    <2>2. QED
      BY <2>1 DEF CallsAfterCheck
  <1>2. ASSUME NEW g \in Registries, NEW c, NEW rate, NEW claim, NEW now, NEW payer,
               ExtendItems(plan, g, c, rate, claim, now, payer)
        PROVE  CallsAfterCheck(plan, g)
    <2>1. /\ plan[1].kind # "call" /\ plan[2].kind # "call"
          /\ plan[3].kind # "call" /\ plan[4].kind # "call"
      BY <1>2 DEF ExtendItems, Effect, native_payment
    <2>2. \A k \in 1 .. Len(plan) : plan[k].kind # "call"
      BY <1>2, <2>1 DEF ExtendItems
    <2>3. QED
      BY <2>2 DEF CallsAfterCheck
  <1>3. ASSUME NEW g \in Registries, NEW m \in MerklePrograms, NEW n \in Nat, n > 1, Len(plan) = n,
               NEW ix, plan[n] = merkle_call(g[1], m, TreeShard(g, m), g[2], ix),
               NEW e, plan[1] = Effect(ConfigShard(g), e), GuardEffect(e, m),
               \A k \in 1 .. n : k # n => plan[k].kind # "call"
        PROVE  CallsAfterCheck(plan, g)
    BY <1>3 DEF CallsAfterCheck
  <1>4. ASSUME NEW g \in Registries, NEW m \in MerklePrograms,
               InitializeMerkleTreeItems(plan, g, m)
        PROVE  CallsAfterCheck(plan, g)
    <2> DEFINE e == [op |-> "InitTreeGuard", tree_id |-> g[2], merkle_program_id |-> m]
    <2>1. GuardEffect(e, m)
      BY DEF GuardEffect
    <2>2. plan[1] = Effect(ConfigShard(g), e)
      BY <1>4 DEF InitializeMerkleTreeItems
    <2>3. \A k \in 1 .. 2 : k # 2 => plan[k].kind # "call"
      BY <2>2 DEF Effect
    <2> HIDE DEF e
    <2>4. QED
      BY <1>3, <1>4, <2>1, <2>2, <2>3 DEF InitializeMerkleTreeItems
  <1>5. ASSUME NEW g \in Registries, NEW m \in MerklePrograms, NEW c \in Commitments,
               NEW rate \in RateLimits, NEW claim, NEW now, NEW payer,
               RegisterItems(plan, g, m, c, rate, claim, now, payer)
        PROVE  CallsAfterCheck(plan, g)
    <2> DEFINE e == [op |-> "RegisterConfig", tree_id |-> g[2], rate_limit |-> rate,
                     merkle_program_id |-> m, claim |-> claim]
    <2>1. GuardEffect(e, m)
      BY <1>0 DEF GuardEffect
    <2>2. plan[1] = Effect(ConfigShard(g), e)
      BY <1>5 DEF RegisterItems
    <2>3. /\ plan[1].kind # "call" /\ plan[2].kind # "call"
          /\ plan[3].kind # "call" /\ plan[4].kind # "call"
      BY <1>5 DEF RegisterItems, Effect, native_payment
    <2>4. \A k \in 1 .. 5 : k # 5 => plan[k].kind # "call"
      BY <2>3
    <2> HIDE DEF e
    <2>5. QED
      BY <1>3, <1>5, <2>1, <2>2, <2>4 DEF RegisterItems
  <1>6. ASSUME NEW g \in Registries, NEW m \in MerklePrograms, NEW c \in Commitments,
               NEW rate \in RateLimits, NEW i, SlashItems(plan, g, m, c, rate, i)
        PROVE  CallsAfterCheck(plan, g)
    <2> DEFINE e == [op |-> "ReleaseConfig", tree_id |-> g[2], merkle_program_id |-> m,
                     rate_limit |-> rate]
    <2>1. GuardEffect(e, m)
      BY <1>0 DEF GuardEffect
    <2>2. plan[1] = Effect(ConfigShard(g), e)
      BY <1>6 DEF SlashItems
    <2>3. plan[1].kind # "call" /\ plan[2].kind # "call"
      BY <1>6 DEF SlashItems, Effect
    <2>4. \A k \in 1 .. 3 : k # 3 => plan[k].kind # "call"
      BY <2>3
    <2> HIDE DEF e
    <2>5. QED
      BY <1>3, <1>6, <2>1, <2>2, <2>4 DEF SlashItems
  <1>7. ASSUME NEW g \in Registries, NEW m \in MerklePrograms, NEW c \in Commitments,
               NEW rate \in RateLimits, NEW i, NEW now, EraseItems(plan, g, m, c, rate, i, now)
        PROVE  CallsAfterCheck(plan, g)
    <2> DEFINE e == [op |-> "ReleaseConfig", tree_id |-> g[2], merkle_program_id |-> m,
                     rate_limit |-> rate]
    <2>1. GuardEffect(e, m)
      BY <1>0 DEF GuardEffect
    <2>2. plan[1] = Effect(ConfigShard(g), e)
      BY <1>7 DEF EraseItems
    <2>3. plan[1].kind # "call" /\ plan[2].kind # "call" /\ plan[3].kind # "call"
      BY <1>7 DEF EraseItems, Effect
    <2>4. \A k \in 1 .. 4 : k # 4 => plan[k].kind # "call"
      BY <2>3
    <2> HIDE DEF e
    <2>5. QED
      BY <1>3, <1>7, <2>1, <2>2, <2>4 DEF EraseItems
  <1>8. QED
    BY <1>1, <1>2, <1>4, <1>5, <1>6, <1>7, JobCases DEF plan

LEMMA GrantsAreChecked == Inv => GrantOnlyConfigured
  <1> SUFFICES ASSUME Inv, NEW g \in Registries, Running, Head(todo).kind = "call",
                      Head(todo).caller = g[1], main_seed(g[2]) \in Head(todo).pda_seeds
               PROVE  /\ work[ConfigShard(g)] # Empty
                      /\ work[ConfigShard(g)].merkle_program_id = Head(todo).program
    BY DEF GrantOnlyConfigured
  <1>1. PICK job \in Jobs : tx = job[1] /\ InProgress(job[2])
    BY DEF Inv, JobInv, Running
  <1> DEFINE plan == job[2]
             k == Done(plan) + 1
  <1>2. WellPlanned(plan) /\ InProgress(plan) /\ todo # <<>>
    BY <1>1, JobCases DEF Running
  <1>3. \/ \E h \in Registries : CallsAfterCheck(plan, h)
        \/ \E h \in Registries, m \in MerklePrograms, ix \in MerkleInstructions :
              ForeignItems(plan, h, m, ix)
    BY ChecksFirst
  <1> HIDE DEF plan
  <1>4. k \in 1 .. Len(plan) /\ Done(plan) \in Nat /\ Head(todo) = plan[k]
    BY <1>2, NextItem DEF Called, Effect
  <1>5. CASE \E h \in Registries, m \in MerklePrograms, ix \in MerkleInstructions :
               ForeignItems(plan, h, m, ix)
    <2>1. Head(todo).caller = Foreign
      BY <1>4, <1>5 DEF ForeignItems, merkle_call
    <2>2. QED
      BY <2>1, RegistryPair
  <1>6. ASSUME NEW h \in Registries, CallsAfterCheck(plan, h)
        PROVE  /\ work[ConfigShard(g)] # Empty
               /\ work[ConfigShard(g)].merkle_program_id = Head(todo).program
    <2> HIDE DEF k
    <2>1. PICK m, ix, e : /\ plan[k] = merkle_call(h[1], m, TreeShard(h, m), h[2], ix)
                          /\ plan[1] = Effect(ConfigShard(h), e)
                          /\ GuardEffect(e, m)
      BY <1>4, <1>6 DEF CallsAfterCheck
    <2>2. k > 1
      BY <1>4, <1>6 DEF CallsAfterCheck
    <2>3. /\ Head(todo).program = m /\ Head(todo).caller = h[1]
          /\ Head(todo).pda_seeds = {main_seed(h[2])}
      BY <1>4, <2>1 DEF merkle_call
    <2>4. g = h
      BY <2>3, MainSeed, SamePair
    <2>5. 1 \in 1 .. Done(plan)
      BY <1>4, <2>2 DEF k
    <2>6. Achieved(plan[1], shards, work)
      BY <1>2, <2>5 DEF InProgress, Done
    <2>7. /\ apply(e, shards[ConfigShard(g)]) # Refused
          /\ work[ConfigShard(g)] = apply(e, shards[ConfigShard(g)])
      BY <2>1, <2>4, <2>6, EffectDone
    <2>8. shards[ConfigShard(g)] \in ConfigState(g[2]) \cup {Empty} /\ g[2] \in TreeIds
      BY RegistryPair DEF Inv, TypeInv, WellTyped, RegistryTyped
    <2>9. QED
      BY <2>1, <2>3, <2>7, <2>8, Guarded
  <1>7. QED
    BY <1>3, <1>5, <1>6

\* Whenever a chained call carrying the seed of a registry's tree is next, the
\* config has named its callee in this very transaction (the InitTreeGuard,
\* RegisterConfig or ReleaseConfig effect has run), whatever programs, trees
\* and registries there are.
THEOREM GrantCorrect == Spec => []GrantOnlyConfigured
  BY Invariance, GrantsAreChecked, PTL

-----------------------------------------------------------------------------
(***************************************************************************)
(* Isolation.                                                              *)
(***************************************************************************)
LEMMA ViewSame ==
  ASSUME NEW g \in Registries,
         shards'[ConfigShard(g)] = shards[ConfigShard(g)],
         \A c \in Commitments : shards'[MemberShard(g, c)] = shards[MemberShard(g, c)],
         \A m \in MerklePrograms : shards'[TreeShard(g, m)] = shards[TreeShard(g, m)]
  PROVE  View(g)' = View(g)
  <1>1. [c \in Commitments |-> shards'[MemberShard(g, c)]]
          = [c \in Commitments |-> shards[MemberShard(g, c)]]
    OBVIOUS
  <1>2. [m \in MerklePrograms |-> shards'[TreeShard(g, m)]]
          = [m \in MerklePrograms |-> shards[TreeShard(g, m)]]
    OBVIOUS
  <1>3. QED
    BY <1>1, <1>2 DEF View

LEMMA IsolatedStep ==
  ASSUME Inv, Next, NEW g \in Registries, View(g)' # View(g)
  PROVE  tx # None /\ g = <<tx.program, tx.tree_id>>
  <1>1. CASE UNCHANGED shards
    BY <1>1, ViewSame
  <1>2. CASE Submission \/ ApplyEffect \/ ChainedCall \/ NativeTransfer \/ Revert
    BY <1>1, <1>2, SubmitJob DEF Submitted, ApplyEffect, ChainedCall, NativeTransfer, Revert
  <1>3. CASE Commit
    <2>1. PICK h \in Registries : SettledIn(h)
      BY <1>3, CommitShards, SettledFacts DEF Inv
    <2>2. shards' = work /\ tx # None
      BY <1>3 DEF Commit
    <2>3. CASE g # h
      <3>1. ConfigSame(g) /\ MembersSame(g) /\ TreesSame(g)
        BY <2>1, <2>3 DEF SettledIn, ElsewhereSame
      <3>2. QED
        BY <2>2, <3>1, ViewSame DEF ConfigSame, MembersSame, TreesSame
    <2>4. QED
      BY <2>1, <2>2, <2>3 DEF SettledIn
  <1>4. ASSUME NEW t \in Instants, Tick(t) PROVE FALSE
    <2>1. \A s \in PdaShards : shards'[s] = shards[s]
      BY <1>4, TickShards, OtherShards DEF Inv
    <2>2. QED
      BY <2>1, ShardsNamed, ViewSame
  <1>5. ASSUME NEW x \in Secrets, Reveal(x) PROVE FALSE
    BY <1>1, <1>5, ViewSame DEF Reveal
  <1>6. QED
    BY <1>2, <1>3, <1>4, <1>5, NextCases

\* Whatever registries share programs, tree ids, commitments, payers and the
\* clock, no step of any transaction, foreign calls into the merkle program
\* included, changes the config, a membership or the tree of a registry other
\* than the one whose transaction commits.
THEOREM IsolationCorrect == Spec => RegistriesIsolated
  <1>1. Inv /\ [Next]_vars =>
          [\A g \in Registries : View(g)' # View(g) =>
             tx # None /\ g = <<tx.program, tx.tree_id>>]_vars
    BY IsolatedStep
  <1>2. QED
    BY <1>1, Invariance, PTL DEF Spec, RegistriesIsolated

-----------------------------------------------------------------------------
(***************************************************************************)
(* Treasuries: what a transaction sells is what it pays.                   *)
(***************************************************************************)

\* What was sold is a number, nothing is sold before there is a config, and a
\* treasury holds finitely many tokens, as many as it is due.
TreasuryInv ==
    /\ \A g \in Registries : /\ ledger[g].sold \in Nat
                             /\ shards[ConfigShard(g)] = Empty => ledger[g].sold = 0
    /\ \A t \in Treasuries : /\ IsFiniteSet(Tokens(t))
                             /\ shards[native_balance(t)] = Cardinality(Tokens(t))

\* n[g] tokens from each registry.
TokenSet(n) == UNION {{g} \X (1 .. n[g]) : g \in Registries}

LEMMA TokensCounted ==
  ASSUME NEW t
  PROVE  /\ Tokens(t) = TokenSet([g \in Registries |-> Due(g, t)])
         /\ Tokens(t)' = TokenSet([g \in Registries |-> Due(g, t)'])
  BY DEF Tokens, TokenSet

LEMMA TokensMember ==
  ASSUME NEW n, NEW u
  PROVE  u \in TokenSet(n) <=> \E g \in Registries : \E k \in 1 .. n[g] : u = <<g, k>>
  BY DEF TokenSet

\* Tokens that one registry adds.
LEMMA TokensAdded ==
  ASSUME NEW n \in [Registries -> Nat], NEW g \in Registries, NEW a \in Nat,
         IsFiniteSet(TokenSet(n))
  PROVE  LET new == TokenSet([n EXCEPT ![g] = @ + a])
         IN  IsFiniteSet(new) /\ Cardinality(new) = Cardinality(TokenSet(n)) + a
  <1> DEFINE k == [n EXCEPT ![g] = @ + a]
             more == {g} \X (n[g] + 1 .. n[g] + a)
             old == TokenSet(n)
  <1>1. n[g] \in Nat /\ k[g] = n[g] + a /\ \A h \in Registries : h # g => k[h] = n[h]
    OBVIOUS
  <1>2. ASSUME NEW u PROVE u \in TokenSet(k) <=> u \in old \cup more
    <2>1. u \in TokenSet(k) <=> \E h \in Registries : \E j \in 1 .. k[h] : u = <<h, j>>
      BY TokensMember
    <2>2. u \in old <=> \E h \in Registries : \E j \in 1 .. n[h] : u = <<h, j>>
      BY TokensMember
    <2>3. u \in more <=> \E j \in n[g] + 1 .. n[g] + a : u = <<g, j>>
      OBVIOUS
    <2>4. \A j : j \in 1 .. n[g] + a <=> j \in 1 .. n[g] \/ j \in n[g] + 1 .. n[g] + a
      BY <1>1
    <2> HIDE DEF k, old, more
    <2>5. QED
      BY <1>1, <2>1, <2>2, <2>3, <2>4
  <1>3. TokenSet(k) = old \cup more
    BY <1>2
  <1>4. old \cap more = {}
    <2> SUFFICES ASSUME NEW u \in old, u \in more PROVE FALSE
      OBVIOUS
    <2>1. PICK h \in Registries : \E j \in 1 .. n[h] : u = <<h, j>>
      BY TokensMember
    <2>2. PICK j \in 1 .. n[h] : u = <<h, j>>
      BY <2>1
    <2>3. h = g /\ j \in n[g] + 1 .. n[g] + a
      BY <2>2
    <2>4. QED
      BY <1>1, <2>2, <2>3
  <1>5. IsFiniteSet(more) /\ Cardinality(more) = a
    <2>1. IsFiniteSet({g}) /\ Cardinality({g}) = 1
      BY FS_Singleton
    <2> DEFINE range == n[g] + 1 .. n[g] + a
    <2>2. IsFiniteSet(range) /\ Cardinality(range) = a
      <3>1. n[g] + 1 \in Int /\ n[g] + a \in Int
        BY <1>1
      <3>2. /\ IsFiniteSet(range)
            /\ Cardinality(range) = IF n[g] + 1 > n[g] + a THEN 0 ELSE (n[g] + a) - (n[g] + 1) + 1
        BY <3>1, FS_Interval
      <3>3. QED
        BY <1>1, <3>2
    <2> HIDE DEF range
    <2>3. /\ IsFiniteSet({g} \X range)
          /\ Cardinality({g} \X range) = Cardinality({g}) * Cardinality(range)
      BY <2>1, <2>2, FS_Product, Zenon
    <2>4. Cardinality({g}) * Cardinality(range) = a
      BY <2>1, <2>2
    <2>5. QED
      BY <2>3, <2>4 DEF range
  <1> HIDE DEF k, more, old
  <1>6. IsFiniteSet(old)
    BY DEF old
  <1>7. Cardinality(old \cap more) = 0 /\ Cardinality(old) \in Nat
    BY <1>4, <1>6, FS_EmptySet, FS_CardinalityType
  <1>8. IsFiniteSet(old \cup more)
        /\ Cardinality(old \cup more) = Cardinality(old) + Cardinality(more) - Cardinality(old \cap more)
    BY <1>5, <1>6, FS_Union
  <1>9. Cardinality(old \cup more) = Cardinality(old) + a
    BY <1>5, <1>7, <1>8
  <1>10. IsFiniteSet(TokenSet(k)) /\ Cardinality(TokenSet(k)) = Cardinality(TokenSet(n)) + a
    BY <1>3, <1>8, <1>9 DEF old
  <1>11. QED
    BY <1>10 DEF k

\* Nobody has the saturated price: a payment is the price of the units sold.
LEMMA PaidInFull ==
  ASSUME Inv, NEW rate \in RateLimits, NEW claim \in Deployments, NEW payer \in Payers,
         Payment(rate, claim, payer)
  PROVE  calculate_payment_amount(rate, claim.price_per_unit) = claim.price_per_unit * rate
  <1>1. /\ shards[native_balance(payer)] \in Nat /\ ledger[Home].paid[payer] \in Nat
        /\ InitialBalance[payer] \in Nat
        /\ shards[native_balance(payer)] + ledger[Home].paid[payer] <= InitialBalance[payer]
    BY RegistriesAssumption, ChainAssumption DEF Inv, TypeInv, WellTyped, SpentInv
  <1>2. InitialBalance[payer] < U128_MAX /\ U128_MAX \in Nat
    BY HomeAssumption, ChainAssumption DEF HomeRegistry!WidthAssumption
  <1>3. shards[native_balance(payer)] < U128_MAX
    BY <1>1, <1>2
  <1>4. calculate_payment_amount(rate, claim.price_per_unit) <= shards[native_balance(payer)]
    BY DEF Payment
  <1> DEFINE product == claim.price_per_unit * rate
  <1>5. calculate_payment_amount(rate, claim.price_per_unit)
          = IF product > U128_MAX THEN U128_MAX ELSE product
    BY DEF calculate_payment_amount
  <1> HIDE DEF product
  <1>6. calculate_payment_amount(rate, claim.price_per_unit) = product
    BY <1>1, <1>2, <1>3, <1>4, <1>5
  <1>7. QED
    BY <1>6 DEF product

\* Two kinds of transactions: those that sell nothing and move no tokens, ...
TermsKept(g) ==
    /\ shards[ConfigShard(g)] # Empty /\ work[ConfigShard(g)] # Empty
    /\ work[ConfigShard(g)].price_per_unit = shards[ConfigShard(g)].price_per_unit
    /\ work[ConfigShard(g)].treasury_account_id = shards[ConfigShard(g)].treasury_account_id

SellsNothing(g) ==
    /\ BalancesSame
    /\ tx.op \notin {"Register", "Extend"}
    /\ TermsKept(g) \/ (shards[ConfigShard(g)] = Empty /\ work[ConfigShard(g)] # Empty)

\* ... and those that sell a number of units at the config's price.
Sells(g) ==
    /\ TermsKept(g)
    /\ tx.op \in {"Register", "Extend"}
    /\ tx.rate_limit \in Nat
    /\ \E payer \in Payers :
          BalancesAfter(payer, shards[ConfigShard(g)].treasury_account_id,
                        shards[ConfigShard(g)].price_per_unit * tx.rate_limit)

LEMMA SaleCases ==
  ASSUME Inv, Settled
  PROVE  \E g \in Registries :
            /\ <<tx.program, tx.tree_id>> = g /\ ElsewhereSame(g)
            /\ SellsNothing(g) \/ Sells(g)
  <1> DEFINE Case(g) == /\ <<tx.program, tx.tree_id>> = g /\ ElsewhereSame(g)
                        /\ SellsNothing(g) \/ Sells(g)
  <1>1. ASSUME NEW g \in Registries, NEW d \in Deployments,
               tx = Tx("Initialize", g[1], g[2]), InitializeDone(g, d)
        PROVE  Case(g)
    <2>1. work[ConfigShard(g)] \in ConfigState(g[2])
      BY <1>1, ChainAssumption DEF InitializeDone, ConfigState
    <2>2. work[ConfigShard(g)] # Empty
      BY <2>1, NamesAssumption, RegistryPair
    <2>3. QED
      BY <1>1, <2>2, TxFields, RegistryPair DEF InitializeDone, SellsNothing
  <1>2. ASSUME NEW g \in Registries, NEW m \in MerklePrograms,
               tx = Tx("InitializeMerkleTree", g[1], g[2]), InitializeMerkleTreeDone(g, m)
        PROVE  Case(g)
    BY <1>2, TxFields, RegistryPair
       DEF InitializeMerkleTreeDone, ConfigNames, ConfigSame, TermsKept, SellsNothing
  <1>3. ASSUME NEW g \in Registries, NEW m \in MerklePrograms, NEW c \in Commitments,
               NEW rate \in RateLimits, NEW i \in Indices, NEW op \in {"Slash", "Erase"}, NEW now,
               tx = MemberTx(op, g[1], g[2], c, rate, now), Removal(g, m, c, rate, i)
        PROVE  Case(g)
    <2>1. TermsKept(g)
      <3> DEFINE config == shards[ConfigShard(g)]
      <3>1. config \in ConfigState(g[2])
        BY <1>3 DEF Inv, TypeInv, WellTyped, RegistryTyped, Removal, ConfigNames
      <3>2. /\ work[ConfigShard(g)].price_per_unit = config.price_per_unit
            /\ work[ConfigShard(g)].treasury_account_id = config.treasury_account_id
        BY <1>3, <3>1 DEF Removal, ConfigState
      <3>3. work[ConfigShard(g)] \in ConfigState(g[2])
        <4>1. saturating_sub(config.current_total_rate_limit, rate) \in Nat
              /\ saturating_sub(config.total_registrations, 1) \in Nat
          BY <3>1, Arithmetic, ChainAssumption DEF ConfigState
        <4>2. QED
          BY <1>3, <3>1, <4>1 DEF Removal, ConfigState
      <3>4. work[ConfigShard(g)] # Empty
        BY <3>3, NamesAssumption, RegistryPair
      <3>5. QED
        BY <1>3, <3>2, <3>4 DEF TermsKept, Removal, ConfigNames
    <2>2. QED
      BY <1>3, <2>1, TxFields, RegistryPair DEF Removal, SellsNothing
  <1>4. ASSUME NEW g \in Registries, NEW c \in Commitments, NEW rate \in RateLimits,
               NEW claim \in Deployments, NEW now \in Instants, NEW payer \in Payers,
               tx \in {RegisterTx(g[1], g[2], c, rate, claim, now, payer),
                       ExtendTx(g[1], g[2], c, rate, claim, now, payer)},
               Payment(rate, claim, payer), ElsewhereSame(g), ConfigSells(g, claim), TermsKept(g)
        PROVE  Case(g)
    <2>1. /\ tx.program = g[1] /\ tx.tree_id = g[2] /\ tx.rate_limit = rate
          /\ tx.op \in {"Register", "Extend"}
      BY <1>4, TxFields
    <2>2. rate \in Nat
      BY ChainAssumption
    <2>3. BalancesAfter(payer, claim.treasury_account_id, claim.price_per_unit * rate)
      BY <1>4, PaidInFull DEF Payment
    <2>4. Sells(g)
      BY <1>4, <2>1, <2>2, <2>3 DEF Sells, ConfigSells
    <2>5. QED
      BY <1>4, <2>1, <2>4, RegistryPair
  <1>5. ASSUME NEW g \in Registries, NEW m \in MerklePrograms, NEW c \in Commitments,
               NEW rate \in RateLimits, NEW claim \in Deployments, NEW now \in Instants,
               NEW payer \in Payers,
               tx = RegisterTx(g[1], g[2], c, rate, claim, now, payer),
               RegisterDone(g, m, c, rate, claim, now, payer)
        PROVE  Case(g)
    <2> DEFINE config == shards[ConfigShard(g)]
    <2>1. config \in ConfigState(g[2])
      BY <1>5 DEF Inv, TypeInv, WellTyped, RegistryTyped, RegisterDone, ConfigNames
    <2>2. /\ saturating_add(config.current_total_rate_limit, rate) \in Nat
          /\ saturating_add(config.total_registrations, 1) \in Nat
      BY <2>1, Arithmetic, ChainAssumption DEF ConfigState
    <2>3. /\ work[ConfigShard(g)] \in ConfigState(g[2])
          /\ work[ConfigShard(g)].price_per_unit = config.price_per_unit
          /\ work[ConfigShard(g)].treasury_account_id = config.treasury_account_id
      BY <1>5, <2>1, <2>2 DEF RegisterDone, ConfigState
    <2>4. TermsKept(g)
      BY <1>5, <2>3, NamesAssumption, RegistryPair DEF TermsKept, RegisterDone, ConfigNames
    <2>5. Payment(rate, claim, payer) /\ ElsewhereSame(g) /\ ConfigSells(g, claim)
      BY <1>5 DEF RegisterDone
    <2>6. QED
      BY <1>4, <1>5, <2>4, <2>5
  <1>6. ASSUME NEW g \in Registries, NEW c \in Commitments,
               NEW rate \in RateLimits, NEW claim \in Deployments, NEW now \in Instants,
               NEW payer \in Payers,
               tx = ExtendTx(g[1], g[2], c, rate, claim, now, payer),
               ExtendDone(g, c, rate, claim, now, payer)
        PROVE  Case(g)
    <2>1. Payment(rate, claim, payer) /\ ElsewhereSame(g) /\ ConfigSells(g, claim)
      BY <1>6 DEF ExtendDone
    <2>2. TermsKept(g)
      BY <1>6 DEF ExtendDone, ConfigSame, ConfigSells, TermsKept
    <2>3. QED
      BY <1>4, <1>6, <2>1, <2>2
  <1> HIDE DEF Case
  <1>7. ASSUME NEW g \in Registries, NEW m \in MerklePrograms, NEW c \in Commitments,
               NEW rate \in RateLimits, NEW i \in Indices, NEW now \in Instants,
               tx = MemberTx("Erase", g[1], g[2], c, rate, now), EraseDone(g, m, c, rate, i, now)
        PROVE  Case(g)
    BY <1>3, <1>7 DEF EraseDone
  <1>8. \E g \in Registries : Case(g)
    BY <1>1, <1>2, <1>3, <1>5, <1>6, <1>7 DEF Settled
  <1>9. QED
    BY <1>8 DEF Case

\* What a treasury is due is a number, ...
LEMMA DueTyped ==
  ASSUME Inv, TreasuryInv, NEW g \in Registries, NEW t
  PROVE  Due(g, t) \in Nat
  <1>1. shards[ConfigShard(g)] # Empty => shards[ConfigShard(g)] \in ConfigState(g[2])
    BY DEF Inv, TypeInv, WellTyped, RegistryTyped
  <1>2. shards[ConfigShard(g)] # Empty => shards[ConfigShard(g)].price_per_unit \in Nat
    BY <1>1 DEF ConfigState
  <1>3. ledger[g].sold \in Nat
    BY DEF TreasuryInv
  <1>4. QED
    BY <1>2, <1>3 DEF Due

\* ... which only a change of the config's terms or a sale changes.
LEMMA DueSame ==
  ASSUME NEW g \in Registries, NEW t,
         shards'[ConfigShard(g)] = shards[ConfigShard(g)], ledger'[g] = ledger[g]
  PROVE  Due(g, t)' = Due(g, t)
  BY DEF Due

\* A treasury whose balance and dues stay as they are.
LEMMA TokensSame ==
  ASSUME TreasuryInv, NEW t \in Treasuries,
         \A g \in Registries : Due(g, t)' = Due(g, t),
         shards'[native_balance(t)] = shards[native_balance(t)]
  PROVE  /\ IsFiniteSet(Tokens(t)')
         /\ shards'[native_balance(t)] = Cardinality(Tokens(t)')
  <1>1. Tokens(t)' = Tokens(t)
    BY TokensCounted, Zenon
  <1>2. QED
    BY <1>1 DEF TreasuryInv

\* A treasury that is paid.
LEMMA TokensPaid ==
  ASSUME Inv, TreasuryInv, NEW t \in Treasuries, NEW g \in Registries, NEW a \in Nat,
         Due(g, t)' = Due(g, t) + a,
         \A h \in Registries : h # g => Due(h, t)' = Due(h, t),
         shards'[native_balance(t)] = shards[native_balance(t)] + a
  PROVE  /\ IsFiniteSet(Tokens(t)')
         /\ shards'[native_balance(t)] = Cardinality(Tokens(t)')
  <1> DEFINE n == [h \in Registries |-> Due(h, t)]
             k == [h \in Registries |-> Due(h, t)']
  <1>1. n \in [Registries -> Nat] /\ n[g] = Due(g, t)
    BY DueTyped
  <1>2. k = [n EXCEPT ![g] = @ + a]
    <2>1. \A h \in Registries : Due(h, t)' = IF h = g THEN Due(h, t) + a ELSE Due(h, t)
      OBVIOUS
    <2>2. QED
      BY <2>1
  <1>3. Tokens(t) = TokenSet(n) /\ Tokens(t)' = TokenSet(k)
    BY TokensCounted
  <1>4. IsFiniteSet(Tokens(t)) /\ shards[native_balance(t)] = Cardinality(Tokens(t))
    BY DEF TreasuryInv
  <1> HIDE DEF n, k
  <1>5. IsFiniteSet(TokenSet(k)) /\ Cardinality(TokenSet(k)) = Cardinality(TokenSet(n)) + a
    BY <1>1, <1>2, <1>3, <1>4, TokensAdded
  <1>6. QED
    BY <1>3, <1>4, <1>5

LEMMA TreasuryCommit ==
  ASSUME Inv, TreasuryInv, Commit
  PROVE  TreasuryInv'
  <1>1. PICK g \in Registries : /\ <<tx.program, tx.tree_id>> = g /\ ElsewhereSame(g)
                                /\ SellsNothing(g) \/ Sells(g)
    BY CommitShards, SaleCases DEF Inv
  <1>2. shards' = work
    BY DEF Commit
  <1>3. /\ \A h \in Registries : h # g => ledger'[h] = ledger[h]
        /\ ledger'[g].sold = IF tx.op \in {"Register", "Extend"}
                             THEN ledger[g].sold + tx.rate_limit ELSE ledger[g].sold
    <2>1. \A h \in Registries : ledger'[h] = IF h = g THEN Recorded(ledger[h]) ELSE ledger[h]
      BY <1>1 DEF Commit
    <2>2. Recorded(ledger[g]).sold = IF tx.op \in {"Register", "Extend"}
                                     THEN ledger[g].sold + tx.rate_limit ELSE ledger[g].sold
      BY DEF Recorded
    <2>3. QED
      BY <2>1, <2>2
  <1>4. \A h \in Registries : h # g => shards'[ConfigShard(h)] = shards[ConfigShard(h)]
    BY <1>1, <1>2 DEF ElsewhereSame, ConfigSame
  <1>5. ASSUME NEW t, NEW h \in Registries, h # g PROVE Due(h, t)' = Due(h, t)
    BY <1>3, <1>4, <1>5, DueSame
  <1>6. /\ ledger[g].sold \in Nat /\ shards[ConfigShard(g)] = Empty => ledger[g].sold = 0
        /\ \A h \in Registries : /\ ledger[h].sold \in Nat
                                 /\ shards[ConfigShard(h)] = Empty => ledger[h].sold = 0
    BY DEF TreasuryInv
  <1>7. CASE SellsNothing(g)
    <2>1. ledger'[g].sold = ledger[g].sold /\ shards'[ConfigShard(g)] # Empty
      BY <1>2, <1>3, <1>7 DEF SellsNothing, TermsKept
    <2>2. ASSUME NEW t \in Treasuries PROVE Due(g, t)' = Due(g, t)
      <3>1. CASE TermsKept(g)
        BY <1>2, <2>1, <3>1 DEF Due, TermsKept
      <3>2. CASE shards[ConfigShard(g)] = Empty /\ work[ConfigShard(g)] # Empty
        <4>1. ledger'[g].sold = 0 /\ Due(g, t) = 0
          BY <1>6, <2>1, <3>2 DEF Due
        <4>2. work[ConfigShard(g)].price_per_unit \in Nat
          <5>1. WellTyped(work)
            BY CommitShards, SettledTyped DEF Inv
          <5>2. work[ConfigShard(g)] \in ConfigState(g[2])
            BY <3>2, <5>1 DEF WellTyped, RegistryTyped
          <5>3. QED
            BY <5>2 DEF ConfigState
        <4>3. work[ConfigShard(g)].price_per_unit * 0 = 0
          BY <4>2
        <4>4. QED
          BY <1>2, <4>1, <4>3 DEF Due
      <3>3. QED
        BY <1>7, <3>1, <3>2 DEF SellsNothing
    <2>3. ASSUME NEW t \in Treasuries
          PROVE  /\ IsFiniteSet(Tokens(t)')
                 /\ shards'[native_balance(t)] = Cardinality(Tokens(t)')
      <3>1. \A h \in Registries : Due(h, t)' = Due(h, t)
        BY <1>5, <2>2
      <3>2. shards'[native_balance(t)] = shards[native_balance(t)]
        BY <1>2, <1>7 DEF SellsNothing, BalancesSame
      <3>3. QED
        BY <3>1, <3>2, TokensSame
    <2>4. \A h \in Registries : /\ ledger'[h].sold \in Nat
                                /\ shards'[ConfigShard(h)] = Empty => ledger'[h].sold = 0
      BY <1>3, <1>4, <1>6, <2>1
    <2>5. QED
      BY <2>3, <2>4 DEF TreasuryInv
  <1>8. CASE Sells(g)
    <2> DEFINE price == shards[ConfigShard(g)].price_per_unit
               treasury == shards[ConfigShard(g)].treasury_account_id
    <2>1. /\ shards[ConfigShard(g)] # Empty /\ shards'[ConfigShard(g)] # Empty
          /\ shards'[ConfigShard(g)].price_per_unit = price
          /\ shards'[ConfigShard(g)].treasury_account_id = treasury
          /\ ledger'[g].sold = ledger[g].sold + tx.rate_limit /\ tx.rate_limit \in Nat
      BY <1>2, <1>3, <1>8 DEF Sells, TermsKept
    <2>2. PICK payer \in Payers : BalancesAfter(payer, treasury, price * tx.rate_limit)
      BY <1>8 DEF Sells
    <2>3. price \in Nat
      <3>1. shards[ConfigShard(g)] \in ConfigState(g[2])
        BY <2>1 DEF Inv, TypeInv, WellTyped, RegistryTyped
      <3>2. QED
        BY <3>1 DEF ConfigState
    <2>4. ASSUME NEW t \in Treasuries
          PROVE  shards'[native_balance(t)] =
                   IF t = treasury THEN shards[native_balance(t)] + price * tx.rate_limit
                   ELSE shards[native_balance(t)]
      <3>1. t # payer
        BY ChainAssumption
      <3>2. QED
        BY <1>2, <2>2, <3>1 DEF BalancesAfter
    <2>5. ASSUME NEW t \in Treasuries
          PROVE  Due(g, t)' = IF t = treasury THEN Due(g, t) + price * tx.rate_limit
                              ELSE Due(g, t)
      <3>1. Due(g, t) = IF t = treasury THEN price * ledger[g].sold ELSE 0
        BY <2>1 DEF Due
      <3>2. Due(g, t)' = IF t = treasury THEN price * (ledger[g].sold + tx.rate_limit) ELSE 0
        BY <2>1 DEF Due
      <3>3. price * (ledger[g].sold + tx.rate_limit)
              = price * ledger[g].sold + price * tx.rate_limit
        <4> HIDE DEF price
        <4>1. QED
          BY <1>6, <2>1, <2>3
      <3>4. QED
        BY <3>1, <3>2, <3>3
    <2>6. price * tx.rate_limit \in Nat
      <3> HIDE DEF price
      <3>1. QED
        BY <2>1, <2>3
    <2> HIDE DEF price, treasury
    <2>7. ASSUME NEW t \in Treasuries
          PROVE  /\ IsFiniteSet(Tokens(t)')
                 /\ shards'[native_balance(t)] = Cardinality(Tokens(t)')
      <3>1. CASE t = treasury
        BY <1>5, <2>4, <2>5, <2>6, <3>1, TokensPaid
      <3>2. CASE t # treasury
        <4>1. \A h \in Registries : Due(h, t)' = Due(h, t)
          BY <1>5, <2>5, <3>2
        <4>2. QED
          BY <2>4, <3>2, <4>1, TokensSame
      <3>3. QED
        BY <3>1, <3>2
    <2>8. \A h \in Registries : /\ ledger'[h].sold \in Nat
                                /\ shards'[ConfigShard(h)] = Empty => ledger'[h].sold = 0
      BY <1>3, <1>4, <1>6, <2>1
    <2>9. QED
      BY <2>7, <2>8 DEF TreasuryInv
  <1>9. QED
    BY <1>1, <1>7, <1>8

\* Configs, balances and history as they are.
LEMMA TreasuryKept ==
  ASSUME TreasuryInv, UNCHANGED ledger,
         \A g \in Registries : shards'[ConfigShard(g)] = shards[ConfigShard(g)],
         \A t \in Treasuries : shards'[native_balance(t)] = shards[native_balance(t)]
  PROVE  TreasuryInv'
  <1>1. ASSUME NEW t \in Treasuries
        PROVE  /\ IsFiniteSet(Tokens(t)')
               /\ shards'[native_balance(t)] = Cardinality(Tokens(t)')
    <2>1. \A g \in Registries : Due(g, t)' = Due(g, t)
      BY DueSame
    <2>2. QED
      BY <2>1, TokensSame
  <1>2. QED
    BY <1>1 DEF TreasuryInv

LEMMA TreasuryStep ==
  ASSUME Inv, TreasuryInv, [Next]_vars
  PROVE  TreasuryInv'
  <1>1. CASE UNCHANGED <<shards, ledger>>
    BY <1>1, TreasuryKept
  <1>2. CASE UNCHANGED vars
    BY <1>1, <1>2 DEF vars
  <1>3. CASE Submission \/ ApplyEffect \/ ChainedCall \/ NativeTransfer \/ Revert
    BY <1>1, <1>3, SubmitJob DEF Submitted, ApplyEffect, ChainedCall, NativeTransfer, Revert
  <1>4. CASE Commit
    BY <1>4, TreasuryCommit
  <1>5. ASSUME NEW t \in Instants, Tick(t) PROVE TreasuryInv'
    <2>1. UNCHANGED ledger
      BY <1>5 DEF Tick
    <2>2. /\ \A g \in Registries : shards'[ConfigShard(g)] = shards[ConfigShard(g)]
          /\ \A a \in Treasuries : shards'[native_balance(a)] = shards[native_balance(a)]
      BY <1>5, TickShards, ShardsNamed, OtherShards DEF Inv
    <2>3. QED
      BY <2>1, <2>2, TreasuryKept
  <1>6. ASSUME NEW x \in Secrets, Reveal(x) PROVE TreasuryInv'
    BY <1>1, <1>6 DEF Reveal
  <1>7. QED
    BY <1>2, <1>3, <1>4, <1>5, <1>6, NextCases

LEMMA TreasuryInit ==
  ASSUME Init
  PROVE  TreasuryInv
  <1>1. \A s \in PdaShards : shards[s] = Empty
    BY OtherShards DEF Init
  <1>2. \A g \in Registries : shards[ConfigShard(g)] = Empty /\ ledger[g].sold = 0
    BY <1>1, ShardsNamed DEF Init
  <1>3. ASSUME NEW t \in Treasuries
        PROVE  IsFiniteSet(Tokens(t)) /\ shards[native_balance(t)] = Cardinality(Tokens(t))
    <2>1. \A g \in Registries : Due(g, t) = 0
      BY <1>2 DEF Due
    <2>2. Tokens(t) = {}
      BY <2>1 DEF Tokens
    <2>3. native_balance(t) \notin {native_balance(p) : p \in Payers}
      BY OtherShards, ChainAssumption
    <2>4. shards[native_balance(t)] = 0
      BY <2>3, OtherShards DEF Init
    <2>5. QED
      BY <2>2, <2>4, FS_EmptySet
  <1>4. QED
    BY <1>2, <1>3 DEF TreasuryInv

\* Every treasury holds exactly what the registries that name it in their
\* config have sold, each unit at its registry's price, however many registries
\* share it and whatever was reverted: a token reaches a treasury with the
\* commit of the transaction that sells, or not at all.
THEOREM TreasuriesCorrect == Spec => []TreasuriesExact
  <1>1. Inv /\ TreasuryInv /\ [Next]_vars => TreasuryInv'
    BY TreasuryStep
  <1>2. TreasuryInv => TreasuriesExact
    BY DEF TreasuryInv, TreasuriesExact
  <1>3. QED
    BY <1>1, <1>2, TreasuryInit, Invariance, PTL DEF Spec

-----------------------------------------------------------------------------
(***************************************************************************)
(* Refinement: the registry Home behaves as Registry says.                 *)
(***************************************************************************)
StripConfig(config) ==
    IF config = Empty THEN Empty ELSE [f \in DOMAIN config \ {"tree_id"} |-> config[f]]

StripMember(member) ==
    IF member = Empty THEN Empty ELSE [f \in DOMAIN member \ {"id_commitment"} |-> member[f]]

\* Registry's layouts are the executor's.
LEMMA SameLayouts ==
  /\ \A a, b : /\ HomeRegistry!saturating_add(a, b) = saturating_add(a, b)
               /\ HomeRegistry!saturating_sub(a, b) = saturating_sub(a, b)
               /\ HomeRegistry!calculate_payment_amount(a, b) = calculate_payment_amount(a, b)
               /\ HomeRegistry!compute_registration_leaf(a, b) = compute_registration_leaf(a, b)
               /\ HomeRegistry!assert_clock_is(a, b) = assert_clock_is(a, b)
  /\ \A a : /\ HomeRegistry!secs_to_millis(a) = secs_to_millis(a)
            /\ HomeRegistry!validate_rate_limit(a) = validate_rate_limit(a)
  /\ \A a, b, c : /\ HomeRegistry!is_in_grace_period(a, b, c) = is_in_grace_period(a, b, c)
                  /\ HomeRegistry!is_expired(a, b, c) = is_expired(a, b, c)
  /\ HomeRegistry!Indices = Indices
  BY DEF HomeRegistry!saturating_add, saturating_add, HomeRegistry!saturating_sub, saturating_sub,
         HomeRegistry!calculate_payment_amount, calculate_payment_amount,
         HomeRegistry!compute_registration_leaf, compute_registration_leaf,
         HomeRegistry!assert_clock_is, assert_clock_is, HomeRegistry!secs_to_millis, secs_to_millis,
         HomeRegistry!validate_rate_limit, validate_rate_limit,
         HomeRegistry!is_in_grace_period, is_in_grace_period, HomeRegistry!is_expired, is_expired,
         HomeRegistry!Indices, Indices

LEMMA StrippedConfig ==
  ASSUME NEW t \in TreeIds, NEW config \in ConfigState(t)
  PROVE  /\ StripConfig(config) =
              [merkle_program_id |-> config.merkle_program_id,
               price_per_unit |-> config.price_per_unit,
               treasury_account_id |-> config.treasury_account_id,
               total_registrations |-> config.total_registrations,
               max_total_rate_limit |-> config.max_total_rate_limit,
               current_total_rate_limit |-> config.current_total_rate_limit,
               active_duration_sec |-> config.active_duration_sec,
               grace_period_duration_sec |-> config.grace_period_duration_sec]
         /\ StripConfig(config) # Empty
  <1>1. config # Empty
    BY NamesAssumption
  <1>2. StripConfig(config) =
              [merkle_program_id |-> config.merkle_program_id,
               price_per_unit |-> config.price_per_unit,
               treasury_account_id |-> config.treasury_account_id,
               total_registrations |-> config.total_registrations,
               max_total_rate_limit |-> config.max_total_rate_limit,
               current_total_rate_limit |-> config.current_total_rate_limit,
               active_duration_sec |-> config.active_duration_sec,
               grace_period_duration_sec |-> config.grace_period_duration_sec]
    BY <1>1 DEF StripConfig, ConfigState
  <1>3. StripConfig(config) \in HomeRegistry!ConfigState
    BY <1>2 DEF HomeRegistry!ConfigState, ConfigState
  <1>4. QED
    BY <1>2, <1>3, HomeAssumption DEF HomeRegistry!EmptyAssumption

LEMMA StrippedMember ==
  ASSUME NEW c \in Commitments, NEW member \in MembershipState(c)
  PROVE  /\ StripMember(member) =
              [rate_limit |-> member.rate_limit,
               grace_period_start_timestamp_ms |-> member.grace_period_start_timestamp_ms,
               active_duration_sec |-> member.active_duration_sec,
               grace_period_duration_sec |-> member.grace_period_duration_sec]
         /\ StripMember(member) # Empty
  <1>1. member # Empty
    BY NamesAssumption
  <1>2. StripMember(member) =
              [rate_limit |-> member.rate_limit,
               grace_period_start_timestamp_ms |-> member.grace_period_start_timestamp_ms,
               active_duration_sec |-> member.active_duration_sec,
               grace_period_duration_sec |-> member.grace_period_duration_sec]
    BY <1>1 DEF StripMember, MembershipState
  <1>3. StripMember(member) \in HomeRegistry!MembershipState
    BY <1>2 DEF HomeRegistry!MembershipState, MembershipState
  <1>4. QED
    BY <1>2, <1>3, HomeAssumption DEF HomeRegistry!EmptyAssumption

\* The mapping, before and after a step.
LEMMA Mapping ==
  /\ HomeConfig = StripConfig(shards[ConfigShard(Home)])
  /\ HomeConfig' = StripConfig(shards'[ConfigShard(Home)])
  /\ HomeMembership = [c \in Commitments |-> StripMember(shards[MemberShard(Home, c)])]
  /\ HomeMembership' = [c \in Commitments |-> StripMember(shards'[MemberShard(Home, c)])]
  /\ HomeTree = [m \in MerklePrograms |-> shards[TreeShard(Home, m)]]
  /\ HomeTree' = [m \in MerklePrograms |-> shards'[TreeShard(Home, m)]]
  <1>1. /\ HomeConfig = StripConfig(shards[ConfigShard(Home)])
        /\ HomeConfig' = StripConfig(shards'[ConfigShard(Home)])
    BY DEF HomeConfig, StripConfig
  <1>2. /\ HomeMembership = [c \in Commitments |-> StripMember(shards[MemberShard(Home, c)])]
        /\ HomeMembership' = [c \in Commitments |-> StripMember(shards'[MemberShard(Home, c)])]
    BY DEF HomeMembership, StripMember
  <1>3. QED
    BY <1>1, <1>2 DEF HomeTree

\* What leaves Home's shards and history alone leaves the mapping alone.
LEMMA MappingSame ==
  /\ shards'[ConfigShard(Home)] = shards[ConfigShard(Home)] => HomeConfig' = HomeConfig
  /\ (\A c \in Commitments : shards'[MemberShard(Home, c)] = shards[MemberShard(Home, c)])
        => HomeMembership' = HomeMembership
  /\ (\A m \in MerklePrograms : shards'[TreeShard(Home, m)] = shards[TreeShard(Home, m)])
        => HomeTree' = HomeTree
  /\ ledger'[Home] = ledger[Home] => HomeBalance' = HomeBalance
  <1>1. ASSUME \A c \in Commitments : shards'[MemberShard(Home, c)] = shards[MemberShard(Home, c)]
        PROVE  HomeMembership' = HomeMembership
    <2>1. [c \in Commitments |-> StripMember(shards'[MemberShard(Home, c)])]
            = [c \in Commitments |-> StripMember(shards[MemberShard(Home, c)])]
      BY <1>1
    <2>2. QED
      BY <2>1, Mapping
  <1>2. ASSUME \A m \in MerklePrograms : shards'[TreeShard(Home, m)] = shards[TreeShard(Home, m)]
        PROVE  HomeTree' = HomeTree
    <2>1. [m \in MerklePrograms |-> shards'[TreeShard(Home, m)]]
            = [m \in MerklePrograms |-> shards[TreeShard(Home, m)]]
      BY <1>2
    <2>2. QED
      BY <2>1, Mapping
  <1>3. ledger'[Home] = ledger[Home] => HomeBalance' = HomeBalance
    BY DEF HomeBalance
  <1>4. QED
    BY <1>1, <1>2, <1>3, Mapping

\* The initial states map to the initial state.
LEMMA RefineInit ==
  ASSUME Init
  PROVE  HomeRegistry!Init
  <1>1. Home \in Registries
    BY RegistriesAssumption
  <1>2. /\ \A s \in PdaShards : shards[s] = Empty
        /\ shards[clock_shard] = 0
    BY OtherShards DEF Init
  <1>3. HomeConfig = Empty
    BY <1>1, <1>2, ShardsNamed, Mapping DEF StripConfig
  <1>4. HomeMembership = [c \in Commitments |-> Empty]
    BY <1>1, <1>2, ShardsNamed, Mapping DEF StripMember
  <1>5. HomeTree = [p \in MerklePrograms |-> Empty]
    BY <1>1, <1>2, ShardsNamed, Mapping
  <1>6. /\ ledger[Home].paid = [a \in Payers \cup Treasuries |-> 0]
        /\ ledger[Home].sale = [c \in Commitments |-> Empty]
        /\ ledger[Home].sold = 0
    BY <1>1 DEF Init
  <1>7. HomeBalance = [a \in Payers \cup Treasuries |->
                         IF a \in Payers THEN InitialBalance[a] ELSE 0]
    <2>1. \A a \in Payers \cup Treasuries :
            (IF a \in Payers THEN InitialBalance[a] - ledger[Home].paid[a] ELSE ledger[Home].paid[a])
              = IF a \in Payers THEN InitialBalance[a] ELSE 0
      BY <1>6, ChainAssumption
    <2>2. QED
      BY <2>1 DEF HomeBalance
  <1>8. revealed = {}
    BY DEF Init
  <1>9. QED
    BY <1>2, <1>3, <1>4, <1>5, <1>6, <1>7, <1>8 DEF HomeRegistry!Init

\* Committing a transaction of Home: the mapped variables afterwards.
HomeCommit == Inv /\ Commit /\ <<tx.program, tx.tree_id>> = Home

LEMMA HomeShards ==
  ASSUME HomeCommit
  PROVE  /\ Home \in Registries /\ shards' = work /\ revealed' = revealed
         /\ TypeInv /\ RegistryTyped(shards, Home) /\ Home[2] \in TreeIds
         /\ ledger'[Home] = Recorded(ledger[Home])
         /\ tx.amount \in Nat
         /\ tx \in Transaction
  <1>1. Home \in Registries
    BY RegistriesAssumption
  <1>2. tx \in Transaction
    BY JobsAreTransactions DEF HomeCommit, Inv, JobInv, Commit
  <1>3. ledger'[Home] = Recorded(ledger[Home]) /\ tx.amount \in Nat
    BY <1>1, CommitLedger DEF HomeCommit, Inv
  <1>4. QED
    BY <1>1, <1>2, <1>3, RegistryPair DEF HomeCommit, Inv, Commit, TypeInv, WellTyped

LEMMA HomeMembersAfter ==
  ASSUME HomeCommit, NEW c \in Commitments, NEW new, MembersAfter(Home, c, new)
  PROVE  HomeMembership' = [HomeMembership EXCEPT ![c] = StripMember(new)]
  <1>1. \A d \in Commitments :
          shards'[MemberShard(Home, d)] = IF d = c THEN new ELSE shards[MemberShard(Home, d)]
    BY HomeShards DEF MembersAfter
  <1>2. [d \in Commitments |-> StripMember(shards'[MemberShard(Home, d)])] =
          [[d \in Commitments |-> StripMember(shards[MemberShard(Home, d)])]
             EXCEPT ![c] = StripMember(new)]
    BY <1>1
  <1>3. QED
    BY <1>2, Mapping

LEMMA HomeTreesAfter ==
  ASSUME HomeCommit, NEW m \in MerklePrograms, NEW new, TreesAfter(Home, m, new)
  PROVE  HomeTree' = [HomeTree EXCEPT ![m] = new]
  <1>1. \A p \in MerklePrograms :
          shards'[TreeShard(Home, p)] = IF p = m THEN new ELSE shards[TreeShard(Home, p)]
    BY HomeShards DEF TreesAfter
  <1>2. [p \in MerklePrograms |-> shards'[TreeShard(Home, p)]] =
          [[p \in MerklePrograms |-> shards[TreeShard(Home, p)]] EXCEPT ![m] = new]
    BY <1>1
  <1>3. QED
    BY <1>2, Mapping

LEMMA HomeUntouched ==
  ASSUME HomeCommit
  PROVE  /\ ConfigSame(Home) => HomeConfig' = HomeConfig
         /\ MembersSame(Home) => HomeMembership' = HomeMembership
         /\ TreesSame(Home) => HomeTree' = HomeTree
         /\ ElsewhereSame(Home) => shards'[clock_shard] = shards[clock_shard]
  BY HomeShards, MappingSame DEF ConfigSame, MembersSame, TreesSame, ElsewhereSame

LEMMA HomePaid ==
  ASSUME HomeCommit, NEW a \in Payers \cup Treasuries
  PROVE  /\ ledger[Home].paid[a] \in Nat
         /\ ledger'[Home].paid[a] =
              ledger[Home].paid[a] + IF a \in {tx.payer, tx.treasury} THEN tx.amount ELSE 0
  <1>1. ledger[Home].paid \in [Payers \cup Treasuries -> Nat]
    BY HomeShards DEF TypeInv
  <1>2. Recorded(ledger[Home]).paid =
          [b \in Payers \cup Treasuries |->
             ledger[Home].paid[b] + IF b \in {tx.payer, tx.treasury} THEN tx.amount ELSE 0]
    BY DEF Recorded
  <1>3. QED
    BY <1>1, <1>2, HomeShards

LEMMA HomeFree ==
  ASSUME HomeCommit, tx.amount = 0
  PROVE  HomeBalance' = HomeBalance
  <1>1. \A a \in Payers \cup Treasuries : ledger'[Home].paid[a] = ledger[Home].paid[a]
    BY HomePaid
  <1>2. QED
    BY <1>1 DEF HomeBalance

\* The executor lets a payer pay what it has; Registry's payer has no less.
LEMMA HomePayment ==
  ASSUME HomeCommit, tx.payer \in Payers, tx.treasury \in Treasuries,
         tx.amount <= shards[native_balance(tx.payer)]
  PROVE  HomeRegistry!native_payment(tx.payer, tx.treasury, tx.amount)
  <1> DEFINE p == tx.payer  to == tx.treasury  n == tx.amount
  <1>1. n \in Nat /\ p \in Payers /\ to \in Treasuries /\ p # to /\ to \notin Payers
    BY HomeShards, ChainAssumption
  <1>2. \A a \in Payers \cup Treasuries :
          /\ ledger[Home].paid[a] \in Nat
          /\ ledger'[Home].paid[a] = ledger[Home].paid[a] + IF a \in {p, to} THEN n ELSE 0
    BY HomePaid
  <1>3. \A a \in Payers : InitialBalance[a] \in Nat
    BY ChainAssumption
  <1>4. HomeBalance = [a \in Payers \cup Treasuries |->
          IF a \in Payers THEN InitialBalance[a] - ledger[Home].paid[a] ELSE ledger[Home].paid[a]]
    BY DEF HomeBalance
  <1>5. HomeBalance' = [a \in Payers \cup Treasuries |->
          IF a \in Payers THEN InitialBalance[a] - ledger'[Home].paid[a] ELSE ledger'[Home].paid[a]]
    BY DEF HomeBalance
  <1>6. n <= HomeBalance[p]
    <2>1. shards[native_balance(p)] + ledger[Home].paid[p] <= InitialBalance[p]
      BY DEF HomeCommit, Inv, SpentInv
    <2>2. shards[native_balance(p)] \in Nat /\ n <= shards[native_balance(p)]
      BY HomeShards DEF TypeInv, WellTyped
    <2>3. HomeBalance[p] = InitialBalance[p] - ledger[Home].paid[p]
      BY <1>1, <1>4
    <2> HIDE DEF p, n
    <2>4. QED
      BY <1>1, <1>2, <1>3, <2>1, <2>2, <2>3
  <1> HIDE DEF p, to, n
  <1>7. HomeBalance' = [HomeBalance EXCEPT ![p] = @ - n, ![to] = @ + n]
    <2> DEFINE new == [HomeBalance EXCEPT ![p] = @ - n, ![to] = @ + n]
    <2>1. new = [a \in Payers \cup Treasuries |-> new[a]]
      BY <1>4
    <2>2. ASSUME NEW a \in Payers \cup Treasuries PROVE HomeBalance'[a] = new[a]
      <3>1. CASE a = p
        <4>1. /\ HomeBalance[p] = InitialBalance[p] - ledger[Home].paid[p]
              /\ HomeBalance'[p] = InitialBalance[p] - (ledger[Home].paid[p] + n)
          BY <1>1, <1>2, <1>4, <1>5
        <4>2. new[p] = HomeBalance[p] - n
          BY <1>1, <1>4
        <4>3. QED
          BY <1>1, <1>2, <1>3, <3>1, <4>1, <4>2
      <3>2. CASE a = to
        BY <1>1, <1>2, <1>4, <1>5, <3>2
      <3>3. CASE a # p /\ a # to
        <4>1. ledger'[Home].paid[a] = ledger[Home].paid[a]
          BY <1>2, <3>3
        <4>2. HomeBalance'[a] = HomeBalance[a]
          BY <1>4, <1>5, <4>1
        <4>3. new[a] = HomeBalance[a]
          BY <1>4, <3>3
        <4>4. QED
          BY <4>2, <4>3
      <3>4. QED
        BY <3>1, <3>2, <3>3
    <2> HIDE DEF new
    <2>3. HomeBalance' = [a \in Payers \cup Treasuries |-> HomeBalance'[a]]
      BY <1>5
    <2>4. HomeBalance' = new
      BY <2>1, <2>2, <2>3
    <2>5. QED
      BY <2>4 DEF new
  <1>8. QED
    BY <1>6, <1>7 DEF HomeRegistry!native_payment, p, to, n

\* The history of Home.
LEMMA HomeHistory ==
  ASSUME HomeCommit
  PROVE  /\ tx.id_commitment = None => ledger'[Home].sale = ledger[Home].sale
         /\ tx.id_commitment # None =>
              ledger'[Home].sale = [ledger[Home].sale EXCEPT ![tx.id_commitment] = Sale(@)]
         /\ tx.op \in {"Register", "Extend"} =>
              ledger'[Home].sold = ledger[Home].sold + tx.rate_limit
         /\ tx.op \notin {"Register", "Extend"} => ledger'[Home].sold = ledger[Home].sold
  BY HomeShards DEF Recorded

\* A committed instruction of Home is that instruction of Registry.
LEMMA RefineInitialize ==
  ASSUME HomeCommit, NEW d \in Deployments,
         d.max_total_rate_limit > 0, d.active_duration_sec > 0,
         tx = Tx("Initialize", Home[1], Home[2]), InitializeDone(Home, d)
  PROVE  HomeRegistry!Initialize(d)
  <1>1. tx.id_commitment = None /\ tx.amount = 0 /\ tx.op = "Initialize"
    BY TxFields
  <1>2. /\ ledger'[Home].sale = ledger[Home].sale /\ ledger'[Home].sold = ledger[Home].sold
        /\ HomeBalance' = HomeBalance
    BY <1>1, HomeHistory, HomeFree
  <1>3. /\ HomeMembership' = HomeMembership /\ HomeTree' = HomeTree
        /\ shards'[clock_shard] = shards[clock_shard] /\ revealed' = revealed
    BY HomeUntouched, HomeShards DEF InitializeDone
  <1>4. HomeConfig = Empty
    BY Mapping DEF InitializeDone, StripConfig
  <1> DEFINE new == [tree_id |-> Home[2],
                     merkle_program_id |-> d.merkle_program_id,
                     price_per_unit |-> d.price_per_unit,
                     treasury_account_id |-> d.treasury_account_id,
                     total_registrations |-> 0,
                     max_total_rate_limit |-> d.max_total_rate_limit,
                     current_total_rate_limit |-> 0,
                     active_duration_sec |-> d.active_duration_sec,
                     grace_period_duration_sec |-> d.grace_period_duration_sec]
  <1>5. shards'[ConfigShard(Home)] = new
    BY HomeShards DEF InitializeDone
  <1>6. new \in ConfigState(Home[2])
    BY ChainAssumption DEF ConfigState
  <1>7. HomeConfig' = [merkle_program_id |-> d.merkle_program_id,
                       price_per_unit |-> d.price_per_unit,
                       treasury_account_id |-> d.treasury_account_id,
                       total_registrations |-> 0,
                       max_total_rate_limit |-> d.max_total_rate_limit,
                       current_total_rate_limit |-> 0,
                       active_duration_sec |-> d.active_duration_sec,
                       grace_period_duration_sec |-> d.grace_period_duration_sec]
    <2>1. HomeConfig' = StripConfig(new)
      BY <1>5, Mapping
    <2>2. QED
      BY <1>6, <2>1, StrippedConfig, HomeShards
  <1>8. QED
    BY <1>2, <1>3, <1>4, <1>7 DEF HomeRegistry!Initialize, HomeRegistry!InitConfig

\* What the guards of an instruction see of Home's config.
LEMMA HomeConfigSeen ==
  ASSUME HomeCommit, shards[ConfigShard(Home)] # Empty
  PROVE  LET config == shards[ConfigShard(Home)]
         IN  /\ config \in ConfigState(Home[2])
             /\ HomeConfig # Empty
             /\ HomeConfig =
                  [merkle_program_id |-> config.merkle_program_id,
                   price_per_unit |-> config.price_per_unit,
                   treasury_account_id |-> config.treasury_account_id,
                   total_registrations |-> config.total_registrations,
                   max_total_rate_limit |-> config.max_total_rate_limit,
                   current_total_rate_limit |-> config.current_total_rate_limit,
                   active_duration_sec |-> config.active_duration_sec,
                   grace_period_duration_sec |-> config.grace_period_duration_sec]
  <1>1. shards[ConfigShard(Home)] \in ConfigState(Home[2]) /\ Home[2] \in TreeIds
    BY HomeShards DEF RegistryTyped
  <1>2. HomeConfig = StripConfig(shards[ConfigShard(Home)])
    BY Mapping
  <1>3. QED
    BY <1>1, <1>2, StrippedConfig

LEMMA HomeConfigNames ==
  ASSUME HomeCommit, NEW m, ConfigNames(Home, m)
  PROVE  HomeRegistry!assert_config_ids(m)
  <1>1. HomeConfig # Empty /\ HomeConfig.merkle_program_id = m
    BY HomeConfigSeen DEF ConfigNames
  <1>2. QED
    BY <1>1 DEF HomeRegistry!assert_config_ids

LEMMA HomeConfigSells ==
  ASSUME HomeCommit, NEW claim, ConfigSells(Home, claim)
  PROVE  HomeConfig # Empty /\ HomeRegistry!claims_price_and_payee(claim)
  <1>1. /\ HomeConfig # Empty
        /\ HomeConfig.price_per_unit = claim.price_per_unit
        /\ HomeConfig.treasury_account_id = claim.treasury_account_id
    BY HomeConfigSeen DEF ConfigSells
  <1>2. QED
    BY <1>1 DEF HomeRegistry!claims_price_and_payee

\* The counters of Home's config after a registration or a removal.
LEMMA HomeCounters ==
  ASSUME HomeCommit, shards[ConfigShard(Home)] # Empty, NEW total \in Nat, NEW rate \in Nat,
         work[ConfigShard(Home)] = [shards[ConfigShard(Home)] EXCEPT
                                      !.total_registrations = total,
                                      !.current_total_rate_limit = rate]
  PROVE  HomeConfig' = [HomeConfig EXCEPT !.total_registrations = total,
                                          !.current_total_rate_limit = rate]
  <1> DEFINE config == shards[ConfigShard(Home)]
             new == [config EXCEPT !.total_registrations = total,
                                   !.current_total_rate_limit = rate]
  <1>1. config \in ConfigState(Home[2]) /\ Home[2] \in TreeIds
    BY HomeConfigSeen, HomeShards
  <1>2. HomeConfig = [merkle_program_id |-> config.merkle_program_id,
                      price_per_unit |-> config.price_per_unit,
                      treasury_account_id |-> config.treasury_account_id,
                      total_registrations |-> config.total_registrations,
                      max_total_rate_limit |-> config.max_total_rate_limit,
                      current_total_rate_limit |-> config.current_total_rate_limit,
                      active_duration_sec |-> config.active_duration_sec,
                      grace_period_duration_sec |-> config.grace_period_duration_sec]
    BY HomeConfigSeen
  <1>3. HomeConfig' = StripConfig(new)
    BY HomeShards, Mapping
  <1> HIDE DEF config
  <1>4. /\ new \in ConfigState(Home[2])
        /\ new.merkle_program_id = config.merkle_program_id
        /\ new.price_per_unit = config.price_per_unit
        /\ new.treasury_account_id = config.treasury_account_id
        /\ new.total_registrations = total
        /\ new.max_total_rate_limit = config.max_total_rate_limit
        /\ new.current_total_rate_limit = rate
        /\ new.active_duration_sec = config.active_duration_sec
        /\ new.grace_period_duration_sec = config.grace_period_duration_sec
    BY <1>1 DEF ConfigState
  <1> HIDE DEF new
  <1>5. HomeConfig' = [merkle_program_id |-> config.merkle_program_id,
                       price_per_unit |-> config.price_per_unit,
                       treasury_account_id |-> config.treasury_account_id,
                       total_registrations |-> total,
                       max_total_rate_limit |-> config.max_total_rate_limit,
                       current_total_rate_limit |-> rate,
                       active_duration_sec |-> config.active_duration_sec,
                       grace_period_duration_sec |-> config.grace_period_duration_sec]
    BY <1>1, <1>3, <1>4, StrippedConfig
  <1> DEFINE old == HomeConfig
             next == [old EXCEPT !.total_registrations = total, !.current_total_rate_limit = rate]
  <1>6. old \in HomeRegistry!ConfigState
    BY <1>1, <1>2 DEF ConfigState, HomeRegistry!ConfigState
  <1>7. /\ old.merkle_program_id = config.merkle_program_id
        /\ old.price_per_unit = config.price_per_unit
        /\ old.treasury_account_id = config.treasury_account_id
        /\ old.max_total_rate_limit = config.max_total_rate_limit
        /\ old.active_duration_sec = config.active_duration_sec
        /\ old.grace_period_duration_sec = config.grace_period_duration_sec
    BY <1>2
  <1> HIDE DEF old
  <1>8. /\ next \in HomeRegistry!ConfigState
        /\ next.merkle_program_id = old.merkle_program_id
        /\ next.price_per_unit = old.price_per_unit
        /\ next.treasury_account_id = old.treasury_account_id
        /\ next.total_registrations = total
        /\ next.max_total_rate_limit = old.max_total_rate_limit
        /\ next.current_total_rate_limit = rate
        /\ next.active_duration_sec = old.active_duration_sec
        /\ next.grace_period_duration_sec = old.grace_period_duration_sec
    BY <1>6 DEF HomeRegistry!ConfigState
  <1> HIDE DEF next
  <1>9. HomeConfig' = next
    BY <1>5, <1>7, <1>8 DEF HomeRegistry!ConfigState
  <1>10. QED
    BY <1>9 DEF next, old

LEMMA RefineInitializeMerkleTree ==
  ASSUME HomeCommit, NEW m \in MerklePrograms,
         tx = Tx("InitializeMerkleTree", Home[1], Home[2]), InitializeMerkleTreeDone(Home, m)
  PROVE  HomeRegistry!InitializeMerkleTree(m)
  <1>1. tx.id_commitment = None /\ tx.amount = 0 /\ tx.op = "InitializeMerkleTree"
    BY TxFields
  <1>2. /\ ledger'[Home].sale = ledger[Home].sale /\ ledger'[Home].sold = ledger[Home].sold
        /\ HomeBalance' = HomeBalance
    BY <1>1, HomeHistory, HomeFree
  <1>3. /\ HomeConfig' = HomeConfig /\ HomeMembership' = HomeMembership
        /\ shards'[clock_shard] = shards[clock_shard] /\ revealed' = revealed
    BY HomeUntouched, HomeShards DEF InitializeMerkleTreeDone
  <1>4. HomeRegistry!assert_config_ids(m)
    BY HomeConfigNames DEF InitializeMerkleTreeDone
  <1>5. HomeTree[m] = Empty
    BY Mapping DEF InitializeMerkleTreeDone
  <1>6. HomeTree' = [HomeTree EXCEPT ![m] = HomeRegistry!EmptyTree]
    <2>1. HomeRegistry!EmptyTree = [next_index |-> 0, leaves |-> [i \in Indices |-> ZERO]]
      BY SameLayouts DEF HomeRegistry!EmptyTree
    <2>2. QED
      BY <2>1, HomeTreesAfter DEF InitializeMerkleTreeDone
  <1>7. QED
    BY <1>2, <1>3, <1>4, <1>5, <1>6
       DEF HomeRegistry!InitializeMerkleTree, HomeRegistry!initialize_tree

LEMMA RefineRegister ==
  ASSUME HomeCommit, NEW m \in MerklePrograms, NEW c \in Commitments, NEW rate \in RateLimits,
         NEW claim \in Deployments, NEW now \in Instants, NEW payer \in Payers,
         validate_rate_limit(rate), m = claim.merkle_program_id,
         tx = RegisterTx(Home[1], Home[2], c, rate, claim, now, payer),
         RegisterDone(Home, m, c, rate, claim, now, payer)
  PROVE  HomeRegistry!Register(c, rate, claim, now, payer)
  <1>1. /\ tx.op = "Register" /\ tx.id_commitment = c /\ tx.rate_limit = rate /\ tx.now_ms = now
        /\ tx.payer = payer /\ tx.treasury = claim.treasury_account_id
        /\ tx.amount = calculate_payment_amount(rate, claim.price_per_unit)
    BY TxFields
  <1>2. rate \in Nat /\ now \in Nat /\ claim.treasury_account_id \in Treasuries /\ c # None
        /\ claim.active_duration_sec \in Nat /\ claim.grace_period_duration_sec \in Nat
    BY ChainAssumption, NamesAssumption
  <1>3. /\ ledger'[Home].sale = [ledger[Home].sale EXCEPT ![c] = [at |-> now, periods |-> 1]]
        /\ ledger'[Home].sold = ledger[Home].sold + rate
    BY <1>1, <1>2, HomeHistory DEF Sale
  <1>4. shards'[clock_shard] = shards[clock_shard] /\ revealed' = revealed
    BY HomeUntouched, HomeShards DEF RegisterDone
  <1>5. HomeRegistry!validate_rate_limit(rate)
    BY DEF HomeRegistry!validate_rate_limit, validate_rate_limit
  <1>6. HomeRegistry!ClockIs(now)
    BY DEF RegisterDone, HomeRegistry!ClockIs, HomeRegistry!assert_clock_is, assert_clock_is
  <1>7. HomeRegistry!RegisterConfig(rate, claim)
    <2> DEFINE config == shards[ConfigShard(Home)]
               total == saturating_add(config.total_registrations, 1)
               units == saturating_add(config.current_total_rate_limit, rate)
    <2>1. config # Empty
      BY DEF RegisterDone, ConfigNames
    <2>2. /\ config \in ConfigState(Home[2])
          /\ HomeConfig.active_duration_sec = config.active_duration_sec
          /\ HomeConfig.grace_period_duration_sec = config.grace_period_duration_sec
          /\ HomeConfig.total_registrations = config.total_registrations
          /\ HomeConfig.current_total_rate_limit = config.current_total_rate_limit
          /\ HomeConfig.max_total_rate_limit = config.max_total_rate_limit
      BY <2>1, HomeConfigSeen
    <2>3. total \in Nat /\ units \in Nat
      BY <1>2, <2>2, Arithmetic DEF ConfigState
    <2>4. work[ConfigShard(Home)] = [config EXCEPT !.total_registrations = total,
                                                   !.current_total_rate_limit = units]
      BY DEF RegisterDone
    <2>5. HomeConfig' = [HomeConfig EXCEPT !.total_registrations = total,
                                           !.current_total_rate_limit = units]
      BY <2>1, <2>3, <2>4, HomeCounters
    <2>6. /\ total = HomeRegistry!saturating_add(HomeConfig.total_registrations, 1)
          /\ units = HomeRegistry!saturating_add(HomeConfig.current_total_rate_limit, rate)
      BY <2>2, SameLayouts
    <2>7. HomeRegistry!can_register(rate)
      BY <2>2, <2>6 DEF RegisterDone, can_register, HomeRegistry!can_register
    <2>8. HomeRegistry!assert_config_ids(m) /\ HomeRegistry!claims_price_and_payee(claim)
      BY HomeConfigNames, HomeConfigSells DEF RegisterDone
    <2>9. /\ HomeConfig.active_duration_sec = claim.active_duration_sec
          /\ HomeConfig.grace_period_duration_sec = claim.grace_period_duration_sec
      BY <2>2 DEF RegisterDone
    <2> HIDE DEF total, units, config
    <2>10. QED
      BY <2>5, <2>6, <2>7, <2>8, <2>9
         DEF HomeRegistry!RegisterConfig, HomeRegistry!RegisterConfigChecks
  <1>8. HomeRegistry!InitMembership(c, rate, claim, now)
    <2> DEFINE start == saturating_add(now, secs_to_millis(claim.active_duration_sec))
               new == [id_commitment |-> c, rate_limit |-> rate,
                       grace_period_start_timestamp_ms |-> start,
                       active_duration_sec |-> claim.active_duration_sec,
                       grace_period_duration_sec |-> claim.grace_period_duration_sec]
    <2>1. HomeMembership[c] = Empty
      BY Mapping DEF RegisterDone, StripMember
    <2>2. start \in Nat
      BY <1>2, Arithmetic
    <2>3. start = HomeRegistry!saturating_add(now,
                    HomeRegistry!secs_to_millis(claim.active_duration_sec))
      BY SameLayouts
    <2>4. MembersAfter(Home, c, new)
      BY DEF RegisterDone
    <2> HIDE DEF start
    <2>5. new \in MembershipState(c)
      BY <1>2, <2>2 DEF MembershipState
    <2>6. StripMember(new) = [rate_limit |-> rate, grace_period_start_timestamp_ms |-> start,
                              active_duration_sec |-> claim.active_duration_sec,
                              grace_period_duration_sec |-> claim.grace_period_duration_sec]
      BY <2>5, StrippedMember
    <2>7. HomeMembership' = [HomeMembership EXCEPT ![c] = StripMember(new)]
      BY <2>4, HomeMembersAfter
    <2> HIDE DEF new
    <2>8. QED
      BY <2>1, <2>3, <2>6, <2>7 DEF HomeRegistry!InitMembership
  <1>9. HomeRegistry!native_payment(payer, claim.treasury_account_id,
          HomeRegistry!calculate_payment_amount(rate, claim.price_per_unit))
    <2>1. tx.amount <= shards[native_balance(tx.payer)]
      BY <1>1 DEF RegisterDone, Payment
    <2>2. HomeRegistry!native_payment(tx.payer, tx.treasury, tx.amount)
      BY <1>1, <1>2, <2>1, HomePayment
    <2>3. QED
      BY <1>1, <2>2, SameLayouts
  <1>10. HomeRegistry!insert_leaf(claim.merkle_program_id,
                                  HomeRegistry!compute_registration_leaf(c, rate))
    <2> DEFINE leaf == compute_registration_leaf(c, rate)
    <2>1. HomeTree[m] = shards[TreeShard(Home, m)]
      BY Mapping
    <2>2. /\ HomeTree[m] # Empty /\ HomeTree[m].next_index < TREE_LEAVES
          /\ HomeTree' = [HomeTree EXCEPT ![m] =
               [next_index |-> HomeTree[m].next_index + 1,
                leaves |-> [HomeTree[m].leaves EXCEPT ![HomeTree[m].next_index] = leaf]]]
      BY <2>1, HomeTreesAfter DEF RegisterDone
    <2>3. HomeRegistry!compute_registration_leaf(c, rate) = leaf
      BY SameLayouts
    <2> HIDE DEF leaf
    <2>4. QED
      BY <2>2, <2>3 DEF HomeRegistry!insert_leaf, HomeRegistry!insert_leaf_checks
  <1>11. QED
    BY <1>3, <1>4, <1>5, <1>6, <1>7, <1>8, <1>9, <1>10 DEF HomeRegistry!Register

\* The member that goes, ...
LEMMA RemovedMember ==
  ASSUME HomeCommit, NEW m, NEW c \in Commitments, NEW rate, NEW i, Removal(Home, m, c, rate, i)
  PROVE  /\ HomeMembership[c] # Empty /\ HomeMembership[c].rate_limit = rate
         /\ HomeMembership[c].grace_period_start_timestamp_ms =
              shards[MemberShard(Home, c)].grace_period_start_timestamp_ms
         /\ HomeMembership[c].grace_period_duration_sec =
              shards[MemberShard(Home, c)].grace_period_duration_sec
         /\ HomeMembership' = [HomeMembership EXCEPT ![c] = Empty]
  <1>1. /\ HomeMembership[c] # Empty /\ HomeMembership[c].rate_limit = rate
        /\ LET member == shards[MemberShard(Home, c)]
           IN  /\ HomeMembership[c].grace_period_start_timestamp_ms =
                    member.grace_period_start_timestamp_ms
               /\ HomeMembership[c].grace_period_duration_sec = member.grace_period_duration_sec
    <2>1. shards[MemberShard(Home, c)] \in MembershipState(c)
      BY HomeShards DEF RegistryTyped, Removal
    <2>2. HomeMembership[c] = StripMember(shards[MemberShard(Home, c)])
      BY Mapping
    <2>3. shards[MemberShard(Home, c)].rate_limit = rate
      BY DEF Removal
    <2>4. QED
      BY <2>1, <2>2, <2>3, StrippedMember
  <1>2. HomeMembership' = [HomeMembership EXCEPT ![c] = Empty]
    <2>1. StripMember(Empty) = Empty
      BY DEF StripMember
    <2>2. MembersAfter(Home, c, Empty)
      BY DEF Removal
    <2>3. QED
      BY <2>1, <2>2, HomeMembersAfter
  <1>3. QED
    BY <1>1, <1>2

\* ... and what else Slash and Erase do in Registry.
LEMMA RefineRemoval ==
  ASSUME HomeCommit, NEW m \in MerklePrograms, NEW c \in Commitments, NEW rate \in RateLimits,
         NEW i \in Indices, Removal(Home, m, c, rate, i),
         tx.id_commitment = c, tx.amount = 0, tx.op \in {"Slash", "Erase"}
  PROVE  /\ HomeRegistry!ReleaseConfig(rate, m)
         /\ HomeRegistry!remove_leaf(m, i, HomeRegistry!compute_registration_leaf(c, rate))
         /\ ledger'[Home].sale = [ledger[Home].sale EXCEPT ![c] = Empty]
         /\ ledger'[Home].sold = ledger[Home].sold
         /\ HomeBalance' = HomeBalance
         /\ shards'[clock_shard] = shards[clock_shard] /\ revealed' = revealed
  <1>1. rate \in Nat /\ c # None
    BY ChainAssumption, NamesAssumption
  <1>2. /\ ledger'[Home].sale = [ledger[Home].sale EXCEPT ![c] = Empty]
        /\ ledger'[Home].sold = ledger[Home].sold
        /\ HomeBalance' = HomeBalance
    BY <1>1, HomeHistory, HomeFree DEF Sale
  <1>3. shards'[clock_shard] = shards[clock_shard] /\ revealed' = revealed
    BY HomeUntouched, HomeShards DEF Removal
  <1>4. HomeRegistry!ReleaseConfig(rate, m)
    <2> DEFINE config == shards[ConfigShard(Home)]
               total == saturating_sub(config.total_registrations, 1)
               units == saturating_sub(config.current_total_rate_limit, rate)
    <2>1. config # Empty
      BY DEF Removal, ConfigNames
    <2>2. /\ config \in ConfigState(Home[2])
          /\ HomeConfig.total_registrations = config.total_registrations
          /\ HomeConfig.current_total_rate_limit = config.current_total_rate_limit
      BY <2>1, HomeConfigSeen
    <2>3. total \in Nat /\ units \in Nat
      BY <1>1, <2>2, Arithmetic DEF ConfigState
    <2>4. work[ConfigShard(Home)] = [config EXCEPT !.current_total_rate_limit = units,
                                                   !.total_registrations = total]
      BY <2>2 DEF Removal, ConfigState
    <2>5. work[ConfigShard(Home)] = [config EXCEPT !.total_registrations = total,
                                                   !.current_total_rate_limit = units]
      BY <2>2, <2>4 DEF ConfigState
    <2>6. HomeConfig' = [HomeConfig EXCEPT !.total_registrations = total,
                                           !.current_total_rate_limit = units]
      BY <2>1, <2>3, <2>5, HomeCounters
    <2>7. /\ total = HomeRegistry!saturating_sub(HomeConfig.total_registrations, 1)
          /\ units = HomeRegistry!saturating_sub(HomeConfig.current_total_rate_limit, rate)
      BY <2>2, SameLayouts
    <2>8. HomeRegistry!assert_config_ids(m)
      BY HomeConfigNames DEF Removal
    <2>9. HomeConfig = [merkle_program_id |-> config.merkle_program_id,
                        price_per_unit |-> config.price_per_unit,
                        treasury_account_id |-> config.treasury_account_id,
                        total_registrations |-> config.total_registrations,
                        max_total_rate_limit |-> config.max_total_rate_limit,
                        current_total_rate_limit |-> config.current_total_rate_limit,
                        active_duration_sec |-> config.active_duration_sec,
                        grace_period_duration_sec |-> config.grace_period_duration_sec]
      BY <2>1, HomeConfigSeen
    <2> HIDE DEF total, units, config
    <2>10. HomeConfig' = [HomeConfig EXCEPT !.current_total_rate_limit = units,
                                            !.total_registrations = total]
      BY <2>6, <2>9
    <2>11. QED
      BY <2>7, <2>8, <2>10 DEF HomeRegistry!ReleaseConfig
  <1>5. HomeRegistry!remove_leaf(m, i, HomeRegistry!compute_registration_leaf(c, rate))
    <2> DEFINE tree == shards[TreeShard(Home, m)]
    <2>1. HomeTree[m] = tree
      BY Mapping
    <2>2. tree # Empty /\ i < tree.next_index /\ tree.leaves[i] = compute_registration_leaf(c, rate)
      BY DEF Removal
    <2>3. tree \in Tree
      BY <2>2, HomeShards DEF RegistryTyped
    <2>4. HomeTree' = [HomeTree EXCEPT ![m] = [tree EXCEPT !.leaves[i] = ZERO]]
      BY HomeTreesAfter DEF Removal
    <2> HIDE DEF tree
    <2>5. [tree EXCEPT !.leaves[i] = ZERO] =
            [next_index |-> tree.next_index, leaves |-> [tree.leaves EXCEPT ![i] = ZERO]]
      BY <2>3 DEF Tree
    <2>6. QED
      BY <2>1, <2>2, <2>4, <2>5, SameLayouts
         DEF HomeRegistry!remove_leaf, HomeRegistry!remove_leaf_checks
  <1>6. QED
    BY <1>2, <1>3, <1>4, <1>5

LEMMA RefineSlash ==
  ASSUME HomeCommit, NEW m \in MerklePrograms, NEW c \in Commitments, NEW rate \in RateLimits,
         NEW i \in Indices, Removal(Home, m, c, rate, i),
         tx = MemberTx("Slash", Home[1], Home[2], c, rate, 0)
  PROVE  \E s \in Secrets : HomeRegistry!Slash(s, c, rate, m, i)
  <1>1. tx.op = "Slash" /\ tx.id_commitment = c /\ tx.amount = 0
    BY TxFields
  <1>2. PICK s \in revealed : hash_single[s] = c
    BY <1>1 DEF HomeCommit, Inv, JobInv, Commit
  <1>3. s \in Secrets
    BY HomeShards DEF TypeInv
  <1>4. HomeRegistry!SlashPlan(s, c)
    BY <1>2 DEF HomeRegistry!SlashPlan
  <1>5. HomeRegistry!SlashMembership(c, rate)
    <2>1. /\ HomeMembership[c] # Empty /\ HomeMembership[c].rate_limit = rate
          /\ HomeMembership' = [HomeMembership EXCEPT ![c] = Empty]
      BY RemovedMember
    <2>2. QED
      BY <2>1 DEF HomeRegistry!SlashMembership, HomeRegistry!SlashMembershipChecks
  <1>6. HomeRegistry!Slash(s, c, rate, m, i)
    BY <1>1, <1>4, <1>5, RefineRemoval DEF HomeRegistry!Slash
  <1>7. QED
    BY <1>3, <1>6

LEMMA RefineErase ==
  ASSUME HomeCommit, NEW m \in MerklePrograms, NEW c \in Commitments, NEW rate \in RateLimits,
         NEW i \in Indices, NEW now \in Instants, EraseDone(Home, m, c, rate, i, now),
         tx = MemberTx("Erase", Home[1], Home[2], c, rate, now)
  PROVE  HomeRegistry!Erase(c, rate, m, i, now)
  <1>1. tx.op = "Erase" /\ tx.id_commitment = c /\ tx.amount = 0
    BY TxFields
  <1>2. Removal(Home, m, c, rate, i)
    BY DEF EraseDone
  <1>3. HomeRegistry!ClockIs(now)
    BY DEF EraseDone, HomeRegistry!ClockIs, HomeRegistry!assert_clock_is, assert_clock_is
  <1>4. HomeRegistry!EraseMembership(c, rate, now)
    <2>1. HomeRegistry!is_expired(HomeMembership[c].grace_period_start_timestamp_ms,
            HomeRegistry!secs_to_millis(HomeMembership[c].grace_period_duration_sec), now)
      <3>1. /\ HomeMembership[c].grace_period_start_timestamp_ms =
                 shards[MemberShard(Home, c)].grace_period_start_timestamp_ms
            /\ HomeMembership[c].grace_period_duration_sec =
                 shards[MemberShard(Home, c)].grace_period_duration_sec
        BY <1>2, RemovedMember
      <3>2. QED
        BY <3>1, SameLayouts DEF EraseDone, HomeRegistry!is_expired, is_expired
    <2>2. /\ HomeMembership[c] # Empty /\ HomeMembership[c].rate_limit = rate
          /\ HomeMembership' = [HomeMembership EXCEPT ![c] = Empty]
      BY <1>2, RemovedMember
    <2>3. QED
      BY <2>1, <2>2 DEF HomeRegistry!EraseMembership, HomeRegistry!EraseMembershipChecks
  <1>5. QED
    BY <1>1, <1>2, <1>3, <1>4, RefineRemoval DEF HomeRegistry!Erase

LEMMA RefineExtend ==
  ASSUME HomeCommit, NEW c \in Commitments, NEW rate \in RateLimits,
         NEW claim \in Deployments, NEW now \in Instants, NEW payer \in Payers,
         tx = ExtendTx(Home[1], Home[2], c, rate, claim, now, payer),
         ExtendDone(Home, c, rate, claim, now, payer)
  PROVE  HomeRegistry!Extend(c, rate, claim, now, payer)
  <1>1. /\ tx.op = "Extend" /\ tx.id_commitment = c /\ tx.rate_limit = rate
        /\ tx.payer = payer /\ tx.treasury = claim.treasury_account_id
        /\ tx.amount = calculate_payment_amount(rate, claim.price_per_unit)
    BY TxFields
  <1>2. claim.treasury_account_id \in Treasuries /\ c # None
    BY ChainAssumption, NamesAssumption
  <1>3. /\ ledger'[Home].sale = [ledger[Home].sale EXCEPT ![c].periods = @ + 1]
        /\ ledger'[Home].sold = ledger[Home].sold + rate
    BY <1>1, <1>2, HomeHistory DEF Sale
  <1>4. /\ shards'[clock_shard] = shards[clock_shard] /\ revealed' = revealed
        /\ HomeConfig' = HomeConfig /\ HomeTree' = HomeTree
    BY HomeUntouched, HomeShards DEF ExtendDone
  <1>5. HomeRegistry!ClockIs(now)
    BY DEF ExtendDone, HomeRegistry!ClockIs, HomeRegistry!assert_clock_is, assert_clock_is
  <1>6. HomeRegistry!ExtendConfig(claim)
    BY HomeConfigSells DEF ExtendDone, HomeRegistry!ExtendConfig
  <1>7. HomeRegistry!native_payment(payer, claim.treasury_account_id,
          HomeRegistry!calculate_payment_amount(rate, claim.price_per_unit))
    <2>1. tx.amount <= shards[native_balance(tx.payer)]
      BY <1>1 DEF ExtendDone, Payment
    <2>2. HomeRegistry!native_payment(tx.payer, tx.treasury, tx.amount)
      BY <1>1, <1>2, <2>1, HomePayment
    <2>3. QED
      BY <1>1, <2>2, SameLayouts
  <1>8. HomeRegistry!ExtendMembership(c, rate, now)
    <2> DEFINE member == shards[MemberShard(Home, c)]
               start == saturating_add(
                          saturating_add(member.grace_period_start_timestamp_ms,
                                         secs_to_millis(member.grace_period_duration_sec)),
                          secs_to_millis(member.active_duration_sec))
               new == [member EXCEPT !.grace_period_start_timestamp_ms = start]
               old == HomeMembership[c]
    <2>1. /\ member \in MembershipState(c) /\ member.rate_limit = rate
          /\ is_in_grace_period(member.grace_period_start_timestamp_ms,
                                secs_to_millis(member.grace_period_duration_sec), now)
      BY HomeShards DEF ExtendDone, RegistryTyped
    <2>2. old = StripMember(member)
      BY Mapping
    <2>3. MembersAfter(Home, c, new)
      BY DEF ExtendDone
    <2>4. start \in Nat
      <3>1. /\ member.grace_period_start_timestamp_ms \in Nat
            /\ member.grace_period_duration_sec \in Nat /\ member.active_duration_sec \in Nat
        BY <2>1 DEF MembershipState
      <3>2. QED
        BY <3>1, Arithmetic
    <2>5. HomeMembership' = [HomeMembership EXCEPT ![c] = StripMember(new)]
      BY <2>3, HomeMembersAfter
    <2>6. start = HomeRegistry!saturating_add(
                    HomeRegistry!saturating_add(member.grace_period_start_timestamp_ms,
                      HomeRegistry!secs_to_millis(member.grace_period_duration_sec)),
                    HomeRegistry!secs_to_millis(member.active_duration_sec))
      BY SameLayouts
    <2> HIDE DEF member, start, old
    <2>7. /\ old = [rate_limit |-> member.rate_limit,
                    grace_period_start_timestamp_ms |-> member.grace_period_start_timestamp_ms,
                    active_duration_sec |-> member.active_duration_sec,
                    grace_period_duration_sec |-> member.grace_period_duration_sec]
          /\ old # Empty
      BY <2>1, <2>2, StrippedMember
    <2>8. /\ new \in MembershipState(c)
          /\ new.rate_limit = member.rate_limit
          /\ new.grace_period_start_timestamp_ms = start
          /\ new.active_duration_sec = member.active_duration_sec
          /\ new.grace_period_duration_sec = member.grace_period_duration_sec
      BY <2>1, <2>4 DEF MembershipState
    <2> HIDE DEF new
    <2>9. StripMember(new) = [rate_limit |-> member.rate_limit,
                              grace_period_start_timestamp_ms |-> start,
                              active_duration_sec |-> member.active_duration_sec,
                              grace_period_duration_sec |-> member.grace_period_duration_sec]
      BY <2>8, StrippedMember
    <2>10. StripMember(new) = [old EXCEPT !.grace_period_start_timestamp_ms = start]
      BY <2>7, <2>9
    <2>11. HomeRegistry!is_in_grace_period(old.grace_period_start_timestamp_ms,
             HomeRegistry!secs_to_millis(old.grace_period_duration_sec), now)
      BY <2>1, <2>7, SameLayouts DEF HomeRegistry!is_in_grace_period, is_in_grace_period
    <2>12. HomeMembership' =
             [HomeMembership EXCEPT ![c] =
                [HomeMembership[c] EXCEPT !.grace_period_start_timestamp_ms =
                   HomeRegistry!saturating_add(
                     HomeRegistry!saturating_add(HomeMembership[c].grace_period_start_timestamp_ms,
                       HomeRegistry!secs_to_millis(HomeMembership[c].grace_period_duration_sec)),
                     HomeRegistry!secs_to_millis(HomeMembership[c].active_duration_sec))]]
      BY <2>5, <2>6, <2>7, <2>10 DEF old
    <2>13. old # Empty /\ old.rate_limit = rate
      BY <2>1, <2>7
    <2>14. QED
      BY <2>11, <2>12, <2>13
         DEF HomeRegistry!ExtendMembership, HomeRegistry!ExtendMembershipChecks, old
  <1>9. QED
    BY <1>3, <1>4, <1>5, <1>6, <1>7, <1>8 DEF HomeRegistry!Extend

\* Steps that Registry does not see.
LEMMA RefineStutter ==
  ASSUME shards'[ConfigShard(Home)] = shards[ConfigShard(Home)],
         \A c \in Commitments : shards'[MemberShard(Home, c)] = shards[MemberShard(Home, c)],
         \A m \in MerklePrograms : shards'[TreeShard(Home, m)] = shards[TreeShard(Home, m)],
         shards'[clock_shard] = shards[clock_shard],
         ledger'[Home] = ledger[Home], revealed' = revealed
  PROVE  UNCHANGED HomeRegistry!vars
  BY MappingSame DEF HomeRegistry!vars

LEMMA RefineCommit ==
  ASSUME HomeCommit
  PROVE  HomeRegistry!Next
  <1>1. Settled
    BY CommitShards DEF HomeCommit, Inv
  <1>2. ASSUME NEW g \in Registries, tx.program = g[1], tx.tree_id = g[2] PROVE g = Home
    BY <1>2, RegistryPair DEF HomeCommit
  <1>3. CASE \E g \in Registries, d \in Deployments :
               /\ d.max_total_rate_limit > 0 /\ d.active_duration_sec > 0
               /\ tx = Tx("Initialize", g[1], g[2]) /\ InitializeDone(g, d)
    <2>1. PICK g \in Registries, d \in Deployments :
               /\ d.max_total_rate_limit > 0 /\ d.active_duration_sec > 0
               /\ tx = Tx("Initialize", g[1], g[2]) /\ InitializeDone(g, d)
      BY <1>3
    <2>2. g = Home
      BY <1>2, <2>1, TxFields
    <2>3. HomeRegistry!Initialize(d)
      BY <2>1, <2>2, RefineInitialize
    <2>4. QED
      BY <2>3 DEF HomeRegistry!Next
  <1>4. CASE \E g \in Registries, m \in MerklePrograms :
               tx = Tx("InitializeMerkleTree", g[1], g[2]) /\ InitializeMerkleTreeDone(g, m)
    <2>1. PICK g \in Registries, m \in MerklePrograms :
               tx = Tx("InitializeMerkleTree", g[1], g[2]) /\ InitializeMerkleTreeDone(g, m)
      BY <1>4
    <2>2. g = Home
      BY <1>2, <2>1, TxFields
    <2>3. HomeRegistry!InitializeMerkleTree(m)
      BY <2>1, <2>2, RefineInitializeMerkleTree
    <2>4. QED
      BY <2>3 DEF HomeRegistry!Next
  <1>5. CASE \E g \in Registries, m \in MerklePrograms, c \in Commitments, rate \in RateLimits,
                claim \in Deployments, now \in Instants, payer \in Payers :
               /\ validate_rate_limit(rate) /\ m = claim.merkle_program_id
               /\ tx = RegisterTx(g[1], g[2], c, rate, claim, now, payer)
               /\ RegisterDone(g, m, c, rate, claim, now, payer)
    <2>1. PICK g \in Registries, m \in MerklePrograms, c \in Commitments, rate \in RateLimits,
                claim \in Deployments, now \in Instants, payer \in Payers :
               /\ validate_rate_limit(rate) /\ m = claim.merkle_program_id
               /\ tx = RegisterTx(g[1], g[2], c, rate, claim, now, payer)
               /\ RegisterDone(g, m, c, rate, claim, now, payer)
      BY <1>5
    <2>2. g = Home
      BY <1>2, <2>1, TxFields
    <2>3. HomeRegistry!Register(c, rate, claim, now, payer)
      BY <2>1, <2>2, RefineRegister
    <2>4. QED
      BY <2>3 DEF HomeRegistry!Next
  <1>6. CASE \E g \in Registries, m \in MerklePrograms, c \in Commitments, rate \in RateLimits,
                i \in Indices :
               tx = MemberTx("Slash", g[1], g[2], c, rate, 0) /\ Removal(g, m, c, rate, i)
    <2>1. PICK g \in Registries, m \in MerklePrograms, c \in Commitments, rate \in RateLimits,
                i \in Indices :
               tx = MemberTx("Slash", g[1], g[2], c, rate, 0) /\ Removal(g, m, c, rate, i)
      BY <1>6
    <2>2. g = Home
      BY <1>2, <2>1, TxFields
    <2>3. \E s \in Secrets : HomeRegistry!Slash(s, c, rate, m, i)
      BY <2>1, <2>2, RefineSlash
    <2>4. QED
      BY <2>3, SameLayouts DEF HomeRegistry!Next
  <1>7. CASE \E g \in Registries, c \in Commitments, rate \in RateLimits,
                claim \in Deployments, now \in Instants, payer \in Payers :
               /\ tx = ExtendTx(g[1], g[2], c, rate, claim, now, payer)
               /\ ExtendDone(g, c, rate, claim, now, payer)
    <2>1. PICK g \in Registries, c \in Commitments, rate \in RateLimits,
                claim \in Deployments, now \in Instants, payer \in Payers :
               /\ tx = ExtendTx(g[1], g[2], c, rate, claim, now, payer)
               /\ ExtendDone(g, c, rate, claim, now, payer)
      BY <1>7
    <2>2. g = Home
      BY <1>2, <2>1, TxFields
    <2>3. HomeRegistry!Extend(c, rate, claim, now, payer)
      BY <2>1, <2>2, RefineExtend
    <2>4. QED
      BY <2>3 DEF HomeRegistry!Next
  <1>8. CASE \E g \in Registries, m \in MerklePrograms, c \in Commitments, rate \in RateLimits,
                i \in Indices, now \in Instants :
               tx = MemberTx("Erase", g[1], g[2], c, rate, now) /\ EraseDone(g, m, c, rate, i, now)
    <2>1. PICK g \in Registries, m \in MerklePrograms, c \in Commitments, rate \in RateLimits,
                i \in Indices, now \in Instants :
               tx = MemberTx("Erase", g[1], g[2], c, rate, now) /\ EraseDone(g, m, c, rate, i, now)
      BY <1>8
    <2>2. g = Home
      BY <1>2, <2>1, TxFields
    <2>3. HomeRegistry!Erase(c, rate, m, i, now)
      BY <2>1, <2>2, RefineErase
    <2>4. QED
      BY <2>3, SameLayouts DEF HomeRegistry!Next
  <1>9. QED
    BY <1>1, <1>3, <1>4, <1>5, <1>6, <1>7, <1>8 DEF Settled

LEMMA RefineStep ==
  ASSUME Inv, [Next]_vars
  PROVE  HomeRegistry!Next \/ UNCHANGED HomeRegistry!vars
  <1>1. CASE UNCHANGED <<shards, ledger, revealed>>
    BY <1>1, RefineStutter
  <1>2. CASE UNCHANGED vars
    BY <1>1, <1>2 DEF vars
  <1>3. CASE Submission \/ ApplyEffect \/ ChainedCall \/ NativeTransfer \/ Revert
    BY <1>1, <1>3, SubmitJob DEF Submitted, ApplyEffect, ChainedCall, NativeTransfer, Revert
  <1>4. CASE Commit
    <2>1. Home \in Registries /\ shards' = work /\ revealed' = revealed
      BY <1>4, RegistriesAssumption DEF Commit
    <2>2. CASE <<tx.program, tx.tree_id>> = Home
      BY <1>4, <2>2, RefineCommit DEF HomeCommit
    <2>3. CASE <<tx.program, tx.tree_id>> # Home
      <3>1. PICK g \in Registries : SettledIn(g)
        BY <1>4, CommitShards, SettledFacts DEF Inv
      <3>2. ConfigSame(Home) /\ MembersSame(Home) /\ TreesSame(Home)
        BY <2>1, <2>3, <3>1 DEF SettledIn, ElsewhereSame
      <3>3. work[clock_shard] = shards[clock_shard]
        BY <3>1 DEF SettledIn, ElsewhereSame
      <3>4. ledger'[Home] = ledger[Home]
        BY <1>4, <2>1, <2>3, CommitLedger DEF Inv
      <3>5. QED
        BY <2>1, <3>2, <3>3, <3>4, RefineStutter DEF ConfigSame, MembersSame, TreesSame
    <2>4. QED
      BY <2>2, <2>3
  <1>5. ASSUME NEW t \in Instants, Tick(t) PROVE HomeRegistry!Next
    <2>1. Home \in Registries
      BY RegistriesAssumption
    <2>2. /\ \A s \in PdaShards : shards'[s] = shards[s]
          /\ shards'[clock_shard] = t
      BY <1>5, TickShards, OtherShards DEF Inv
    <2>3. UNCHANGED <<revealed, ledger>> /\ t > shards[clock_shard]
      BY <1>5 DEF Tick
    <2>4. /\ HomeConfig' = HomeConfig /\ HomeMembership' = HomeMembership
          /\ HomeTree' = HomeTree /\ HomeBalance' = HomeBalance
      BY <2>1, <2>2, <2>3, ShardsNamed, MappingSame
    <2>5. HomeRegistry!Tick(t)
      BY <2>2, <2>3, <2>4 DEF HomeRegistry!Tick
    <2>6. QED
      BY <1>5, <2>5 DEF HomeRegistry!Next
  <1>6. ASSUME NEW x \in Secrets, Reveal(x) PROVE HomeRegistry!Next
    <2>1. UNCHANGED <<shards, ledger>> /\ x \notin revealed /\ revealed' = revealed \cup {x}
      BY <1>6 DEF Reveal
    <2>2. /\ HomeConfig' = HomeConfig /\ HomeMembership' = HomeMembership
          /\ HomeTree' = HomeTree /\ HomeBalance' = HomeBalance
      BY <2>1, MappingSame
    <2>3. HomeRegistry!Reveal(x)
      BY <2>1, <2>2 DEF HomeRegistry!Reveal
    <2>4. QED
      BY <2>3 DEF HomeRegistry!Next
  <1>7. QED
    BY <1>2, <1>3, <1>4, <1>5, <1>6, NextCases

\* A registry among any number of others, its instructions carried out effect
\* by effect and call by call, reverted when any of them is refused, behaves
\* as Registry with its atomic instructions: what is proved of Registry holds
\* of every registry the executor runs.
THEOREM Refinement == Spec => ImplementsRegistry
  <1>1. Init => HomeRegistry!Init
    BY RefineInit
  <1>2. Inv /\ [Next]_vars => [HomeRegistry!Next]_(HomeRegistry!vars)
    BY RefineStep
  <1>3. QED
    BY <1>1, <1>2, Invariance, PTL DEF Spec, ImplementsRegistry, HomeRegistry!Spec

-----------------------------------------------------------------------------
(***************************************************************************)
(* What is proved of Registry holds of a registry among others: its        *)
(* theorems, under the mapping, are about the same formulas as HomeRegistry *)
(* names.                                                                  *)
(***************************************************************************)
HomeProofs == INSTANCE RegistryProofs WITH
    config <- HomeConfig,
    membership <- HomeMembership,
    tree <- HomeTree,
    balance <- HomeBalance,
    clock <- shards[clock_shard],
    sale <- ledger[Home].sale,
    sold <- ledger[Home].sold

LEMMA HomeConstants ==
  /\ HomeProofs!DomainAssumption /\ HomeProofs!BoundsAssumption
  /\ HomeProofs!WidthAssumption /\ HomeProofs!EmptyAssumption
  <1>1. \A S : HomeProofs!IsFiniteSet(S) <=> HomeRegistry!IsFiniteSet(S)
    BY DEF HomeProofs!IsFiniteSet, HomeRegistry!IsFiniteSet
  <1>2. HomeProofs!DomainAssumption
    BY <1>1, HomeAssumption
       DEF HomeProofs!DomainAssumption, HomeRegistry!DomainAssumption,
           HomeProofs!Deployment, HomeRegistry!Deployment
  <1>3. HomeProofs!BoundsAssumption /\ HomeProofs!WidthAssumption
    BY HomeAssumption
       DEF HomeProofs!BoundsAssumption, HomeRegistry!BoundsAssumption,
           HomeProofs!WidthAssumption, HomeRegistry!WidthAssumption
  <1>4. HomeProofs!EmptyAssumption
    BY HomeAssumption
       DEF HomeProofs!EmptyAssumption, HomeRegistry!EmptyAssumption,
           HomeProofs!ConfigState, HomeRegistry!ConfigState,
           HomeProofs!MembershipState, HomeRegistry!MembershipState,
           HomeProofs!Tree, HomeRegistry!Tree, HomeProofs!Leaves, HomeRegistry!Leaves,
           HomeProofs!Indices, HomeRegistry!Indices, HomeProofs!Sale, HomeRegistry!Sale
  <1>5. QED
    BY <1>2, <1>3, <1>4

LEMMA SameSpec ==
  /\ HomeProofs!vars = HomeRegistry!vars
  /\ HomeProofs!Init <=> HomeRegistry!Init
  /\ HomeProofs!Next <=> HomeRegistry!Next
  <1>1. HomeProofs!vars = HomeRegistry!vars
    BY DEF HomeProofs!vars, HomeRegistry!vars
  <1>2. HomeProofs!Init <=> HomeRegistry!Init
    BY DEF HomeProofs!Init, HomeRegistry!Init
  <1>3. HomeProofs!Next <=> HomeRegistry!Next
    BY DEF HomeProofs!Next, HomeProofs!Initialize, HomeProofs!InitConfig,
           HomeProofs!InitializeMerkleTree, HomeProofs!assert_config_ids,
           HomeProofs!initialize_tree, HomeProofs!EmptyTree, HomeProofs!Indices,
           HomeProofs!Register, HomeProofs!validate_rate_limit, HomeProofs!RegisterConfig,
           HomeProofs!RegisterConfigChecks, HomeProofs!claims_price_and_payee,
           HomeProofs!can_register, HomeProofs!saturating_add, HomeProofs!ClockIs,
           HomeProofs!assert_clock_is, HomeProofs!InitMembership, HomeProofs!secs_to_millis,
           HomeProofs!native_payment, HomeProofs!calculate_payment_amount,
           HomeProofs!insert_leaf, HomeProofs!insert_leaf_checks,
           HomeProofs!compute_registration_leaf, HomeProofs!Slash, HomeProofs!SlashPlan,
           HomeProofs!ReleaseConfig, HomeProofs!saturating_sub, HomeProofs!SlashMembership,
           HomeProofs!SlashMembershipChecks, HomeProofs!remove_leaf,
           HomeProofs!remove_leaf_checks, HomeProofs!Extend, HomeProofs!ExtendConfig,
           HomeProofs!ExtendMembership, HomeProofs!ExtendMembershipChecks,
           HomeProofs!is_in_grace_period, HomeProofs!Erase, HomeProofs!EraseMembership,
           HomeProofs!EraseMembershipChecks, HomeProofs!is_expired, HomeProofs!Tick,
           HomeProofs!Reveal, HomeRegistry!Next, HomeRegistry!Initialize,
           HomeRegistry!InitConfig, HomeRegistry!InitializeMerkleTree,
           HomeRegistry!assert_config_ids, HomeRegistry!initialize_tree,
           HomeRegistry!EmptyTree, HomeRegistry!Indices, HomeRegistry!Register,
           HomeRegistry!validate_rate_limit, HomeRegistry!RegisterConfig,
           HomeRegistry!RegisterConfigChecks, HomeRegistry!claims_price_and_payee,
           HomeRegistry!can_register, HomeRegistry!saturating_add, HomeRegistry!ClockIs,
           HomeRegistry!assert_clock_is, HomeRegistry!InitMembership,
           HomeRegistry!secs_to_millis, HomeRegistry!native_payment,
           HomeRegistry!calculate_payment_amount, HomeRegistry!insert_leaf,
           HomeRegistry!insert_leaf_checks, HomeRegistry!compute_registration_leaf,
           HomeRegistry!Slash, HomeRegistry!SlashPlan, HomeRegistry!ReleaseConfig,
           HomeRegistry!saturating_sub, HomeRegistry!SlashMembership,
           HomeRegistry!SlashMembershipChecks, HomeRegistry!remove_leaf,
           HomeRegistry!remove_leaf_checks, HomeRegistry!Extend, HomeRegistry!ExtendConfig,
           HomeRegistry!ExtendMembership, HomeRegistry!ExtendMembershipChecks,
           HomeRegistry!is_in_grace_period, HomeRegistry!Erase, HomeRegistry!EraseMembership,
           HomeRegistry!EraseMembershipChecks, HomeRegistry!is_expired, HomeRegistry!Tick,
           HomeRegistry!Reveal
  <1>4. QED
    BY <1>1, <1>2, <1>3

LEMMA SameCounts ==
  /\ HomeProofs!CountersMatchMembers <=> HomeRegistry!CountersMatchMembers
  /\ HomeProofs!LiveRateWithinCap <=> HomeRegistry!LiveRateWithinCap
  <1>1. \A S : HomeProofs!Cardinality(S) = HomeRegistry!Cardinality(S)
    BY DEF HomeProofs!Cardinality, HomeRegistry!Cardinality
  <1>2. HomeProofs!Members = HomeRegistry!Members
    BY DEF HomeProofs!Members, HomeRegistry!Members
  <1>3. HomeProofs!RateUnits = HomeRegistry!RateUnits
    BY <1>2 DEF HomeProofs!RateUnits, HomeRegistry!RateUnits
  <1>4. QED
    BY <1>1, <1>2, <1>3
       DEF HomeProofs!CountersMatchMembers, HomeRegistry!CountersMatchMembers,
           HomeProofs!LiveRateWithinCap, HomeRegistry!LiveRateWithinCap

LEMMA SameInvariants ==
  /\ HomeProofs!LeavesMatchMembers <=> HomeRegistry!LeavesMatchMembers
  /\ HomeProofs!OnlyConfiguredTree <=> HomeRegistry!OnlyConfiguredTree
  /\ HomeProofs!PaidTimeHonoured <=> HomeRegistry!PaidTimeHonoured
  /\ HomeProofs!RenewalHorizon <=> HomeRegistry!RenewalHorizon
  /\ HomeProofs!Reclaimable <=> HomeRegistry!Reclaimable
  <1>1. HomeProofs!LeavesMatchMembers <=> HomeRegistry!LeavesMatchMembers
    BY DEF HomeProofs!LeavesMatchMembers, HomeProofs!Members, HomeProofs!Indices,
           HomeProofs!MemberLeaf, HomeProofs!compute_registration_leaf,
           HomeRegistry!LeavesMatchMembers, HomeRegistry!Members, HomeRegistry!Indices,
           HomeRegistry!MemberLeaf, HomeRegistry!compute_registration_leaf
  <1>2. HomeProofs!OnlyConfiguredTree <=> HomeRegistry!OnlyConfiguredTree
    BY DEF HomeProofs!OnlyConfiguredTree, HomeRegistry!OnlyConfiguredTree
  <1>3. HomeProofs!PaidTimeHonoured <=> HomeRegistry!PaidTimeHonoured
    BY DEF HomeProofs!PaidTimeHonoured, HomeProofs!Members, HomeProofs!saturating_add,
           HomeProofs!secs_to_millis, HomeProofs!PaidUntil, HomeProofs!InstantAfter,
           HomeRegistry!PaidTimeHonoured, HomeRegistry!Members, HomeRegistry!saturating_add,
           HomeRegistry!secs_to_millis, HomeRegistry!PaidUntil, HomeRegistry!InstantAfter
  <1>4. HomeProofs!RenewalHorizon <=> HomeRegistry!RenewalHorizon
    BY DEF HomeProofs!RenewalHorizon, HomeProofs!Members, HomeProofs!saturating_add,
           HomeProofs!secs_to_millis, HomeRegistry!RenewalHorizon, HomeRegistry!Members,
           HomeRegistry!saturating_add, HomeRegistry!secs_to_millis
  <1>5. HomeProofs!Reclaimable <=> HomeRegistry!Reclaimable
    BY DEF HomeProofs!Reclaimable, HomeProofs!Members, HomeProofs!Indices,
           HomeProofs!is_expired, HomeProofs!saturating_add, HomeProofs!secs_to_millis,
           HomeProofs!EraseAccepted, HomeProofs!assert_config_ids, HomeProofs!ClockIs,
           HomeProofs!assert_clock_is, HomeProofs!EraseMembershipChecks,
           HomeProofs!remove_leaf_checks, HomeProofs!compute_registration_leaf,
           HomeProofs!SlashAccepted, HomeProofs!SlashPlan, HomeProofs!SlashMembershipChecks,
           HomeRegistry!Reclaimable, HomeRegistry!Members, HomeRegistry!Indices,
           HomeRegistry!is_expired, HomeRegistry!saturating_add, HomeRegistry!secs_to_millis,
           HomeRegistry!EraseAccepted, HomeRegistry!assert_config_ids, HomeRegistry!ClockIs,
           HomeRegistry!assert_clock_is, HomeRegistry!EraseMembershipChecks,
           HomeRegistry!remove_leaf_checks, HomeRegistry!compute_registration_leaf,
           HomeRegistry!SlashAccepted, HomeRegistry!SlashPlan,
           HomeRegistry!SlashMembershipChecks
  <1>6. QED
    BY <1>1, <1>2, <1>3, <1>4, <1>5

LEMMA SameRemovals == HomeProofs!RemovalJustified => HomeRegistry!RemovalJustified
  <1>1. /\ HomeProofs!vars = HomeRegistry!vars /\ HomeProofs!vars' = HomeRegistry!vars'
        /\ HomeProofs!Members = HomeRegistry!Members
    BY DEF HomeProofs!vars, HomeRegistry!vars, HomeProofs!Members, HomeRegistry!Members
  <1>2. ASSUME NEW c PROVE HomeProofs!PaidUntil(c) = HomeRegistry!PaidUntil(c)
    BY DEF HomeProofs!PaidUntil, HomeProofs!InstantAfter, HomeProofs!secs_to_millis,
           HomeRegistry!PaidUntil, HomeRegistry!InstantAfter, HomeRegistry!secs_to_millis
  <1>3. [\A c \in HomeProofs!Members :
            HomeMembership'[c] = Empty =>
                \/ \E s \in revealed : hash_single[s] = c
                \/ shards[clock_shard] >= HomeProofs!PaidUntil(c)]_(HomeProofs!vars)
        => [\A c \in HomeRegistry!Members :
              HomeMembership'[c] = Empty =>
                  \/ \E s \in revealed : hash_single[s] = c
                  \/ shards[clock_shard] >= HomeRegistry!PaidUntil(c)]_(HomeRegistry!vars)
    BY <1>1, <1>2
  <1>4. QED
    BY <1>3, PTL DEF HomeProofs!RemovalJustified, HomeRegistry!RemovalJustified

LEMMA SameSlots == HomeProofs!SlotsFilledOnce => HomeRegistry!SlotsFilledOnce
  <1>1. /\ HomeProofs!vars = HomeRegistry!vars /\ HomeProofs!vars' = HomeRegistry!vars'
        /\ HomeProofs!Indices = HomeRegistry!Indices
    BY DEF HomeProofs!vars, HomeRegistry!vars, HomeProofs!Indices, HomeRegistry!Indices
  <1>2. [\A p \in MerklePrograms : HomeTree[p] # Empty =>
            /\ HomeTree'[p] # Empty
            /\ HomeTree'[p].next_index >= HomeTree[p].next_index
            /\ \A i \in HomeProofs!Indices :
                 HomeTree'[p].leaves[i] # HomeTree[p].leaves[i] =>
                   \/ HomeTree'[p].leaves[i] = ZERO
                   \/ i = HomeTree[p].next_index /\ HomeTree'[p].next_index > i]_(HomeProofs!vars)
        => [\A p \in MerklePrograms : HomeTree[p] # Empty =>
              /\ HomeTree'[p] # Empty
              /\ HomeTree'[p].next_index >= HomeTree[p].next_index
              /\ \A i \in HomeRegistry!Indices :
                   HomeTree'[p].leaves[i] # HomeTree[p].leaves[i] =>
                     \/ HomeTree'[p].leaves[i] = ZERO
                     \/ i = HomeTree[p].next_index /\ HomeTree'[p].next_index > i]_(HomeRegistry!vars)
    BY <1>1
  <1>3. QED
    BY <1>2, PTL DEF HomeProofs!SlotsFilledOnce, HomeRegistry!SlotsFilledOnce

LEMMA HomeSpec == Spec => HomeProofs!Spec
  <1>1. HomeRegistry!Init => HomeProofs!Init
    BY SameSpec
  <1>2. [HomeRegistry!Next]_(HomeRegistry!vars) => [HomeProofs!Next]_(HomeProofs!vars)
    <2>1. HomeProofs!vars' = HomeRegistry!vars'
      BY DEF HomeProofs!vars, HomeRegistry!vars
    <2>2. QED
      BY <2>1, SameSpec
  <1>3. QED
    BY <1>1, <1>2, Refinement, PTL DEF ImplementsRegistry, HomeRegistry!Spec, HomeProofs!Spec

\* Every registry the executor runs, whatever other registries, programs and
\* payers do between the effects of its transactions: its tree holds exactly
\* its members, under the configured merkle program; its counters are their
\* number and their rate limits, within the cap; each membership expires at
\* the end of the time bought for it, no later than one renewal from now; and
\* whatever expired or leaked can be taken out.
THEOREM EveryRegistry ==
  Spec => [](/\ HomeRegistry!LeavesMatchMembers
             /\ HomeRegistry!OnlyConfiguredTree
             /\ HomeRegistry!CountersMatchMembers
             /\ HomeRegistry!LiveRateWithinCap
             /\ HomeRegistry!PaidTimeHonoured
             /\ HomeRegistry!RenewalHorizon
             /\ HomeRegistry!Reclaimable)
  <1>1. HomeProofs!Spec => []HomeProofs!LeavesMatchMembers
    BY HomeConstants, HomeProofs!TreeCorrect
  <1>2. HomeProofs!Spec => []HomeProofs!OnlyConfiguredTree
    BY HomeConstants, HomeProofs!CalleeCorrect
  <1>3. HomeProofs!Spec => []HomeProofs!CountersMatchMembers
    BY HomeConstants, HomeProofs!CountersCorrect
  <1>4. HomeProofs!Spec => []HomeProofs!LiveRateWithinCap
    BY HomeConstants, HomeProofs!CapCorrect
  <1>5. HomeProofs!Spec => []HomeProofs!PaidTimeHonoured
    BY HomeConstants, HomeProofs!TimeCorrect
  <1>6. HomeProofs!Spec => []HomeProofs!RenewalHorizon
    BY HomeConstants, HomeProofs!HorizonCorrect
  <1>7. HomeProofs!Spec => []HomeProofs!Reclaimable
    BY HomeConstants, HomeProofs!ReclaimCorrect
  <1>8. QED
    BY <1>1, <1>2, <1>3, <1>4, <1>5, <1>6, <1>7, HomeSpec, SameCounts, SameInvariants, PTL

\* In every registry the executor runs, a member goes only when its secret is
\* out or its time is over on the clock, and a leaf index serves one
\* registration: the transactions of other registries, of other programs on
\* its tree, and those that revert half-way, never do either.
THEOREM EveryRegistryStep ==
  Spec => HomeRegistry!RemovalJustified /\ HomeRegistry!SlotsFilledOnce
  <1>1. HomeProofs!Spec => HomeProofs!RemovalJustified
    BY HomeConstants, HomeProofs!RemovalCorrect
  <1>2. HomeProofs!Spec => HomeProofs!SlotsFilledOnce
    BY HomeConstants, HomeProofs!SlotsCorrect
  <1>3. QED
    BY <1>1, <1>2, HomeSpec, SameRemovals, SameSlots, PTL

=============================================================================
