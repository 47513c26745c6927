------------------------- MODULE RegisterBatchProofs -------------------------
(***************************************************************************)
(* The registering commands, for batches of any size, any fees, prices and *)
(* gas limits, and any number of blocks.                                   *)
(***************************************************************************)
EXTENDS RegisterBatch, TLAPS

-----------------------------------------------------------------------------
(***************************************************************************)
(* The inductive invariant.                                                *)
(***************************************************************************)

\* Where the command works on an entry, ...
AtEntry == {"balance", "quote", "send", "poll", "some", "none"}
Labels == {"next", "create", "done", "panicked"} \cup AtEntry

Maybe(S) == S \cup {None}

Quotes == [balance : Maybe(Nat), max_fee : Maybe(Nat),
           basis : Maybe({"Quote", "Fallback"}), height : Maybe(Nat)]

Pooled == [state : {"pooled"}, nonce : Nat, quote : Quotes]
Outcome == [state : {"effective", "reverted", "dropped"}]

TypeOK ==
    /\ command \in {"register_member", "register_commitments"}
    /\ gas_limit \in Nat
    /\ pc \in Labels
    /\ entry \in 0 .. COUNT
    /\ quote \in Quotes
    /\ said \in [Entries -> Maybe({"registered", "warned"})]
    /\ closing \subseteq Entries
    /\ wallet \subseteq Entries
    /\ txs \in [Entries -> {None} \cup Pooled \cup Outcome]
    /\ registered \subseteq Entries
    /\ balance \in Nat
    /\ nonce \in Nat
    /\ height \in Nat
    /\ base_fee \in Nat

InPool(i) == txs[i] # None /\ txs[i].state = "pooled"

\* The secret of an entry is on disk before its transaction is sent.
WalletInv ==
    /\ pc \in AtEntry \cup {"create"} => entry \in Entries
    /\ pc \in AtEntry => entry \in wallet
    /\ command = "register_commitments" => wallet = Entries
    /\ \A i \in Entries : InPool(i) => i \in wallet
    /\ registered \subseteq wallet

\* What the loop prints of an entry rests on what the wait saw.
SaidInv ==
    /\ \A i \in Entries : said[i] = "registered" => i \in registered
    /\ \A i \in Entries : Passed(i) => i \in registered \/ said[i] = "warned"
    /\ pc = "some" => entry \in registered

\* How far n blocks may have taken the base fee from a quoted ceiling: the
\* ceiling bounds the first, each later one adds an eighth at most.
Climbed(n, ceiling, fee) ==
    /\ n = 0 => FeeUp(fee) <= ceiling
    /\ n = 1 => fee <= ceiling
    /\ n = 2 => 8 * fee <= 9 * ceiling
    /\ n = 3 => 64 * fee <= 81 * ceiling
    /\ n = 4 => 512 * fee <= 729 * ceiling
    /\ n = 5 => 4096 * fee <= 6561 * ceiling
    /\ n = 6 => 32768 * fee <= 59049 * ceiling

Reserve(gas, ceiling) == BASE_FEE_HEADROOM * (gas + ASSUMED_DATA_BYTES) * ceiling

\* A quote the command may send with, at block h with base fee `fee`: its
\* reserve was affordable, and is one of the two that it can be.
Sound(q, gas, h, fee) ==
    /\ q.balance \in Nat /\ q.balance < U128_MAX
    /\ q.max_fee \in Nat /\ q.height \in Nat /\ q.height <= h
    /\ gas <= MAX_GAS_EXEC
    /\ saturate(PRICE + q.max_fee) <= q.balance
    /\ \/ /\ q.basis = "Quote"
          /\ \E ceiling \in Nat : /\ q.max_fee = saturate(Reserve(gas, ceiling))
                                  /\ Climbed(h - q.height, ceiling, fee)
       \/ q.basis = "Fallback" /\ q.max_fee = DECLARED_MAX_FEE

FeeInv ==
    /\ balance < U128_MAX
    /\ pc = "quote" => quote.balance \in Nat /\ quote.balance < U128_MAX
    /\ pc = "send" => Sound(quote, gas_limit, height, base_fee)
    /\ \A i \in Entries : InPool(i) => Sound(txs[i].quote, gas_limit, height, base_fee)

Inv == TypeOK /\ WalletInv /\ SaidInv /\ FeeInv

-----------------------------------------------------------------------------
(***************************************************************************)
(* Arithmetic.                                                             *)
(***************************************************************************)

LEMMA Product ==
  ASSUME NEW a \in Nat, NEW b \in Nat
  PROVE  a * b \in Nat
  OBVIOUS

LEMMA ProductMonotone ==
  ASSUME NEW a \in Nat, NEW b \in Nat, NEW c \in Nat, a <= b
  PROVE  c * a <= c * b
  OBVIOUS

LEMMA Saturation ==
  ASSUME NEW n \in Nat
  PROVE  /\ saturate(n) \in Nat
         /\ saturate(n) <= n
         /\ saturate(n) < U128_MAX => saturate(n) = n
  BY HeadroomAssumption DEF saturate

\* A full block raises the fee, by an eighth at most.
LEMMA FeeRise ==
  ASSUME NEW fee \in Nat
  PROVE  FeeUp(fee) \in Nat /\ fee <= FeeUp(fee) /\ 8 * FeeUp(fee) <= 9 * fee
  BY DEF FeeUp

\* A rise of the base fee takes the bound one block further.
LEMMA ClimbOn ==
  ASSUME NEW n \in Nat, NEW ceiling \in Nat, NEW fee \in Nat, NEW up \in {fee, FeeUp(fee)},
         Climbed(n, ceiling, fee)
  PROVE  Climbed(n + 1, ceiling, up)
  <1>1. up \in Nat /\ up <= FeeUp(fee) /\ 8 * up <= 9 * fee /\ FeeUp(fee) \in Nat
    BY FeeRise
  <1>2. CASE n = 0
    BY <1>1, <1>2 DEF Climbed
  <1>3. CASE n = 1
    BY <1>1, <1>3 DEF Climbed
  <1>4. CASE n = 2
    BY <1>1, <1>4 DEF Climbed
  <1>5. CASE n = 3
    BY <1>1, <1>5 DEF Climbed
  <1>6. CASE n = 4
    BY <1>1, <1>6 DEF Climbed
  <1>7. CASE n = 5
    BY <1>1, <1>7 DEF Climbed
  <1>8. CASE n > 5
    BY <1>8 DEF Climbed
  <1>9. QED
    BY <1>2, <1>3, <1>4, <1>5, <1>6, <1>7, <1>8

\* Within the headroom the base fee has at most doubled.
LEMMA ClimbBounded ==
  ASSUME NEW n \in 0 .. 6, NEW ceiling \in Nat, NEW fee \in Nat, Climbed(n, ceiling, fee)
  PROVE  fee <= 2 * ceiling
  <1>1. CASE n = 0
    BY <1>1, FeeRise DEF Climbed
  <1>2. CASE n > 0
    BY <1>2 DEF Climbed
  <1>3. QED
    BY <1>1, <1>2

\* A sound quote stays sound from block to block.
LEMMA SoundStays ==
  ASSUME NEW gas \in Nat, NEW h \in Nat, NEW fee \in Nat, NEW up \in {fee, FeeUp(fee)},
         NEW q, Sound(q, gas, h, fee)
  PROVE  Sound(q, gas, h + 1, up)
  <1>1. q.height \in Nat /\ q.height <= h
    BY DEF Sound
  <1>2. CASE q.basis = "Quote"
    <2>1. PICK ceiling \in Nat : /\ q.max_fee = saturate(Reserve(gas, ceiling))
                                 /\ Climbed(h - q.height, ceiling, fee)
      BY <1>2 DEF Sound
    <2>2. Climbed((h + 1) - q.height, ceiling, up)
      <3>1. h - q.height \in Nat /\ (h - q.height) + 1 = (h + 1) - q.height
        BY <1>1
      <3>2. Climbed((h - q.height) + 1, ceiling, up)
        BY <2>1, <3>1, ClimbOn
      <3>3. QED
        BY <3>1, <3>2
    <2>3. QED
      BY <1>1, <1>2, <2>1, <2>2 DEF Sound
  <1>3. CASE q.basis # "Quote"
    BY <1>1, <1>3 DEF Sound
  <1>4. QED
    BY <1>2, <1>3

\* What a sound quote is good for: the chain's reserve is within the fee cap,
\* and the price within what the reserve leaves of the quoted balance.
LEMMA SoundSuffices ==
  ASSUME NEW gas \in Nat, NEW h \in Nat, NEW fee \in Nat, NEW q, Sound(q, gas, h, fee),
         IF q.basis = "Quote" THEN h <= q.height + 1 + HEADROOM_BLOCKS
                              ELSE fee <= ASSUMED_BASE_FEE
  PROVE  /\ (gas + ASSUMED_DATA_BYTES) * fee <= q.max_fee
         /\ PRICE + q.max_fee <= q.balance
  <1> DEFINE size == gas + ASSUMED_DATA_BYTES
  <1>1. /\ size \in Nat /\ PRICE \in Nat /\ MAX_GAS_EXEC \in Nat
        /\ ASSUMED_DATA_BYTES \in Nat /\ ASSUMED_BASE_FEE \in Nat
        /\ BASE_FEE_HEADROOM \in Nat /\ BASE_FEE_HEADROOM >= 2
        /\ HEADROOM_BLOCKS \in 0 .. 5 /\ U128_MAX \in Nat
    BY BatchAssumption, HeadroomAssumption
  <1>2. /\ q.balance \in Nat /\ q.balance < U128_MAX
        /\ q.max_fee \in Nat /\ q.height \in Nat /\ q.height <= h
        /\ gas <= MAX_GAS_EXEC
        /\ saturate(PRICE + q.max_fee) <= q.balance
    BY DEF Sound
  <1>3. PRICE + q.max_fee <= q.balance /\ q.max_fee < U128_MAX
    BY <1>1, <1>2, Saturation
  <1>4. CASE q.basis = "Quote"
    <2>1. PICK ceiling \in Nat : /\ q.max_fee = saturate(Reserve(gas, ceiling))
                                 /\ Climbed(h - q.height, ceiling, fee)
      BY <1>4 DEF Sound
    <2>2. h - q.height \in 0 .. 6
      BY <1>1, <1>2, <1>4
    <2>3. fee <= 2 * ceiling
      BY <2>1, <2>2, ClimbBounded
    <2> HIDE DEF size
    <2>4. size * fee <= size * (2 * ceiling)
      BY <1>1, <2>3, ProductMonotone
    <2>5. size * (2 * ceiling) <= size * (BASE_FEE_HEADROOM * ceiling)
      <3>1. 2 * ceiling <= BASE_FEE_HEADROOM * ceiling
        BY <1>1, ProductMonotone
      <3>2. BASE_FEE_HEADROOM * ceiling \in Nat
        BY <1>1, Product
      <3>3. QED
        BY <1>1, <3>1, <3>2, ProductMonotone
    <2>6. size * (BASE_FEE_HEADROOM * ceiling) = BASE_FEE_HEADROOM * size * ceiling
      BY <1>1
    <2>7. BASE_FEE_HEADROOM * size * ceiling \in Nat
      BY <1>1
    <2>8. q.max_fee = BASE_FEE_HEADROOM * size * ceiling
      BY <1>3, <2>1, <2>7, Saturation DEF Reserve, size
    <2>9. size * fee \in Nat /\ size * (2 * ceiling) \in Nat
      BY <1>1
    <2>10. size * fee <= q.max_fee
      BY <2>4, <2>5, <2>6, <2>7, <2>8, <2>9
    <2>11. QED
      BY <1>3, <2>10 DEF size
  <1>5. CASE q.basis # "Quote"
    <2>1. q.max_fee = (MAX_GAS_EXEC + ASSUMED_DATA_BYTES) * ASSUMED_BASE_FEE
      BY <1>5 DEF Sound, DECLARED_MAX_FEE
    <2>2. size * fee <= size * ASSUMED_BASE_FEE
      BY <1>1, <1>5, ProductMonotone
    <2>3. ASSUMED_BASE_FEE * size <= ASSUMED_BASE_FEE * (MAX_GAS_EXEC + ASSUMED_DATA_BYTES)
      BY <1>1, <1>2, ProductMonotone
    <2>4. QED
      BY <1>1, <1>3, <2>1, <2>2, <2>3
  <1>6. QED
    BY <1>4, <1>5

-----------------------------------------------------------------------------
(***************************************************************************)
(* Types.                                                                  *)
(***************************************************************************)

LEMMA InitType == Init => TypeOK
  BY BatchAssumption
     DEF Init, TypeOK, Labels, AtEntry, NoQuote, Quotes, Maybe, Entries

\* What an admitted transaction is charged is within its payer's means.
LEMMA ChargeBounded ==
  ASSUME TypeOK, NEW used \in Nat, used <= gas_limit
  PROVE  /\ used * base_fee \in Nat
         /\ used * base_fee <= ChainReserve(gas_limit)
         /\ ChainReserve(gas_limit) \in Nat
  <1>1. gas_limit + ASSUMED_DATA_BYTES \in Nat /\ base_fee \in Nat
    BY BatchAssumption DEF TypeOK
  <1>2. used <= gas_limit + ASSUMED_DATA_BYTES
    BY BatchAssumption DEF TypeOK
  <1>3. base_fee * used <= base_fee * (gas_limit + ASSUMED_DATA_BYTES)
    BY <1>1, <1>2, ProductMonotone
  <1>4. QED
    BY <1>1, <1>3 DEF ChainReserve

LEMMA ReserveType ==
  ASSUME TypeOK
  PROVE  fee_reserve_from \in Nat /\ DECLARED_MAX_FEE \in Nat
  <1>1. FeeUp(base_fee) \in Nat
    BY FeeRise DEF TypeOK
  <1>2. BASE_FEE_HEADROOM * (gas_limit + ASSUMED_DATA_BYTES) * FeeUp(base_fee) \in Nat
    BY <1>1, BatchAssumption, HeadroomAssumption DEF TypeOK
  <1>3. QED
    BY <1>2, Saturation, BatchAssumption DEF fee_reserve_from, DECLARED_MAX_FEE

LEMMA TypeStep ==
  ASSUME TypeOK, WalletInv, Next
  PROVE  TypeOK'
  <1> USE DEF Labels, AtEntry
  <1>1. COUNT \in Nat
    BY BatchAssumption
  <1>2. ASSUME NextEntry \/ Close PROVE TypeOK'
    BY <1>1, <1>2 DEF NextEntry, Close, TypeOK, local, chain
  <1>3. ASSUME create_identity PROVE TypeOK'
    BY <1>3 DEF create_identity, TypeOK, WalletInv, local, chain
  <1>4. ASSUME get_account_balance PROVE TypeOK'
    <2>1. quote' \in Quotes
      BY <1>4 DEF get_account_balance, TypeOK, Quotes, Maybe
    <2>2. QED
      BY <1>4, <2>1 DEF get_account_balance, TypeOK, local, chain
  <1>5. ASSUME assert_can_afford PROVE TypeOK'
    <2>1. quote' \in Quotes
      BY <1>5, ReserveType DEF assert_can_afford, TypeOK, Quotes, Maybe
    <2>2. pc' \in Labels
      BY <1>5 DEF assert_can_afford
    <2>3. QED
      BY <1>5, <2>1, <2>2 DEF assert_can_afford, TypeOK, local, chain
  <1>6. ASSUME send_metered_tx PROVE TypeOK'
    <2>1. [state |-> "pooled", nonce |-> nonce, quote |-> quote] \in Pooled
      BY DEF TypeOK, Pooled
    <2>2. txs' \in [Entries -> {None} \cup Pooled \cup Outcome]
      BY <1>6, <2>1 DEF send_metered_tx, TypeOK
    <2>3. quote' \in Quotes
      BY <1>6 DEF send_metered_tx, NoQuote, Quotes, Maybe
    <2>4. QED
      BY <1>6, <2>2, <2>3 DEF send_metered_tx, TypeOK, local, chain
  <1>7. ASSUME Poll \/ Timeout \/ GiveUp PROVE TypeOK'
    BY <1>7 DEF Poll, Timeout, GiveUp, TypeOK, local, chain
  <1>8. ASSUME Registered \/ Unconfirmed PROVE TypeOK'
    BY <1>8 DEF Registered, Unconfirmed, TypeOK, Maybe, local, chain
  <1>9. ASSUME Crash PROVE TypeOK'
    BY <1>9 DEF Crash, NoQuote, Quotes, Maybe, TypeOK, local, chain
  <1>10. ASSUME NewBlock PROVE TypeOK'
    BY <1>10, FeeRise DEF NewBlock, TypeOK, local
  <1>11. ASSUME NEW i \in Entries, NEW used \in GasUsed, Include(i, used) PROVE TypeOK'
    <2>1. used \in Nat /\ used <= gas_limit /\ PRICE \in Nat
      BY <1>11, BatchAssumption DEF Include
    <2>2. /\ used * base_fee \in Nat /\ ChainReserve(gas_limit) \in Nat
          /\ used * base_fee <= ChainReserve(gas_limit)
          /\ ChainReserve(gas_limit) <= balance
      BY <1>11, <2>1, ChargeBounded DEF Include, Admits
    <2>3. balance' \in Nat
      BY <1>11, <2>1, <2>2 DEF Include, TypeOK
    <2>4. Done("effective") \in Outcome /\ Done("reverted") \in Outcome
      BY DEF Done, Outcome
    <2>5. txs' \in [Entries -> {None} \cup Pooled \cup Outcome]
      BY <1>11, <2>4 DEF Include, TypeOK
    <2>6. registered' \subseteq Entries /\ nonce' \in Nat
      BY <1>11 DEF Include, TypeOK
    <2>7. QED
      BY <1>11, <2>3, <2>5, <2>6 DEF Include, TypeOK, local
  <1>12. ASSUME NEW i \in Entries, Drop(i) PROVE TypeOK'
    <2>1. Done("dropped") \in Outcome
      BY DEF Done, Outcome
    <2>2. QED
      BY <1>12, <2>1 DEF Drop, TypeOK, local, chain
  <1>13. ASSUME NEW amount \in Transfers, fund_account(amount) PROVE TypeOK'
    <2>1. PICK used \in GasUsed : /\ used <= gas_limit
                                  /\ balance' = balance - amount - used * base_fee
      BY <1>13 DEF fund_account
    <2>2. used \in Nat /\ amount \in Nat
      BY BatchAssumption
    <2>3. /\ used * base_fee \in Nat /\ ChainReserve(gas_limit) \in Nat
          /\ used * base_fee <= ChainReserve(gas_limit)
      BY <2>1, <2>2, ChargeBounded
    <2>4. balance' \in Nat
      BY <1>13, <2>1, <2>2, <2>3 DEF fund_account, TypeOK
    <2>5. QED
      BY <1>13, <2>4 DEF fund_account, TypeOK, local
  <1>14. QED
    BY <1>2, <1>3, <1>4, <1>5, <1>6, <1>7, <1>8, <1>9, <1>10, <1>11, <1>12, <1>13
       DEF Next, Command

-----------------------------------------------------------------------------
(***************************************************************************)
(* Keys and what was said.                                                 *)
(***************************************************************************)

\* A transaction in the pool was there before, or has just been sent.
LEMMA PoolStep ==
  ASSUME TypeOK, WalletInv, Next, NEW i \in Entries, InPool(i)'
  PROVE  \/ InPool(i) /\ txs'[i] = txs[i]
         \/ /\ send_metered_tx /\ i = entry
            /\ txs'[i] = [state |-> "pooled", nonce |-> nonce, quote |-> quote]
  <1>1. CASE UNCHANGED txs
    BY <1>1 DEF InPool
  <1>2. CASE send_metered_tx
    BY <1>2 DEF send_metered_tx, InPool, TypeOK
  <1>3. ASSUME NEW j \in Entries, NEW used \in GasUsed, Include(j, used)
        PROVE  InPool(i) /\ txs'[i] = txs[i]
    BY <1>3 DEF Include, Done, InPool, TypeOK
  <1>4. ASSUME NEW j \in Entries, Drop(j)
        PROVE  InPool(i) /\ txs'[i] = txs[i]
    BY <1>4 DEF Drop, Done, InPool, TypeOK
  <1>5. QED
    BY <1>1, <1>2, <1>3, <1>4
       DEF Next, Command, NextEntry, Close, create_identity, get_account_balance, assert_can_afford,
           Poll, Timeout, Registered, Unconfirmed, GiveUp, Crash, NewBlock, fund_account

\* Only what was in the pool gets registered.
LEMMA RegisteredStep ==
  ASSUME TypeOK, Next
  PROVE  /\ registered \subseteq registered'
         /\ \A i \in registered' \ registered : i \in Entries /\ InPool(i)
  <1>1. CASE UNCHANGED registered
    BY <1>1
  <1>2. ASSUME NEW j \in Entries, NEW used \in GasUsed, Include(j, used)
        PROVE  /\ registered \subseteq registered'
               /\ \A i \in registered' \ registered : i \in Entries /\ InPool(i)
    BY <1>2 DEF Include, InPool
  <1>3. QED
    BY <1>1, <1>2
       DEF Next, Command, NextEntry, Close, create_identity, get_account_balance, assert_can_afford,
           send_metered_tx, Poll, Timeout, Registered, Unconfirmed, GiveUp, Crash, NewBlock,
           Drop, fund_account, chain

\* The command's own part of the state, and that no other step touches it.
LEMMA OthersLeaveCommand ==
  ASSUME Next, ~Command, ~Crash
  PROVE  UNCHANGED <<command, gas_limit, pc, entry, quote, said, wallet>>
  BY DEF Next, NewBlock, Include, Drop, fund_account, local

LEMMA WalletStep ==
  ASSUME TypeOK, WalletInv, Next
  PROVE  WalletInv'
  <1> USE DEF AtEntry
  <1>1. /\ (pc \in AtEntry \cup {"create"} => entry \in Entries)'
        /\ (pc \in AtEntry => entry \in wallet)'
        /\ (command = "register_commitments" => wallet = Entries)'
        /\ wallet \subseteq wallet'
    <2>1. COUNT \in Nat
      BY BatchAssumption
    <2>2. CASE NextEntry \/ Close
      BY <2>1, <2>2 DEF NextEntry, Close, TypeOK, WalletInv, Entries, local
    <2>3. CASE create_identity
      BY <2>3 DEF create_identity, TypeOK, WalletInv, local
    <2>4. CASE get_account_balance \/ assert_can_afford \/ send_metered_tx
      BY <2>4 DEF get_account_balance, assert_can_afford, send_metered_tx, WalletInv, local
    <2>5. CASE Poll \/ Timeout \/ Registered \/ Unconfirmed \/ GiveUp \/ Crash
      BY <2>5 DEF Poll, Timeout, Registered, Unconfirmed, GiveUp, Crash, WalletInv, local
    <2>6. CASE ~Command /\ ~Crash
      BY <2>6, OthersLeaveCommand DEF WalletInv
    <2>7. QED
      BY <2>2, <2>3, <2>4, <2>5, <2>6 DEF Command
  <1>2. ASSUME NEW i \in Entries, InPool(i)' PROVE i \in wallet'
    <2>1. CASE InPool(i)
      BY <1>1, <2>1 DEF WalletInv
    <2>2. CASE send_metered_tx /\ i = entry
      BY <1>1, <2>2 DEF send_metered_tx, WalletInv
    <2>3. QED
      BY <1>2, <2>1, <2>2, PoolStep
  <1>3. registered' \subseteq wallet'
    BY <1>1, RegisteredStep DEF WalletInv
  <1>4. QED
    BY <1>1, <1>2, <1>3 DEF WalletInv

LEMMA SaidStep ==
  ASSUME TypeOK, WalletInv, SaidInv, Next
  PROVE  SaidInv'
  <1> USE DEF AtEntry
  <1>1. COUNT \in Nat /\ Entries = 1 .. COUNT
    BY BatchAssumption DEF Entries
  <1>2. registered \subseteq registered'
    BY RegisteredStep
  <1>3. CASE NextEntry \/ Close
    BY <1>1, <1>2, <1>3 DEF NextEntry, Close, SaidInv, Passed, TypeOK
  <1>4. CASE create_identity \/ get_account_balance \/ assert_can_afford \/ send_metered_tx
    BY <1>1, <1>2, <1>4
       DEF create_identity, get_account_balance, assert_can_afford, send_metered_tx,
           SaidInv, Passed
  <1>5. CASE Poll \/ Timeout \/ GiveUp \/ Crash
    BY <1>1, <1>2, <1>5 DEF Poll, Timeout, GiveUp, Crash, SaidInv, Passed
  <1>6. CASE Registered \/ Unconfirmed
    <2>1. entry \in Entries /\ (Registered => entry \in registered)
      BY <1>6 DEF Registered, Unconfirmed, WalletInv, SaidInv
    <2>2. \A i \in Entries : said'[i] = "registered" => i \in registered'
      BY <1>2, <1>6, <2>1 DEF Registered, Unconfirmed, SaidInv, TypeOK
    <2>3. ASSUME NEW i \in Entries, Passed(i)' PROVE i \in registered' \/ said'[i] = "warned"
      BY <1>1, <1>2, <1>6, <2>1, <2>3 DEF Registered, Unconfirmed, SaidInv, Passed, TypeOK
    <2>4. QED
      BY <1>6, <2>2, <2>3 DEF Registered, Unconfirmed, SaidInv
  <1>7. CASE ~Command /\ ~Crash
    BY <1>2, <1>7, OthersLeaveCommand DEF SaidInv, Passed
  <1>8. QED
    BY <1>3, <1>4, <1>5, <1>6, <1>7 DEF Command

-----------------------------------------------------------------------------
(***************************************************************************)
(* Money.                                                                  *)
(***************************************************************************)

\* Every step of this payer costs it something, and none brings it anything.
LEMMA BalanceStep ==
  ASSUME TypeOK, Next
  PROVE  balance' <= balance
  <1>1. balance \in Nat
    BY DEF TypeOK
  <1>2. CASE UNCHANGED balance
    BY <1>1, <1>2
  <1>3. ASSUME NEW i \in Entries, NEW used \in GasUsed, Include(i, used)
        PROVE  balance' <= balance
    <2>1. used \in Nat /\ used <= gas_limit /\ PRICE \in Nat
      BY <1>3, BatchAssumption DEF Include
    <2>2. used * base_fee \in Nat
      BY <2>1, ChargeBounded
    <2>3. QED
      BY <1>1, <1>3, <2>1, <2>2 DEF Include
  <1>4. ASSUME NEW amount \in Transfers, fund_account(amount)
        PROVE  balance' <= balance
    <2>1. PICK used \in GasUsed : /\ used <= gas_limit
                                  /\ balance' = balance - amount - used * base_fee
      BY <1>4 DEF fund_account
    <2>2. used \in Nat /\ amount \in Nat
      BY BatchAssumption
    <2>3. used * base_fee \in Nat
      BY <2>1, <2>2, ChargeBounded
    <2>4. QED
      BY <1>1, <2>1, <2>2, <2>3
  <1>5. QED
    BY <1>2, <1>3, <1>4
       DEF Next, Command, NextEntry, Close, create_identity, get_account_balance, assert_can_afford,
           send_metered_tx, Poll, Timeout, Registered, Unconfirmed, GiveUp, Crash, NewBlock,
           Drop, chain

\* A sound quote outlives every step.
LEMMA SoundStep ==
  ASSUME TypeOK, Next, NEW q, Sound(q, gas_limit, height, base_fee)
  PROVE  Sound(q, gas_limit', height', base_fee')
  <1>1. CASE NewBlock
    <2>1. /\ gas_limit \in Nat /\ height \in Nat /\ base_fee \in Nat
          /\ gas_limit' = gas_limit /\ height' = height + 1
          /\ base_fee' \in {base_fee, FeeUp(base_fee)}
      BY <1>1 DEF NewBlock, TypeOK, local
    <2>2. QED
      BY <2>1, SoundStays
  <1>2. CASE ~NewBlock
    <2>1. UNCHANGED <<gas_limit, height, base_fee>>
      BY <1>2
         DEF Next, Command, NextEntry, Close, create_identity, get_account_balance, assert_can_afford,
             send_metered_tx, Poll, Timeout, Registered, Unconfirmed, GiveUp, Crash, Include,
             Drop, fund_account, chain, local
    <2>2. QED
      BY <2>1
  <1>3. QED
    BY <1>1, <1>2

\* assert_can_afford lets only sound quotes through.
LEMMA QuoteSound ==
  ASSUME TypeOK, FeeInv, assert_can_afford, pc' = "send"
  PROVE  Sound(quote', gas_limit', height', base_fee')
  <1>1. /\ gas_limit' = gas_limit /\ height' = height /\ base_fee' = base_fee
        /\ gas_limit \in Nat /\ height \in Nat /\ base_fee \in Nat
        /\ pc = "quote" /\ quote \in Quotes
    BY DEF assert_can_afford, TypeOK, local, chain
  <1>2. quote.balance \in Nat /\ quote.balance < U128_MAX
    BY <1>1 DEF FeeInv
  <1>3. PICK basis \in {"Quote", "Fallback"} :
          LET reserve == IF basis = "Quote" THEN fee_reserve_from ELSE DECLARED_MAX_FEE
          IN  /\ quote' = [quote EXCEPT !.max_fee = reserve, !.basis = basis, !.height = height]
              /\ pc' = IF declared_gas_limit_ok /\ quote.balance >= saturate(PRICE + reserve)
                       THEN "send" ELSE "panicked"
    BY DEF assert_can_afford
  <1> DEFINE reserve == IF basis = "Quote" THEN fee_reserve_from ELSE DECLARED_MAX_FEE
  <1>4. declared_gas_limit_ok /\ quote.balance >= saturate(PRICE + reserve)
    BY <1>3
  <1>5. reserve \in Nat
    BY ReserveType
  <1>6. /\ quote'.balance = quote.balance /\ quote'.max_fee = reserve
        /\ quote'.basis = basis /\ quote'.height = height
    BY <1>1, <1>3 DEF Quotes
  <1>7. basis = "Quote" =>
          \E ceiling \in Nat : /\ reserve = saturate(Reserve(gas_limit, ceiling))
                               /\ Climbed(height - height, ceiling, base_fee)
    <2>1. FeeUp(base_fee) \in Nat /\ height - height = 0
      BY <1>1, FeeRise
    <2>2. Climbed(0, FeeUp(base_fee), base_fee)
      BY <2>1 DEF Climbed
    <2>3. fee_reserve_from = saturate(Reserve(gas_limit, FeeUp(base_fee)))
      BY DEF fee_reserve_from, Reserve
    <2>4. QED
      BY <2>1, <2>2, <2>3
  <1>8. saturate(PRICE + reserve) \in Nat /\ gas_limit <= MAX_GAS_EXEC
    BY <1>4, <1>5, BatchAssumption, Saturation DEF declared_gas_limit_ok
  <1> HIDE DEF reserve
  <1>9. basis # "Quote" => basis = "Fallback" /\ reserve = DECLARED_MAX_FEE
    BY DEF reserve
  <1>10. Sound(quote', gas_limit, height, base_fee)
    BY <1>1, <1>2, <1>4, <1>5, <1>6, <1>7, <1>8, <1>9 DEF Sound
  <1>11. QED
    BY <1>1, <1>10

LEMMA FeeStep ==
  ASSUME TypeOK, WalletInv, FeeInv, Next
  PROVE  FeeInv'
  <1>1. balance' < U128_MAX
    BY BalanceStep, TypeStep, HeadroomAssumption DEF FeeInv, TypeOK
  <1>2. ASSUME pc' = "quote"
        PROVE  quote'.balance \in Nat /\ quote'.balance < U128_MAX
    <2>1. get_account_balance \/ (pc = "quote" /\ quote' = quote)
      BY <1>2
         DEF Next, Command, NextEntry, Close, create_identity, get_account_balance, assert_can_afford,
             send_metered_tx, Poll, Timeout, Registered, Unconfirmed, GiveUp, Crash, NewBlock,
             Include, Drop, fund_account
    <2>2. CASE get_account_balance
      <3>1. quote' = [quote EXCEPT !.balance = balance] /\ quote \in Quotes /\ balance \in Nat
        BY <2>2 DEF get_account_balance, TypeOK
      <3>2. quote'.balance = balance
        BY <3>1 DEF Quotes
      <3>3. QED
        BY <3>1, <3>2 DEF FeeInv
    <2>3. QED
      BY <2>1, <2>2 DEF FeeInv
  <1>3. ASSUME pc' = "send"
        PROVE  Sound(quote', gas_limit', height', base_fee')
    <2>1. assert_can_afford \/ (pc = "send" /\ quote' = quote)
      BY <1>3
         DEF Next, Command, NextEntry, Close, create_identity, get_account_balance, assert_can_afford,
             send_metered_tx, Poll, Timeout, Registered, Unconfirmed, GiveUp, Crash, NewBlock,
             Include, Drop, fund_account
    <2>2. CASE assert_can_afford
      BY <1>3, <2>2, QuoteSound
    <2>3. CASE pc = "send" /\ quote' = quote
      BY <2>3, SoundStep DEF FeeInv
    <2>4. QED
      BY <2>1, <2>2, <2>3
  <1>4. ASSUME NEW i \in Entries, InPool(i)'
        PROVE  Sound(txs'[i].quote, gas_limit', height', base_fee')
    <2>1. CASE InPool(i) /\ txs'[i] = txs[i]
      BY <2>1, SoundStep DEF FeeInv
    <2>2. CASE /\ send_metered_tx
               /\ txs'[i] = [state |-> "pooled", nonce |-> nonce, quote |-> quote]
      <3>1. Sound(quote, gas_limit, height, base_fee)
        BY <2>2 DEF send_metered_tx, FeeInv
      <3>2. QED
        BY <2>2, <3>1, SoundStep
    <2>3. QED
      BY <1>4, <2>1, <2>2, PoolStep
  <1>5. QED
    BY <1>1, <1>2, <1>3, <1>4 DEF FeeInv

-----------------------------------------------------------------------------
(***************************************************************************)
(* Theorems.                                                               *)
(***************************************************************************)

LEMMA InitInv == Init => Inv
  <1> SUFFICES ASSUME Init PROVE Inv
    OBVIOUS
  <1>1. TypeOK
    BY InitType
  <1>2. \A i \in Entries : ~InPool(i)
    BY DEF Init, InPool
  <1>3. WalletInv
    BY <1>2, BatchAssumption DEF Init, WalletInv, AtEntry
  <1>4. SaidInv
    BY NoneAssumption, BatchAssumption DEF Init, SaidInv, Passed, Entries
  <1>5. FeeInv
    BY <1>2, HeadroomAssumption DEF Init, FeeInv
  <1>6. QED
    BY <1>1, <1>3, <1>4, <1>5 DEF Inv

LEMMA StepInv == Inv /\ [Next]_vars => Inv'
  <1>1. ASSUME Inv, Next PROVE Inv'
    BY <1>1, TypeStep, WalletStep, SaidStep, FeeStep DEF Inv
  <1>2. ASSUME Inv, UNCHANGED vars PROVE Inv'
    <2>1. UNCHANGED <<command, gas_limit, pc, entry, attempts, quote, said, closing, wallet, txs,
                      registered, balance, nonce, height, base_fee>>
      BY <1>2 DEF vars, local, chain
    <2>2. QED
      BY <1>2, <2>1
         DEF Inv, TypeOK, WalletInv, SaidInv, FeeInv, Passed, InPool
  <1>3. QED
    BY <1>1, <1>2

\* The inductive invariant of the registering commands.
THEOREM Invariance == Spec => []Inv
  BY InitInv, StepInv, PTL DEF Spec

\* Whatever becomes of a command and of what it sent, the secret of every
\* identity that gets registered is in a file: create_identity stores the
\* wallet before the transaction is built (register_member.rs).
THEOREM SecretCorrect == Spec => []PaidSecretRecoverable
  <1>1. Inv => PaidSecretRecoverable
    BY DEF Inv, WalletInv, PaidSecretRecoverable
  <1>2. QED
    BY <1>1, Invariance, PTL

\* The lines that register_commitments prints in its loop hold for batches of
\* any size: "Registered" of nothing else, and a warning for every entry that
\* the loop passed and that is not registered.
THEOREM LinesCorrect == Spec => []EntryLinesTrue
  <1>1. Inv => EntryLinesTrue
    BY DEF Inv, SaidInv, EntryLinesTrue
  <1>2. QED
    BY <1>1, Invariance, PTL

\* What assert_can_afford let through is admitted, and pays its price, for as
\* long as the payer spends nothing else and the headroom lasts: five full
\* blocks after the next one with a quote, and with the fallback for as long
\* as the base fee is the assumed one.
THEOREM AffordCorrect == Spec => []AffordedTxAdmitted
  <1>1. ASSUME Inv,
               NEW i \in Entries, txs[i] # None, txs[i].state = "pooled",
               txs[i].nonce = nonce, txs[i].quote.balance = balance,
               IF txs[i].quote.basis = "Quote"
               THEN height <= txs[i].quote.height + 1 + HEADROOM_BLOCKS
               ELSE base_fee <= ASSUMED_BASE_FEE
        PROVE  Admits(i) /\ PRICE <= balance - ChainReserve(gas_limit)
    <2>1. Sound(txs[i].quote, gas_limit, height, base_fee)
      BY <1>1 DEF Inv, FeeInv, InPool
    <2>2. gas_limit \in Nat /\ height \in Nat /\ base_fee \in Nat /\ balance \in Nat
      BY <1>1 DEF Inv, TypeOK
    <2>3. /\ (gas_limit + ASSUMED_DATA_BYTES) * base_fee <= txs[i].quote.max_fee
          /\ PRICE + txs[i].quote.max_fee <= txs[i].quote.balance
      BY <1>1, <2>1, <2>2, SoundSuffices
    <2>4. /\ ChainReserve(gas_limit) <= txs[i].quote.max_fee
          /\ PRICE + txs[i].quote.max_fee <= balance
      BY <1>1, <2>3 DEF ChainReserve
    <2>5. txs[i].quote.max_fee \in Nat /\ PRICE \in Nat /\ ChainReserve(gas_limit) \in Nat
      <3>1. gas_limit + ASSUMED_DATA_BYTES \in Nat
        BY <2>2, BatchAssumption
      <3>2. QED
        BY <2>1, <2>2, <3>1, Product, BatchAssumption DEF Sound, ChainReserve
    <2>6. QED
      BY <1>1, <2>2, <2>4, <2>5 DEF Admits
  <1>2. Inv => AffordedTxAdmitted
    BY <1>1 DEF AffordedTxAdmitted
  <1>3. QED
    BY <1>2, Invariance, PTL

=============================================================================
