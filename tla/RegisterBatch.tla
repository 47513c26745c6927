---------------------------- MODULE RegisterBatch ----------------------------
(***************************************************************************)
(* register_member and register_commitments: a loop of registrations paid  *)
(* by one account, against a chain whose base fee moves from block to      *)
(* block.  What a registration does to the registry is Registry's and what *)
(* its wait sees of the tree is Client's; here an entry is registered or   *)
(* not, and the state is the payer's money and nonce, the transactions in  *)
(* the pool, the wallet's keys and what the command has said.              *)
(***************************************************************************)
EXTENDS Integers, FiniteSets

CONSTANTS
    Commands,             \* which of the two commands may be run
    COUNT,                \* entries of the batch
    PRICE,                \* native balance one registration pays the registry
    MAX_GAS_EXEC,         \* the gas ceiling of a transaction
    ASSUMED_DATA_BYTES,   \* the size a reserve allows for
    ASSUMED_BASE_FEE,     \* the base fee the fallback reserve allows for
    BASE_FEE_HEADROOM,    \* factor over the quoted ceiling
    HEADROOM_BLOCKS,      \* full blocks after the next that the factor is to cover
    GasLimits,            \* values of LEZ_RLN_GAS_LIMIT, its default among them
    GasUsed,              \* gas a transaction may turn out to use
    Starts,               \* the chain's base fee and the payer's balance to start with
    Transfers,            \* amounts fund_account may be asked for
    MAX_HEIGHT,           \* bound: blocks of a behaviour
    ATTEMPTS,             \* wait_account_attempts
    U128_MAX,
    None                  \* nothing sent, nothing said

Entries == 1 .. COUNT

ASSUME BatchAssumption ==
    /\ COUNT \in Nat /\ PRICE \in Nat /\ ATTEMPTS \in Nat /\ MAX_HEIGHT \in Nat
    /\ MAX_GAS_EXEC \in Nat /\ ASSUMED_DATA_BYTES \in Nat /\ ASSUMED_BASE_FEE \in Nat
    /\ Commands \subseteq {"register_member", "register_commitments"}
    /\ GasLimits \subseteq Nat /\ GasUsed \subseteq Nat /\ Transfers \subseteq Nat
    /\ Starts \subseteq [base_fee : Nat, balance : Nat]

\* Doubling the quote covers five rises of an eighth, and not six; no payer
\* holds all that a u128 counts.
ASSUME HeadroomAssumption ==
    /\ BASE_FEE_HEADROOM \in Nat /\ BASE_FEE_HEADROOM >= 2
    /\ HEADROOM_BLOCKS \in 0 .. 5
    /\ U128_MAX \in Nat
    /\ \A start \in Starts : start.balance < U128_MAX

\* Nothing is none of the values it stands in for.
ASSUME NoneAssumption ==
    /\ None \notin Nat
    /\ None \notin {"Quote", "Fallback", "registered", "warned"}

VARIABLES
    command,      \* the command that runs
    gas_limit,    \* its LEZ_RLN_GAS_LIMIT
    pc,           \* where it is
    entry,        \* the entry it works on
    attempts,     \* polls left of the current wait
    quote,        \* what it read for the current entry: balance, reserve, basis
    said,         \* per entry, what it printed
    closing,      \* entries that its last line calls registered
    wallet,       \* entries whose secret can be had from a file on disk
    txs,          \* per entry, its transaction and what became of it
    registered,   \* entries with a membership and a leaf
    balance,      \* the payer's native balance
    nonce,        \* the payer's nonce
    height,       \* blocks so far
    base_fee      \* base fee of the block at `height`

chain == <<registered, balance, nonce, height, base_fee>>
local == <<command, gas_limit, closing>>
vars == <<local, pc, entry, attempts, quote, said, wallet, txs, chain>>

NoQuote == [balance |-> None, max_fee |-> None, basis |-> None, height |-> None]

\* The secrets of a CSV file were made elsewhere.
Init ==
    /\ command \in Commands
    /\ gas_limit \in GasLimits
    /\ pc = "next"
    /\ entry = 0
    /\ attempts = 0
    /\ quote = NoQuote
    /\ said = [i \in Entries |-> None]
    /\ closing = {}
    /\ wallet = IF command = "register_member" THEN {} ELSE Entries
    /\ txs = [i \in Entries |-> None]
    /\ registered = {}
    /\ \E start \in Starts : balance = start.balance /\ base_fee = start.base_fee
    /\ nonce = 0
    /\ height = 0

-----------------------------------------------------------------------------
(***************************************************************************)
(* Fees.                                                                   *)
(***************************************************************************)

saturate(n) == IF n > U128_MAX THEN U128_MAX ELSE n

\* A full block raises the base fee by an eighth.
FeeUp(fee) == fee + fee \div 8

declared_gas_limit_ok == gas_limit <= MAX_GAS_EXEC

\* Mutation: sized from the current base fee, not the next block's ceiling.
fee_reserve_from_current ==
    saturate(BASE_FEE_HEADROOM * (gas_limit + ASSUMED_DATA_BYTES) * base_fee)

\* getFeeState's ceiling of the next block bounds both base fees.
fee_reserve_from ==
    saturate(BASE_FEE_HEADROOM * (gas_limit + ASSUMED_DATA_BYTES) * FeeUp(base_fee))

DECLARED_MAX_FEE == (MAX_GAS_EXEC + ASSUMED_DATA_BYTES) * ASSUMED_BASE_FEE

\* What the chain moves out of the payer before a program runs.
ChainReserve(gas) == (gas + ASSUMED_DATA_BYTES) * base_fee

-----------------------------------------------------------------------------
(***************************************************************************)
(* The loop.                                                               *)
(***************************************************************************)

NextEntry ==
    /\ pc = "next"
    /\ entry < COUNT
    /\ entry' = entry + 1
    /\ pc' = IF command = "register_member" THEN "create" ELSE "balance"
    /\ UNCHANGED <<local, attempts, quote, said, wallet, txs, chain>>

\* After the loop register_commitments prints "All {} commitments registered
\* successfully.", whatever it said of them; register_member prints no more.
Close ==
    /\ pc = "next"
    /\ entry = COUNT
    /\ pc' = "done"
    /\ closing' = IF command = "register_commitments" THEN Entries ELSE {}
    /\ UNCHANGED <<command, gas_limit, entry, attempts, quote, said, wallet, txs, chain>>

\* Mutation: the wallet with the new key is not stored.
create_identity_unstored ==
    /\ pc = "create"
    /\ pc' = "balance"
    /\ UNCHANGED <<local, entry, attempts, quote, said, wallet, txs, chain>>

\* The identity is derived from a wallet key, stored before it is used.
create_identity ==
    /\ pc = "create"
    /\ wallet' = wallet \cup {entry}
    /\ pc' = "balance"
    /\ UNCHANGED <<local, entry, attempts, quote, said, txs, chain>>

\* assert_can_afford reads the balance first,
get_account_balance ==
    /\ pc = "balance"
    /\ quote' = [quote EXCEPT !.balance = balance]
    /\ pc' = "quote"
    /\ UNCHANGED <<local, entry, attempts, said, wallet, txs, chain>>

\* then the fee state, or goes without.  The reserve becomes the fee cap.
assert_can_afford ==
    /\ pc = "quote"
    /\ \E basis \in {"Quote", "Fallback"} :
          LET reserve == IF basis = "Quote" THEN fee_reserve_from ELSE DECLARED_MAX_FEE
          IN  /\ quote' = [quote EXCEPT !.max_fee = reserve, !.basis = basis, !.height = height]
              /\ pc' = IF declared_gas_limit_ok /\ quote.balance >= saturate(PRICE + reserve)
                       THEN "send" ELSE "panicked"
    /\ UNCHANGED <<local, entry, attempts, said, wallet, txs, chain>>

\* The nonce is the chain's, whatever this payer still has in the pool.
send_metered_tx ==
    /\ pc = "send"
    /\ txs' = [txs EXCEPT ![entry] = [state |-> "pooled", nonce |-> nonce, quote |-> quote]]
    /\ attempts' = ATTEMPTS
    /\ quote' = NoQuote
    /\ pc' = "poll"
    /\ UNCHANGED <<local, entry, said, wallet, chain>>

Settled == txs[entry].state \in {"effective", "reverted"}

\* Mutation: the wait goes on until the transaction is in a block.
Poll_forever ==
    /\ pc = "poll"
    /\ IF entry \in registered THEN pc' = "some"
       ELSE pc' = "poll" \/ (Settled /\ pc' = "none")
    /\ UNCHANGED <<local, entry, attempts, quote, said, wallet, txs, chain>>

\* One round of register_identity's wait: it goes on while the transaction is
\* not known to be in a block, be it that the question failed.
Poll ==
    /\ pc = "poll"
    /\ attempts > 0
    /\ IF entry \in registered THEN pc' = "some"
       ELSE pc' = "poll" \/ (Settled /\ pc' = "none")
    /\ attempts' = IF pc' = "poll" THEN attempts - 1 ELSE 0
    /\ UNCHANGED <<local, entry, quote, said, wallet, txs, chain>>

Timeout ==
    /\ pc = "poll"
    /\ attempts = 0
    /\ pc' = "none"
    /\ UNCHANGED <<local, entry, attempts, quote, said, wallet, txs, chain>>

Registered ==
    /\ pc = "some"
    /\ said' = [said EXCEPT ![entry] = "registered"]
    /\ pc' = "next"
    /\ UNCHANGED <<local, entry, attempts, quote, wallet, txs, chain>>

\* Mutation: an unconfirmed entry is passed over in silence.
Unconfirmed_silent ==
    /\ pc = "none"
    /\ command = "register_commitments"
    /\ pc' = "next"
    /\ UNCHANGED <<local, entry, attempts, quote, said, wallet, txs, chain>>

\* register_commitments warns and goes on,
Unconfirmed ==
    /\ pc = "none"
    /\ command = "register_commitments"
    /\ pc' = "next"
    /\ said' = [said EXCEPT ![entry] = "warned"]
    /\ UNCHANGED <<local, entry, attempts, quote, wallet, txs, chain>>

\* register_member gives up.
GiveUp ==
    /\ pc = "none"
    /\ command = "register_member"
    /\ pc' = "panicked"
    /\ UNCHANGED <<local, entry, attempts, quote, said, wallet, txs, chain>>

\* The process dies, or a read or a send fails.
Crash ==
    /\ pc \notin {"done", "panicked"}
    /\ pc' = "panicked"
    /\ quote' = NoQuote
    /\ attempts' = 0
    /\ UNCHANGED <<local, entry, said, wallet, txs, chain>>

-----------------------------------------------------------------------------
(***************************************************************************)
(* The chain.                                                              *)
(***************************************************************************)

\* Bound: blocks nobody's quote has to outlast are not counted.
QuoteInUse == quote.height # None \/ \E i \in Entries : txs[i] # None /\ txs[i].state = "pooled"

\* A block that is not full leaves the base fee, or lowers it, which can only
\* help.
NewBlock ==
    /\ height < MAX_HEIGHT /\ QuoteInUse
    /\ height' = height + 1
    /\ base_fee' \in {base_fee, FeeUp(base_fee)}
    /\ UNCHANGED <<local, pc, entry, attempts, quote, said, wallet, txs, registered, balance, nonce>>

Done(how) == [state |-> how]

\* The chain's admission of a transaction.
Admits(i) ==
    /\ txs[i].nonce = nonce
    /\ ChainReserve(gas_limit) <= txs[i].quote.max_fee
    /\ ChainReserve(gas_limit) <= balance

\* An admitted transaction is charged for the gas it used; its payment comes
\* out of what the reserve leaves.
Include(i, used) ==
    /\ txs[i] # None /\ txs[i].state = "pooled"
    /\ Admits(i)
    /\ used <= gas_limit
    /\ nonce' = nonce + 1
    /\ \/ /\ i \notin registered
          /\ PRICE <= balance - ChainReserve(gas_limit)
          /\ registered' = registered \cup {i}
          /\ txs' = [txs EXCEPT ![i] = Done("effective")]
          /\ balance' = balance - PRICE - used * base_fee
       \/ /\ txs' = [txs EXCEPT ![i] = Done("reverted")]
          /\ balance' = balance - used * base_fee
          /\ UNCHANGED registered
    /\ UNCHANGED <<local, pc, entry, attempts, quote, said, wallet, height, base_fee>>

\* Refused at admission, or lost.
Drop(i) ==
    /\ txs[i] # None /\ txs[i].state = "pooled"
    /\ txs' = [txs EXCEPT ![i] = Done("dropped")]
    /\ UNCHANGED <<local, pc, entry, attempts, quote, said, wallet, chain>>

\* Somebody runs fund_account with the same payer meanwhile.
fund_account(amount) ==
    /\ amount + ChainReserve(gas_limit) <= balance
    /\ nonce < COUNT
    /\ nonce' = nonce + 1
    /\ \E used \in GasUsed : used <= gas_limit /\ balance' = balance - amount - used * base_fee
    /\ UNCHANGED <<local, pc, entry, attempts, quote, said, wallet, txs, registered, height, base_fee>>

-----------------------------------------------------------------------------

Command ==
    \/ NextEntry
    \/ Close
    \/ create_identity
    \/ get_account_balance
    \/ assert_can_afford
    \/ send_metered_tx
    \/ Poll
    \/ Timeout
    \/ Registered
    \/ Unconfirmed
    \/ GiveUp

Next ==
    \/ Command
    \/ Crash
    \/ NewBlock
    \/ \E i \in Entries, used \in GasUsed : Include(i, used)
    \/ \E i \in Entries : Drop(i)
    \/ \E amount \in Transfers : fund_account(amount)

\* The command keeps running; nothing is assumed of the chain.
Spec == Init /\ [][Next]_vars /\ WF_vars(Command)

-----------------------------------------------------------------------------
(***************************************************************************)
(* Properties.                                                             *)
(***************************************************************************)

\* A transaction whose payer passed assert_can_afford, and has not spent
\* since, is admitted and can pay its price in every block up to
\* HEADROOM_BLOCKS full ones after the next, however the base fee climbs.
\* Without a quote that holds while the base fee stays at the assumed one.
AffordedTxAdmitted ==
    \A i \in Entries :
        LET t == txs[i]
        IN  /\ t # None
            /\ t.state = "pooled" /\ t.nonce = nonce /\ t.quote.balance = balance
            /\ IF t.quote.basis = "Quote" THEN height <= t.quote.height + 1 + HEADROOM_BLOCKS
                                          ELSE base_fee <= ASSUMED_BASE_FEE
            => Admits(i) /\ PRICE <= balance - ChainReserve(gas_limit)

\* The secret of every identity that register_member paid to register can be
\* derived again from the stored wallet, though its transaction may land after
\* the command timed out or died without printing it.
PaidSecretRecoverable == registered \subseteq wallet

\* The entries whose turn in the loop is over.
Passed(i) == i < entry \/ (i = entry /\ pc = "next") \/ pc = "done"

\* The lines printed in the loop are true, one by one: "Registered" is said only
\* of an entry that is, and the loop passes an entry that is not registered
\* only with a warning, though its transaction may have been dropped, reverted
\* or overtaken by the wait's end.
EntryLinesTrue ==
    \A i \in Entries :
        /\ said[i] = "registered" => i \in registered
        /\ Passed(i) /\ i \notin registered => said[i] = "warned"

\* The line after the loop, "All {} commitments registered successfully."
ClosingLineTrue == closing \subseteq registered

\* The command ends, whatever becomes of its transactions.
BatchEnds == <>(pc \in {"done", "panicked"})

=============================================================================
