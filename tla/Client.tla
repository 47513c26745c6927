------------------------------- MODULE Client -------------------------------
(***************************************************************************)
(* A client of the registry: register_identity, extend_membership,         *)
(* erase_membership and slash_membership as the reads, the send and the    *)
(* polls they are made of, and the check-membership tool, which only       *)
(* reads.  Each read is a step of its own, and between any two steps of    *)
(* the client anybody else may run any transaction: Registry's Next is the *)
(* environment.  Other honest clients, and earlier transactions of this    *)
(* one that land late, are among its steps.                                *)
(***************************************************************************)
EXTENDS Registry, Sequences

CONSTANTS
    Jobs,        \* what the client may be asked to do
    Reserves,    \* fee reserves a quote, or the fallback without one, leads to
    None         \* no value: nothing read, no leaf found, nothing returned

Ops == {"register", "extend", "erase", "slash", "check"}

\* The arguments of a call.  `merkle` is the program id the tree's record
\* names; the rate limit is used by register, the secret by slash.
JobRecord == [op : Ops, id_commitment : Commitments, rate_limit : Nat,
              identity_secret : Secrets, payer : Payers, merkle : MerklePrograms]

\* A well-formed call: the rate limit is a legal one, and the secret is the
\* commitment's.
ASSUME JobAssumption ==
    /\ Jobs \subseteq JobRecord
    /\ \A j \in Jobs : /\ j.rate_limit \in RateLimits
                       /\ validate_rate_limit(j.rate_limit)
                       /\ hash_single[j.identity_secret] = j.id_commitment
    /\ Reserves \subseteq Nat

\* No index and no instant is mistaken for a missing one.
ASSUME NoneAssumption == None \notin Nat

VARIABLES
    pc,       \* where the client is
    job,      \* the call it works on
    view,     \* what it has read so far
    tx,       \* the transaction it sent
    fate,     \* what became of that, and the index a registration was given
    result,   \* what register_identity returned, or check-membership reported
    quiet     \* history: nobody else has changed the chain since the call began

client == <<pc, job, view, tx, fate, result, quiet>>
all == <<vars, client>>

Running == {"config", "membership", "shard", "now", "leaf", "clock", "tree", "afford", "send",
            "poll", "block", "reread"}

ClientInit ==
    /\ Init
    /\ pc = "off"
    /\ job = None
    /\ view = [config |-> None, membership |-> None, now |-> None, index |-> None,
               next_index |-> None]
    /\ tx = None
    /\ fate = [state |-> "unsent", index |-> None]
    /\ result = [is |-> "nothing", index |-> None]
    /\ quiet = TRUE

\* The order of each call's reads, up to its send and what follows it.
register_identity == <<"config", "clock", "tree", "afford", "send", "poll">>
extend_membership == <<"config", "membership", "clock", "afford", "send", "done">>
erase_membership == <<"config", "membership", "leaf", "clock", "send", "done">>
slash_membership == <<"config", "membership", "leaf", "send", "done">>
check_membership == <<"shard", "now", "done">>

Steps(op) == CASE op = "register" -> register_identity
               [] op = "extend" -> extend_membership
               [] op = "erase" -> erase_membership
               [] op = "slash" -> slash_membership
               [] op = "check" -> check_membership

\* On to what the call does after this.
Proceed ==
    LET call == Steps(job.op)
    IN  \E k \in 1 .. (Len(call) - 1) : call[k] = pc /\ pc' = call[k + 1]

\* A failed assertion ends the call.
Panic == pc' = "panicked" /\ UNCHANGED view

-----------------------------------------------------------------------------
(***************************************************************************)
(* Reads.                                                                  *)
(***************************************************************************)

\* Whoever slashes holds the secret.
Call(j) ==
    /\ pc = "off"
    /\ j.op = "slash" => j.identity_secret \in revealed
    /\ pc' = Head(Steps(j.op))
    /\ job' = j
    /\ UNCHANGED <<vars, view, tx, fate, result, quiet>>

\* The record names the merkle program that the config does.
check_merkle_claim == job.op = "extend" \/ config.merkle_program_id = job.merkle

read_config ==
    /\ pc = "config"
    /\ IF config # Empty /\ check_merkle_claim
       THEN Proceed /\ view' = [view EXCEPT !.config = config]
       ELSE Panic
    /\ UNCHANGED <<vars, job, tx, fate, result, quiet>>

read_membership ==
    /\ pc = "membership"
    /\ IF membership[job.id_commitment] # Empty
       THEN Proceed /\ view' = [view EXCEPT !.membership = membership[job.id_commitment]]
       ELSE Panic
    /\ UNCHANGED <<vars, job, tx, fate, result, quiet>>

read_clock_ms ==
    /\ pc = "clock"
    /\ IF clock > 0 THEN Proceed /\ view' = [view EXCEPT !.now = clock] ELSE Panic
    /\ UNCHANGED <<vars, job, tx, fate, result, quiet>>

\* Mutation: an uninitialized tree reads as one without leaves.
check_tree_shard_lenient == TRUE

check_tree_shard == tree[job.merkle] # Empty

\* The newest index below `next_index` that holds the leaf.
find_leaf_index(leaf) ==
    LET at == {i \in Indices : /\ tree[job.merkle] # Empty
                               /\ i < tree[job.merkle].next_index
                               /\ tree[job.merkle].leaves[i] = leaf}
    IN  IF at = {} THEN None ELSE CHOOSE i \in at : \A j \in at : j <= i

\* The membership was read before; a member without a leaf ends the call with
\* "the membership exists but no leaf in the tree holds it".
locate_membership_leaf ==
    /\ pc = "leaf"
    /\ LET at == find_leaf_index(compute_registration_leaf(job.id_commitment,
                                                           view.membership.rate_limit))
       IN  IF ~check_tree_shard THEN Panic
           ELSE IF at = None THEN pc' = "leafless" /\ UNCHANGED view
           ELSE Proceed /\ view' = [view EXCEPT !.index = at]
    /\ UNCHANGED <<vars, job, tx, fate, result, quiet>>

registration_leaf == compute_registration_leaf(job.id_commitment, job.rate_limit)

\* register_identity's already_at.
FindAlreadyAt ==
    /\ pc = "tree"
    /\ IF check_tree_shard
       THEN /\ Proceed
            /\ view' = [view EXCEPT
                          !.index = find_leaf_index(registration_leaf),
                          !.next_index = IF tree[job.merkle] = Empty THEN 0
                                         ELSE tree[job.merkle].next_index]
       ELSE Panic
    /\ UNCHANGED <<vars, job, tx, fate, result, quiet>>

\* The rate limit the transaction will name: a new one, or the member's own.
ClaimedRate == IF job.op = "register" THEN job.rate_limit ELSE view.membership.rate_limit

\* Mutation: the reserve is checked, the price is not.
assert_can_afford_fee_only ==
    /\ pc = "afford"
    /\ \E reserve \in Reserves :
          IF balance[job.payer] >= reserve THEN Proceed /\ UNCHANGED view ELSE Panic
    /\ UNCHANGED <<vars, job, tx, fate, result, quiet>>

\* The payer holds the price and the reserve; both sums saturate.
assert_can_afford ==
    /\ pc = "afford"
    /\ \E reserve \in Reserves :
          LET price == calculate_payment_amount(ClaimedRate, view.config.price_per_unit)
              required == IF price + reserve > U128_MAX THEN U128_MAX ELSE price + reserve
          IN  IF balance[job.payer] >= required THEN Proceed /\ UNCHANGED view ELSE Panic
    /\ UNCHANGED <<vars, job, tx, fate, result, quiet>>

-----------------------------------------------------------------------------
(***************************************************************************)
(* check-membership.                                                       *)
(***************************************************************************)

Return(what, index) == pc' = "done" /\ result' = [is |-> what, index |-> index]

\* Mutation: the membership expires with its active period.
lifecycle_without_grace(m, now) ==
    IF is_expired(m.grace_period_start_timestamp_ms, 0, now) THEN "expired" ELSE "active"

lifecycle(m, now) ==
    LET grace_ms == secs_to_millis(m.grace_period_duration_sec)
    IN  CASE is_expired(m.grace_period_start_timestamp_ms, grace_ms, now) -> "expired"
          [] is_in_grace_period(m.grace_period_start_timestamp_ms, grace_ms, now) -> "grace_period"
          [] OTHER -> "active"

\* The membership first: an absent shard ends the call with "not registered".
get_account_shard ==
    /\ pc = "shard"
    /\ IF membership[job.id_commitment] = Empty
       THEN Return("unregistered", None) /\ UNCHANGED view
       ELSE /\ Proceed
            /\ view' = [view EXCEPT !.membership = membership[job.id_commitment]]
            /\ UNCHANGED result
    /\ UNCHANGED <<vars, job, tx, fate, quiet>>

\* Then the clock, and the report.
clock_timestamp_ms ==
    /\ pc = "now"
    /\ view' = [view EXCEPT !.now = clock]
    /\ Return(lifecycle(view.membership, clock), None)
    /\ UNCHANGED <<vars, job, tx, fate, quiet>>

-----------------------------------------------------------------------------
(***************************************************************************)
(* The transaction.                                                        *)
(***************************************************************************)

\* Every claim is what was read; only register waits for the outcome.
send_metered_tx ==
    /\ pc = "send"
    /\ tx' = [op |-> job.op, id_commitment |-> job.id_commitment,
              identity_secret |-> job.identity_secret, payer |-> job.payer,
              claim |-> view.config, tree_main |-> job.merkle,
              rate_limit |-> ClaimedRate, now_ms |-> view.now, leaf_index |-> view.index]
    /\ fate' = [fate EXCEPT !.state = "pooled"]
    /\ Proceed
    /\ UNCHANGED <<vars, job, view, result, quiet>>

\* The merkle call's shard is selected by the record, its callee claimed from
\* the config.
require_tree_main(t) == t.tree_main = t.claim.merkle_program_id

Execute(t) ==
    \/ /\ t.op = "register"
       /\ require_tree_main(t)
       /\ Register(t.id_commitment, t.rate_limit, t.claim, t.now_ms, t.payer)
    \/ /\ t.op = "extend"
       /\ Extend(t.id_commitment, t.rate_limit, t.claim, t.now_ms, t.payer)
    \/ /\ t.op = "erase"
       /\ require_tree_main(t)
       /\ Erase(t.id_commitment, t.rate_limit, t.claim.merkle_program_id, t.leaf_index, t.now_ms)
    \/ /\ t.op = "slash"
       /\ require_tree_main(t)
       /\ Slash(t.identity_secret, t.id_commitment, t.rate_limit,
                t.claim.merkle_program_id, t.leaf_index)

RunTx ==
    /\ fate.state = "pooled"
    /\ Execute(tx)
    /\ fate' = [state |-> "effective",
                index |-> IF tx.op = "register" THEN tree[tx.tree_main].next_index ELSE None]
    /\ UNCHANGED <<pc, job, view, tx, result, quiet>>

\* Refused, as a charged revert in a block or by being left out of it.
RefuseTx(how) ==
    /\ fate.state = "pooled"
    /\ fate' = [fate EXCEPT !.state = how]
    /\ UNCHANGED <<vars, pc, job, view, tx, result, quiet>>

-----------------------------------------------------------------------------
(***************************************************************************)
(* register_identity's wait.                                               *)
(***************************************************************************)

\* Mutation: any leaf of this registration will do.
landed_anywhere == find_leaf_index(registration_leaf)

\* The leaf at an index past the one it already had.
landed ==
    LET at == find_leaf_index(registration_leaf)
    IN  IF at # None /\ (view.index = None \/ at > view.index) THEN at ELSE None

Poll ==
    /\ pc = "poll"
    /\ IF landed # None THEN Return("some", landed) ELSE pc' = "block" /\ UNCHANGED result
    /\ UNCHANGED <<vars, job, view, tx, fate, quiet>>

\* Mutation: in a block and not seen before it: it had no effect.
get_transaction_trusting ==
    /\ pc = "block"
    /\ \/ fate.state \in {"effective", "refused"} /\ Return("absent", None)
       \/ pc' = "poll" /\ UNCHANGED result
       \/ Return("timeout", None)
    /\ UNCHANGED <<vars, job, view, tx, fate, quiet>>

\* Told that the transaction is in a block, the client reads the tree again.
\* Without an answer, or with an error instead of one, the loop goes on or runs
\* out of attempts, wherever the transaction is by then.
get_transaction ==
    /\ pc = "block"
    /\ \/ fate.state \in {"effective", "refused"} /\ pc' = "reread" /\ UNCHANGED result
       \/ pc' = "poll" /\ UNCHANGED result
       \/ Return("timeout", None)
    /\ UNCHANGED <<vars, job, view, tx, fate, quiet>>

Reread ==
    /\ pc = "reread"
    /\ IF landed # None THEN Return("some", landed) ELSE Return("absent", None)
    /\ UNCHANGED <<vars, job, view, tx, fate, quiet>>

\* A failed read or send, or the end of the process.
Abort ==
    /\ pc \in Running
    /\ Panic
    /\ UNCHANGED <<vars, job, tx, fate, result, quiet>>

\* Anybody else, and the clock.
Environment ==
    /\ Next
    /\ quiet' = (quiet /\ pc = "off")
    /\ UNCHANGED <<pc, job, view, tx, fate, result>>

ClientNext ==
    \/ \E j \in Jobs : Call(j)
    \/ read_config
    \/ read_membership
    \/ read_clock_ms
    \/ locate_membership_leaf
    \/ FindAlreadyAt
    \/ assert_can_afford
    \/ get_account_shard
    \/ clock_timestamp_ms
    \/ send_metered_tx
    \/ RunTx
    \/ \E how \in {"refused", "left_out"} : RefuseTx(how)
    \/ Poll
    \/ get_transaction
    \/ Reread
    \/ Abort
    \/ Environment

ClientSpec == ClientInit /\ [][ClientNext]_all

-----------------------------------------------------------------------------
(***************************************************************************)
(* Properties.                                                             *)
(***************************************************************************)

\* The checks of a transaction that panic, and so charge its full gas.
Asserts(t) ==
    /\ config # Empty
    /\ t.op # "extend" => /\ require_tree_main(t)
                          /\ config.merkle_program_id = t.claim.merkle_program_id
                          /\ tree[t.tree_main] # Empty
    /\ t.op = "register" => validate_rate_limit(t.rate_limit)
    /\ t.op = "slash" => hash_single[t.identity_secret] = t.id_commitment

\* "Nothing about the chain can make an honest client trip" a panicking check:
\* whatever happens between the client's reads and the block its transaction
\* is in, only checks that halt with an exit code can refuse it.
HonestTxPassesAsserts == fate.state = "pooled" => Asserts(tx)

\* What the client leaves to the chain to decide.
Due(t) ==
    LET m == membership[t.id_commitment]
    IN  CASE t.op = "register" -> /\ m = Empty
                                  /\ can_register(t.rate_limit)
                                  /\ tree[t.tree_main].next_index < TREE_LEAVES
          [] t.op = "extend" -> is_in_grace_period(m.grace_period_start_timestamp_ms,
                                    secs_to_millis(m.grace_period_duration_sec), clock)
          [] t.op = "erase" -> is_expired(m.grace_period_start_timestamp_ms,
                                    secs_to_millis(m.grace_period_duration_sec), clock)
          [] t.op = "slash" -> TRUE

\* The transaction passes every check that Execute makes.
Accepted(t) ==
    /\ t.op # "extend" => require_tree_main(t)
    /\ CASE t.op = "register" ->
              RegisterAccepted(t.id_commitment, t.rate_limit, t.claim, t.now_ms, t.payer)
         [] t.op = "extend" ->
              ExtendAccepted(t.id_commitment, t.rate_limit, t.claim, t.now_ms, t.payer)
         [] t.op = "erase" ->
              EraseAccepted(t.id_commitment, t.rate_limit, t.claim.merkle_program_id,
                            t.leaf_index, t.now_ms)
         [] t.op = "slash" ->
              SlashAccepted(t.identity_secret, t.id_commitment, t.rate_limit,
                            t.claim.merkle_program_id, t.leaf_index)

\* If nobody else changes the chain during a call, its transaction succeeds
\* when the chain allows what it asks for: the client reads everything the
\* programs will check, and sends exactly that.
QuietTxSucceeds ==
    fate.state = "pooled" /\ quiet /\ Due(tx) => Accepted(tx)

\* An index that register_identity returns was filled after the call had read
\* the tree: a refused re-registration is never mistaken for one that landed
\* on the strength of a leaf that was there before.
ReturnedIndexIsNew ==
    result.is = "some" => result.index >= view.next_index

\* When register_identity returns None because its transaction is in a block,
\* no leaf of that transaction stands: it had no effect, or what it inserted
\* has been removed again.  Registering once more is then no duplicate.
AbsentMeansGone ==
    result.is = "absent" /\ fate.index # None =>
        tree[tx.tree_main].leaves[fate.index] # registration_leaf

\* What check-membership reports is what the programs would do: unless the
\* membership was changed between its two reads, "expired" means that it can
\* be erased at that moment, "grace_period" that it can be renewed, and
\* "active" neither.
ReportMatchesPrograms ==
    [][LET m == view.membership
           c == job.id_commitment
       IN  pc = "now" /\ pc' = "done" /\ membership[c] = m =>
             /\ (result'.is = "expired") <=> EraseMembershipChecks(c, m.rate_limit, clock)
             /\ (result'.is = "grace_period") <=> ExtendMembershipChecks(c, m.rate_limit, clock)]_all

\* locate_membership_leaf expects that a membership that exists has a leaf.
MembershipHasLeaf == pc # "leafless"

=============================================================================
