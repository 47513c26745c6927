------------------------------ MODULE MCTxExec ------------------------------
(***************************************************************************)
(* Two registries with a commitment, a payer and the clock in common.      *)
(***************************************************************************)
EXTENDS TxExec, TLC

CONSTANTS c1, s1, p1, a1, a2, m1, m2, r1, r2, t1, t2,
          LastSecond   \* the clock stops here

Hash == s1 :> c1

Seconds == {1000 * s : s \in 0 .. LastSecond}

Base == [merkle_program_id |-> m1,
         price_per_unit |-> 1,
         treasury_account_id |-> a1,
         max_total_rate_limit |-> 1,
         active_duration_sec |-> 1,
         grace_period_duration_sec |-> 1]

\* A deployment, and one that differs in the callee and the treasury.
SmallDeployments == {Base, [Base EXCEPT !.merkle_program_id = m2,
                                        !.treasury_account_id = a2]}

Balances == p1 :> 3

\* One registration program with two trees.
TwoTrees == {<<r1, t1>>, <<r1, t2>>}

First == <<r1, t1>>

=============================================================================
