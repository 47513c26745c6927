------------------------------ MODULE MCClient ------------------------------
(***************************************************************************)
(* One call of a client against everything that others can do to one       *)
(* commitment.                                                             *)
(***************************************************************************)
EXTENDS Client, TLC

CONSTANTS c1, s1, p1, t1, m1, m2,
          LastSecond   \* the clock stops here

Hash == s1 :> c1

Rates == 1 .. 2

Seconds == {1000 * s : s \in 0 .. LastSecond}

SmallDeployments == {[merkle_program_id |-> m1,
                      price_per_unit |-> 1,
                      treasury_account_id |-> t1,
                      max_total_rate_limit |-> 2,
                      active_duration_sec |-> 1,
                      grace_period_duration_sec |-> 1]}

Balances == p1 :> 4

\* Every call, with a record that names the config's merkle program or not.
AllJobs == [op : Ops, id_commitment : {c1}, rate_limit : {1}, identity_secret : {s1},
            payer : {p1}, merkle : {m1, m2}]

=============================================================================
