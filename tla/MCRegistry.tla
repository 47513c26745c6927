----------------------------- MODULE MCRegistry -----------------------------
(***************************************************************************)
(* Small instances of Registry for TLC.  Time runs in whole seconds (the   *)
(* unit of the durations), counted in ms as the code counts it.            *)
(***************************************************************************)
EXTENDS Registry, TLC

CONSTANTS c1, c2, s1, s2, p1, t1, t2, m1, m2,
          LastSecond   \* the clock stops here

Hash == (s1 :> c1) @@ (s2 :> c2)

\* Rate limits on both sides of the valid range 1..2.
Rates == 0 .. 3

Seconds == {1000 * s : s \in 0 .. LastSecond}

\* A deployment, and two that differ from it in one claim a client could get
\* wrong: the callee, the treasury.
Base == [merkle_program_id |-> m1,
         price_per_unit |-> 1,
         treasury_account_id |-> t1,
         max_total_rate_limit |-> 3,
         active_duration_sec |-> 2,
         grace_period_duration_sec |-> 1]

SmallDeployments == {Base,
                     [Base EXCEPT !.merkle_program_id = m2],
                     [Base EXCEPT !.treasury_account_id = t2]}

\* Deployments at the edges of the arithmetic: a price whose product with the
\* larger rate limit does not fit in U128_MAX, with a membership so short that
\* it can be dated to its end and has no grace period; and periods that run
\* past the last instant of a small U64_MAX.
EdgeDeployments == {[Base EXCEPT !.price_per_unit = 4,
                                 !.max_total_rate_limit = 4,
                                 !.active_duration_sec = 1,
                                 !.grace_period_duration_sec = 0],
                    [Base EXCEPT !.active_duration_sec = 3,
                                 !.grace_period_duration_sec = 2]}

Balances == p1 :> 5

=============================================================================
