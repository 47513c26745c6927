----------------------------- MODULE RlnLayouts -----------------------------
(***************************************************************************)
(* What the guests and the host share: the arithmetic of lifetimes, prices *)
(* and rate limits, and the leaf a membership puts in the tree.  The code  *)
(* saturates; u64 for time and counters, u128 for money.                   *)
(***************************************************************************)
EXTENDS Integers

CONSTANTS
    MIN_RATE_LIMIT, MAX_RATE_LIMIT,
    CLOCK_CLAIM_TOLERANCE_MS,
    U64_MAX, U128_MAX

\* H(id_commitment, rate_limit).  Poseidon is taken to be injective and never
\* to yield the empty leaf, so a leaf is the pair it hashes.
compute_registration_leaf(c, rate) == <<c, rate>>

\* Mutation: the sum wraps around.
wrapping_add(a, b) == (a + b) % (U64_MAX + 1)

saturating_add(a, b) == IF a + b > U64_MAX THEN U64_MAX ELSE a + b
saturating_sub(a, b) == IF a < b THEN 0 ELSE a - b

secs_to_millis(secs) == secs * 1000

\* Mutation: the product wraps around.
wrapping_payment_amount(rate, price) == (price * rate) % (U128_MAX + 1)

calculate_payment_amount(rate, price) ==
    IF price * rate > U128_MAX THEN U128_MAX ELSE price * rate

\* Mutation: the window has no lower end.
is_in_grace_period_from_birth(start, duration, now) ==
    now < saturating_add(start, duration)

is_in_grace_period(start, duration, now) ==
    start <= now /\ now < saturating_add(start, duration)

\* Mutation: expiry judged at the start of the grace period.
is_expired_at_grace_start(start, duration, now) == now >= start

is_expired(start, duration, now) == now >= saturating_add(start, duration)

validate_rate_limit(rate) == MIN_RATE_LIMIT <= rate /\ rate <= MAX_RATE_LIMIT

\* Mutation: a claim may also lead the clock.
assert_clock_is_either_side(timestamp, now) ==
    timestamp > 0 /\ timestamp - now <= CLOCK_CLAIM_TOLERANCE_MS

\* The claim trails the clock by the tolerance at most, and never leads it; a
\* clock at its genesis zero backs no claim.
assert_clock_is(timestamp, now) ==
    /\ timestamp > 0
    /\ now <= timestamp
    /\ timestamp - now <= CLOCK_CLAIM_TOLERANCE_MS

=============================================================================
