--------------------------- MODULE MCRegisterBatch ---------------------------
(***************************************************************************)
(* Two entries.  Gas and sizes are the code's in units of 100,000: 10M     *)
(* gas, 100k bytes.  The base fee starts at devnet's 8, or high enough     *)
(* that rounding hides nothing of an eighth.                               *)
(***************************************************************************)
EXTENDS RegisterBatch

\* A payer that can just afford one registration, and one that can afford both.
SmallStarts == {[base_fee |-> 8, balance |-> 14000],
                [base_fee |-> 800, balance |-> 181850]}

=============================================================================
