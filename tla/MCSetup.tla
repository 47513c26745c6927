------------------------------ MODULE MCSetup ------------------------------
(***************************************************************************)
(* One operator alone, or a second one whose environment names programs    *)
(* that the first deploys: the registration program only, or both.  Their  *)
(* wallets have seeds of their own or are copies of one.                   *)
(***************************************************************************)
EXTENDS Setup

CONSTANTS o1, o2, s1, s2

OneSeed == [o \in Operators |-> s1]

OwnSeeds == [o \in Operators |-> IF o = o2 THEN s2 ELSE s1]

NoOverride == [merkle |-> None, registration |-> None]

NoOverrides == [o \in Operators |-> NoOverride]

SharedRegistration ==
    [o \in Operators |-> IF o = o2 THEN [NoOverride EXCEPT !.registration = <<s1, 2>>]
                         ELSE NoOverride]

SharedPrograms ==
    [o \in Operators |-> IF o = o2 THEN [merkle |-> <<s1, 1>>, registration |-> <<s1, 2>>]
                         ELSE NoOverride]

=============================================================================
