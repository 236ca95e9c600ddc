------------------------------ MODULE Accounts ------------------------------
(* The accounts that trade tokens. *)
EXTENDS FiniteSets

CONSTANTS
    Accounts,
    Operators   \* per account: who may act with its tokens, be it by approval
                \* of all or of a token, or by delegation

ASSUME AccountsAssumption ==
    /\ IsFiniteSet(Accounts)
    /\ Operators \in [Accounts -> SUBSET Accounts]
=============================================================================
